--------------------------- MODULE Refresh_proofs ---------------------------
(***************************************************************************)
(* RF2, which holds its semaphore file while it reads and writes its       *)
(* number, never takes a set twice, for any number of runs of both scripts *)
(* at any time, any size of a batch, and failures of SQL and of dbgen; and *)
(* no script takes a set that cannot be made, though RF1 holds nothing.    *)
(* One after the other, as in a test, the scripts are right, if dbgen is.  *)
(***************************************************************************)
EXTENDS Refresh, FiniteSetTheorems, TLAPS

\* The labels after a set is taken and the semaphore file is removed.
Free == {"done"} \cup SqlSteps
\* The labels before a script has read its number, and those of RF1 alone.
Before == {"idle", "lock1", "check", "dbgen1", "max1", "echo_max1", "curr1", "echo_curr1",
           "unlock1", "lock2", "read"}
Label == Before \cup {"read_max", "take", "echo_set", "dbgen2", "max2", "echo_max2", "write",
                      "unlock2", "failed"} \cup Free

\* The run is between lockfile_create and lockfile_remove of the file of RF2's number.
Holds(p) == script[p] = RF2 /\ pc[p] \in {"read", "write", "unlock2"}

Types ==
  /\ script \in [Run -> {RF1, RF2}]
  /\ pc \in [Run -> Label]
  /\ set_num \in [Run -> Int]
  /\ curr_set_file_rf1 \in Int /\ curr_set_file_rf2 \in Int

\* One run at a time is between the two, and the file exists.
Mutex ==
  /\ \A p \in Run : Holds(p) => RF2 \in lock_file
  /\ \A p, q \in Run : Holds(p) /\ Holds(q) => p = q

\* The number in the file is the largest that a run has taken; a run that is to write has
\* the next one.
Numbers ==
  /\ \A p \in Run : script[p] = RF2 /\ Taken(p) => set_num[p] <= curr_set_file_rf2
  /\ \A p \in Run : script[p] = RF2 /\ pc[p] = "write" => set_num[p] = curr_set_file_rf2 + 1

IInv == Types /\ Mutex /\ Numbers /\ RF2Apart

-----------------------------------------------------------------------------
\* No run has done anything at the start.
LEMMA InitIInv == Init => IInv
BY DEF Init, IInv, Types, Mutex, Numbers, RF2Apart, SetsApart, Taken, Holds, Label, Before,
       Free, SqlSteps, RF1, RF2, NoFile

\* A step of a run that has no part in the number of RF2: it is one of RF1, or it neither
\* takes a set nor makes the file.
LEMMA QuietStep ==
  ASSUME IInv, NEW p \in Run, NEW l \in Label, pc' = [pc EXCEPT ![p] = l],
         UNCHANGED <<script, curr_set_file_rf2>>,
         set_num' \in [Run -> Int], curr_set_file_rf1' \in Int,
         \A q \in Run : q # p => set_num'[q] = set_num[q],
         RF2 \in lock_file => RF2 \in lock_file',
         \/ script[p] = RF1
         \/ /\ l \notin {"read", "write", "unlock2"} /\ set_num'[p] = set_num[p]
            /\ Taken(p)' => Taken(p)
  PROVE  IInv'
<1> USE DEF RF1, RF2
<1>1. Types'
  BY DEF IInv, Types
<1>2. pc'[p] = l /\ \A q \in Run : q # p => pc'[q] = pc[q]
  BY DEF IInv, Types
<1>3. \A q \in Run : q # p => (Holds(q)' <=> Holds(q)) /\ (Taken(q)' <=> Taken(q))
  BY <1>2 DEF Holds, Taken
<1>4. CASE script[p] = RF1
  <2>1. ~Holds(p)' /\ script'[p] # RF2
    BY <1>4 DEF Holds
  <2> QED
    BY <1>1, <1>2, <1>3, <2>1 DEF IInv, Mutex, Numbers, RF2Apart, SetsApart
<1>5. CASE /\ l \notin {"read", "write", "unlock2"} /\ set_num'[p] = set_num[p]
           /\ Taken(p)' => Taken(p)
  <2>1. ~Holds(p)' /\ pc'[p] # "write"
    BY <1>2, <1>5 DEF Holds
  <2> QED
    BY <1>1, <1>2, <1>3, <1>5, <2>1 DEF IInv, Mutex, Numbers, RF2Apart, SetsApart
<1> QED
  BY <1>4, <1>5

\* The parts that depend only on who is where.
LEMMA Untouched ==
  ASSUME IInv, UNCHANGED <<script, pc, set_num, curr_set_file_rf1, curr_set_file_rf2, lock_file>>
  PROVE  IInv'
BY DEF IInv, Types, Mutex, Numbers, RF2Apart, SetsApart, Taken, Holds

\* A run that starts has taken no set and no file.
LEMMA StartStep ==
  ASSUME IInv, NEW p \in Run, Start(p)
  PROVE  IInv'
<1> USE DEF Start, Goto, disk
<1>1. pc' = [pc EXCEPT ![p] = "lock1"] /\ Types'
  BY DEF IInv, Types, Label, Before
<1>2. pc'[p] = "lock1" /\ \A q \in Run : q # p => script'[q] = script[q] /\ pc'[q] = pc[q]
  BY DEF IInv, Types
<1>3. \A q \in Run : /\ q # p => (Holds(q)' <=> Holds(q)) /\ (Taken(q)' <=> Taken(q))
                     /\ ~Holds(p)' /\ ~Taken(p)'
  BY <1>2 DEF Holds, Taken, SqlSteps
<1> QED
  BY <1>1, <1>2, <1>3 DEF IInv, Mutex, Numbers, RF2Apart, SetsApart

\* The file is made only when it is not there, so that nobody is inside.
LEMMA LockStep ==
  ASSUME IInv, NEW p \in Run, Lock(p)
  PROVE  IInv'
<1> USE DEF Lock, lockfile_create, Locking, Goto, Second, shell, disk, RF1, RF2
<1>1. CASE script[p] = RF1 \/ pc[p] = "lock1"
  <2>1. PICK l \in {"check", "read"} : pc' = [pc EXCEPT ![p] = l] /\ (pc[p] = "lock1" => l = "check")
    BY DEF lockfile_create
  <2>2. l \in Label /\ (l = "check" => ~Taken(p)')
    BY <2>1 DEF Label, Before, IInv, Types, Taken, SqlSteps
  <2> QED
    BY <1>1, <2>1, <2>2, QuietStep DEF IInv, Types
<1>2. CASE script[p] = RF2 /\ pc[p] = "lock2"
  <2>1. /\ pc' = [pc EXCEPT ![p] = "read"] /\ RF2 \notin lock_file /\ RF2 \in lock_file'
    BY <1>2
  <2>2. Types' /\ pc'[p] = "read" /\ \A q \in Run : q # p => pc'[q] = pc[q]
    BY <2>1 DEF IInv, Types, Label, Before
  <2>3. \A q \in Run : /\ ~Holds(q)
                       /\ q # p => ~Holds(q)' /\ (Taken(q)' <=> Taken(q))
                       /\ ~Taken(p)'
    BY <2>1, <2>2 DEF IInv, Mutex, Holds, Taken, SqlSteps
  <2> QED
    BY <2>1, <2>2, <2>3 DEF IInv, Mutex, Numbers, RF2Apart, SetsApart
<1> QED
  BY <1>1, <1>2 DEF IInv, Types

\* The run that removes the file is the one that made it.
LEMMA UnlockStep ==
  ASSUME IInv, NEW p \in Run, Unlock(p)
  PROVE  IInv'
<1> USE DEF Unlock, lockfile_remove, Locking, Goto, Second, shell, disk, RF1, RF2
<1>1. PICK l \in {"lock2", "load_lineitem", "load_keys"} :
        pc' = [pc EXCEPT ![p] = l] /\ (l # "lock2" => pc[p] = "unlock2")
  BY DEF FirstLoad
<1>2. l \in Label /\ pc'[p] = l /\ (Taken(p)' => Taken(p))
  BY <1>1 DEF Label, Before, Free, IInv, Types, Taken, SqlSteps
<1>3. CASE script[p] = RF1 \/ pc[p] = "unlock1"
  <2>1. RF2 \in lock_file => RF2 \in lock_file'
    BY <1>3
  <2> QED
    BY <1>1, <1>2, <2>1, QuietStep DEF IInv, Types
<1>4. CASE script[p] = RF2 /\ pc[p] = "unlock2"
  <2>1. Types' /\ \A q \in Run : q # p => pc'[q] = pc[q]
    BY <1>1, <1>2 DEF IInv, Types
  <2>2. \A q \in Run : /\ ~Holds(q)'
                       /\ q # p => (Taken(q)' <=> Taken(q))
    BY <1>1, <1>2, <1>4, <2>1 DEF IInv, Mutex, Holds, Taken
  <2>3. pc'[p] # "write"
    BY <1>1, <1>2
  <2> QED
    BY <1>2, <2>1, <2>2, <2>3 DEF IInv, Mutex, Numbers, RF2Apart, SetsApart
<1> QED
  BY <1>3, <1>4 DEF IInv, Types

\* What RF1 does to its numbers and sets.
LEMMA RF1Step ==
  ASSUME IInv, NEW p \in Run,
         \/ Check1(p) \/ Generated(p) \/ OpenMax(p) \/ EchoMax(p) \/ OpenCurr(p)
         \/ EchoFirst(p) \/ ReadMax(p) \/ EchoSet(p)
  PROVE  IInv'
<1> USE DEF Check1, Generated, OpenMax, EchoMax, OpenCurr, EchoFirst, ReadMax, EchoSet, At, Goto,
            shell, disk
<1>1. PICK l \in Label : pc' = [pc EXCEPT ![p] = l]
  BY DEF Label, Before
<1>2. script[p] = RF1 /\ UNCHANGED <<script, set_num, curr_set_file_rf2, lock_file>>
  OBVIOUS
<1>3. curr_set_file_rf1' \in Int
  BY DEF IInv, Types, Empty
<1> QED
  BY <1>1, <1>2, <1>3, QuietStep DEF IInv, Types

LEMMA Check2Step ==
  ASSUME IInv, NEW p \in Run, Check2(p)
  PROVE  IInv'
<1>1. PICK l \in {"failed", "unlock1"} : pc' = [pc EXCEPT ![p] = l]
  BY DEF Check2, Goto
<1>2. l \in Label /\ ~Taken(p)'
  BY <1>1 DEF Label, Before, IInv, Types, Taken, SqlSteps
<1> QED
  BY <1>1, <1>2, QuietStep DEF Check2, disk, IInv, Types

\* RF2 has the number after the one in its file.
LEMMA Read2Step ==
  ASSUME IInv, NEW p \in Run, Read2(p)
  PROVE  IInv'
<1> USE DEF Read2, At, Goto, RF1, RF2, NoFile
<1>1. Types' /\ curr_set_file_rf2' >= curr_set_file_rf2
  BY DEF IInv, Types, Label
<1>2. \A q \in Run : q # p => script'[q] = script[q] /\ pc'[q] = pc[q] /\ set_num'[q] = set_num[q]
  BY DEF IInv, Types
<1>3. Holds(p) /\ pc'[p] = "write" /\ set_num'[p] = curr_set_file_rf2' + 1 /\ script'[p] = RF2
  BY DEF IInv, Types, Holds
<1>4. \A q \in Run : q # p => ~Holds(q) /\ ~Holds(q)' /\ (Taken(q)' <=> Taken(q))
  BY <1>2, <1>3 DEF IInv, Mutex, Holds, Taken
<1>5. ~Taken(p)'
  BY <1>3 DEF Taken, SqlSteps
<1>6. \A q \in Run : q # p => ~(script'[q] = RF2 /\ pc'[q] = "write")
  BY <1>4 DEF Holds
<1>7. Mutex'
  BY <1>3, <1>4 DEF IInv, Mutex
<1>8. Numbers'
  BY <1>1, <1>2, <1>3, <1>4, <1>5, <1>6 DEF IInv, Types, Numbers
<1> QED
  BY <1>1, <1>2, <1>4, <1>5, <1>7, <1>8 DEF IInv, RF2Apart, SetsApart

\* RF2 takes its set, whose number is larger than every one taken, or fails.
LEMMA Write2Step ==
  ASSUME IInv, NEW p \in Run, Write2(p)
  PROVE  IInv'
<1> USE DEF Write2, At, Goto, shell, RF1, RF2
<1>1. Types'
  BY DEF IInv, Types, Label
<1>2. \A q \in Run : q # p => script'[q] = script[q] /\ pc'[q] = pc[q]
  BY DEF IInv, Types
<1>3. /\ Holds(p) /\ script[p] = RF2 /\ set_num' = set_num /\ set_num[p] = curr_set_file_rf2 + 1
      /\ \/ pc'[p] = "failed" /\ curr_set_file_rf2' = curr_set_file_rf2
         \/ pc'[p] = "unlock2" /\ curr_set_file_rf2' = set_num[p]
  BY DEF IInv, Types, Holds, Numbers
<1>4. \A q \in Run : q # p => ~Holds(q) /\ ~Holds(q)' /\ (Taken(q)' <=> Taken(q))
  BY <1>2, <1>3 DEF IInv, Mutex, Holds, Taken
<1>5. \A q \in Run : q # p => ~(script'[q] = RF2 /\ pc'[q] = "write")
  BY <1>4 DEF Holds
<1>6. Mutex'
  BY <1>3, <1>4 DEF IInv, Mutex
<1>10. pc'[p] = "failed" => ~Taken(p)'
  BY DEF Taken, SqlSteps
<1>7. Numbers'
  BY <1>1, <1>2, <1>3, <1>4, <1>5, <1>10 DEF IInv, Types, Numbers
<1>8. ~Taken(p)' \/ \A q \in Run : q # p /\ script[q] = RF2 /\ Taken(q) => set_num[q] < set_num[p]
  BY <1>3, <1>10 DEF IInv, Types, Numbers
<1>9. RF2Apart'
  BY <1>1, <1>2, <1>3, <1>4, <1>8 DEF IInv, Types, RF2Apart, SetsApart
<1> QED
  BY <1>1, <1>6, <1>7, <1>9 DEF IInv

\* The statements of SQL.
LEMMA SqlStep ==
  ASSUME IInv, NEW p \in Run,
         LoadLineitem(p) \/ InsertLineitem(p) \/ LoadOrders(p)
           \/ InsertOrders(p) \/ LoadKeys(p) \/ DeleteLineitem(p) \/ DeleteOrders(p) \/ Drop(p)
           \/ SqlError(p)
  PROVE  IInv'
<1>1. pc[p] \in SqlSteps /\ UNCHANGED <<shell, disk, lock_file>>
  BY DEF LoadLineitem, InsertLineitem, LoadOrders, InsertOrders, LoadKeys,
         DeleteLineitem, DeleteOrders, Drop, SqlError, Load, SqlSteps
<1>2. PICK l \in Free \cup {"failed"} : pc' = [pc EXCEPT ![p] = l]
  BY DEF LoadLineitem, InsertLineitem, LoadOrders, InsertOrders, LoadKeys,
         DeleteLineitem, DeleteOrders, Drop, SqlError, Load, Goto, Free, SqlSteps
<1>3. l \in Label /\ l \notin {"read", "write", "unlock2"} /\ Taken(p)
  BY <1>1 DEF Label, Free, SqlSteps, Taken
<1> QED
  BY <1>1, <1>2, <1>3, QuietStep DEF shell, disk, IInv, Types

\* Every step preserves the invariant.
LEMMA NextIInv ==
  ASSUME IInv, [Next]_vars
  PROVE  IInv'
<1>1. ASSUME NEW p \in Run, Start(p) PROVE IInv'
  BY <1>1, StartStep
<1>2. ASSUME NEW p \in Run, Step(p) PROVE IInv'
  <2>1. CASE GenSet(p)
    BY <2>1, Untouched DEF GenSet, shell, disk
  <2>2. CASE Read1(p)
    <3>1. script[p] = RF1 /\ pc' = [pc EXCEPT ![p] = "read_max"] /\ "read_max" \in Label
          /\ UNCHANGED <<script, curr_set_file_rf2, lock_file>>
      BY <2>2 DEF Read1, At, Goto, disk, Label
    <3>2. Number(curr_set_file_rf1) + 1 \in Int
      BY DEF Number, IInv, Types
    <3>3. /\ set_num' \in [Run -> Int] /\ \A q \in Run : q # p => set_num'[q] = set_num[q]
          /\ curr_set_file_rf1' \in Int
      BY <2>2, <3>2 DEF Read1, disk, IInv, Types
    <3> QED
      BY <3>1, <3>3, QuietStep
  <2> QED
    BY <1>2, <2>1, <2>2, LockStep, UnlockStep, RF1Step, Check2Step, Read2Step, Write2Step, SqlStep
       DEF Step
<1>3. CASE UNCHANGED vars
  BY <1>3, Untouched DEF vars, shell, disk
<1> QED
  BY <1>1, <1>2, <1>3 DEF Next, Halt

\* Two runs of RF2 never take the same set, whoever starts the scripts and when: run_rf2.sh reads
\* and writes its number between lockfile_create and lockfile_remove, and leaves the file in place
\* if it leaves in between.
THEOREM RF2NeverShares == Spec => []RF2Apart
<1>1. Init => IInv
  BY InitIInv
<1>2. IInv /\ [Next]_vars => IInv'
  BY NextIInv
<1>3. IInv => RF2Apart
  BY DEF IInv
<1> QED
  BY <1>1, <1>2, <1>3, PTL DEF Spec

-----------------------------------------------------------------------------
(***************************************************************************)
(* Types.  That a set which is taken can be made needs the numbers: RF1    *)
(* holds nothing while it reads and writes its number, but whatever it     *)
(* reads was written by a run, so that a run that has n has n-1 others     *)
(* before it, and n is at most the number of runs.                         *)
(***************************************************************************)

\* Each number up to n is the one of a run of the script.
Counted(s, n) == \A m \in 1..n : \E q \in Run : script[q] = s /\ set_num[q] = m

Owned ==
  /\ \A p \in Run : pc[p] \in Before => set_num[p] = 0
  /\ \A p \in Run : Counted(script[p], set_num[p])
  /\ Counted(RF1, curr_set_file_rf1) /\ Counted(RF2, curr_set_file_rf2)
  /\ \A p \in Run : Taken(p) \/ pc[p] \in {"read_max", "take", "echo_set", "write"} => set_num[p] >= 1

\* The files that RF1 reads are there.
There ==
  /\ curr_set_file_rf1 # NoFile => max_set_file # NoFile
  /\ \A p \in Run : pc[p] \in {"curr1", "echo_curr1"} => max_set_file # NoFile
  /\ \A p \in Run : script[p] = RF1 /\ pc[p] \in {"echo_curr1", "unlock1", "lock2", "read", "read_max",
                                              "take", "echo_set"} =>
                      curr_set_file_rf1 # NoFile

Plain ==
  /\ set_num \in [Run -> Nat]
  /\ set_num_rf1 \in [Run -> Nat \cup {Empty}] /\ max_set \in [Run -> Nat \cup {Empty}]
  /\ gen \in [Run -> Nat]
  /\ curr_set_file_rf1 \in Nat \cup {NoFile, Empty} /\ max_set_file \in Nat \cup {NoFile, Empty}
  /\ curr_set_file_rf2 \in Nat \cup {NoFile}
  /\ lock_file \subseteq {RF1, RF2}
  /\ files \in [Set -> {"none", "partial", "whole"}]
  /\ loaded \in [Run -> {"whole", "partial"}]
  /\ lineitem \cup orders \cup gone_lineitem \cup gone_orders \subseteq Set

TInv == Types /\ Owned /\ There /\ Plain

-----------------------------------------------------------------------------
\* The sets that may be made are at least as many as the runs.
LEMMA EnoughSets == ASSUME NEW n \in 1..Runs PROVE n \in Set
<1>1. Runs \in Nat /\ Batch \in Nat \ {0}
  BY RefreshAssumption
<1> DEFINE b == Runs \div Batch
<1>2. b \in Int /\ Runs < b * Batch + Batch
  BY <1>1
<1>3. (b + 1) * Batch = b * Batch + Batch
  BY <1>1, <1>2
<1> QED
  BY <1>1, <1>2, <1>3 DEF Set

\* A number up to which each is a run's own is at most Runs.
LEMMA AtMostRuns ==
  ASSUME NEW s, NEW n \in Nat, Counted(s, n)
  PROVE  n <= Runs
<1>1. Runs \in Nat
  BY RefreshAssumption
<1> DEFINE N == 1..n
           owner == [m \in N |-> CHOOSE p \in Run : set_num[p] = m]
<1>2. \A m \in N : owner[m] \in Run /\ set_num[owner[m]] = m
  BY DEF Counted
<1>3. owner \in Injection(N, Run)
  BY <1>2 DEF Injection, IsInjective
<1>4. IsFiniteSet(Run) /\ Cardinality(Run) = Runs
  BY <1>1, FS_Interval DEF Run
<1>5. Cardinality(N) = IF 1 > n THEN 0 ELSE n
  BY <1>1, FS_Interval
<1> HIDE DEF N, owner
<1>6. Cardinality(N) <= Cardinality(Run)
  BY <1>3, <1>4, FS_Injection
<1> QED
  BY <1>1, <1>4, <1>5, <1>6

\* A set that is taken is one of those that can be made.
LEMMA TakenSet ==
  ASSUME TInv, NEW p \in Run, Taken(p)
  PROVE  set_num[p] \in Set
<1>1. set_num[p] \in Nat /\ set_num[p] >= 1 /\ Counted(script[p], set_num[p]) /\ Runs \in Nat
  BY RefreshAssumption DEF TInv, Owned, Plain
<1> QED
  BY <1>1, AtMostRuns, EnoughSets

LEMMA TypesImply == TInv => TypeOK
<1> SUFFICES ASSUME TInv PROVE TypeOK
  OBVIOUS
<1>1. \A p \in Run : Taken(p) => set_num[p] \in Set
  BY TakenSet
<1> QED
  BY <1>1 DEF TInv, Types, Plain, TypeOK

LEMMA BatchNat == Batch \in Nat
BY RefreshAssumption

-----------------------------------------------------------------------------
\* A step by which no run reads its number.
LEMMA SameNumbers ==
  ASSUME TInv, NEW p \in Run, NEW l \in Label, pc' = [pc EXCEPT ![p] = l],
         UNCHANGED <<script, set_num, curr_set_file_rf2>>,
         curr_set_file_rf1' \in Nat \cup {NoFile, Empty}, max_set_file' \in Nat \cup {NoFile, Empty},
         Counted(RF1, curr_set_file_rf1'),
         curr_set_file_rf1 # NoFile => curr_set_file_rf1' # NoFile,
         max_set_file # NoFile => max_set_file' # NoFile,
         curr_set_file_rf1' # NoFile => max_set_file' # NoFile,
         l \in Before => pc[p] \in Before,
         Taken(p)' \/ l \in {"read_max", "take", "echo_set", "write"} => set_num[p] >= 1,
         l \in {"curr1", "echo_curr1"} => max_set_file' # NoFile,
         script[p] = RF1 /\ l \in {"echo_curr1", "unlock1", "lock2", "read", "read_max",
                                "take", "echo_set"} => curr_set_file_rf1' # NoFile
  PROVE  Types' /\ Owned' /\ There'
<1>1. pc'[p] = l /\ \A q \in Run : q # p => pc'[q] = pc[q]
  BY DEF TInv, Types
<1>2. \A q \in Run : q # p => (Taken(q)' <=> Taken(q))
  BY <1>1 DEF Taken
<1>3. \A s, n : Counted(s, n) => Counted(s, n)'
  BY DEF Counted
<1>4. Types'
  BY DEF TInv, Types, NoFile, Empty
<1>5. Owned'
  <2>1. \A q \in Run : Counted(script[q], set_num[q])'
    BY DEF TInv, Owned, Counted
  <2>2. Counted(RF1, curr_set_file_rf1)' /\ Counted(RF2, curr_set_file_rf2)'
    BY DEF TInv, Owned, Counted
  <2> QED
    BY <1>1, <1>2, <2>1, <2>2 DEF TInv, Owned
<1>6. There'
  BY <1>1 DEF TInv, There
<1> QED
  BY <1>4, <1>5, <1>6

\* The numbers counted stay so when a run without one gets one.
LEMMA CountedOn ==
  ASSUME TInv, NEW p \in Run, set_num[p] = 0,
         \A q \in Run : q # p => script'[q] = script[q] /\ set_num'[q] = set_num[q],
         NEW s, NEW n, Counted(s, n)
  PROVE  \A m \in 1..n : \E q \in Run : script'[q] = s /\ set_num'[q] = m
<1> SUFFICES ASSUME NEW m \in 1..n PROVE \E q \in Run : script'[q] = s /\ set_num'[q] = m
  OBVIOUS
<1>1. PICK q \in Run : script[q] = s /\ set_num[q] = m
  BY DEF Counted
<1>2. q # p
  BY <1>1
<1> QED
  BY <1>1, <1>2

\* A run reads a number and has the next one.
LEMMA NextNumber ==
  ASSUME TInv, NEW p \in Run, NEW l \in Label, NEW c \in Nat, Counted(script[p], c),
         pc[p] \in Before, l \notin Before, l \in {"read_max", "write"},
         l = "read_max" /\ script[p] = RF1 => curr_set_file_rf1 # NoFile,
         pc' = [pc EXCEPT ![p] = l], set_num' = [set_num EXCEPT ![p] = c + 1],
         UNCHANGED <<script, curr_set_file_rf1, max_set_file>>,
         curr_set_file_rf2' = curr_set_file_rf2 \/ curr_set_file_rf2' = 0
  PROVE  Types' /\ Owned' /\ There'
<1>1. /\ pc'[p] = l /\ set_num'[p] = c + 1 /\ set_num[p] = 0
      /\ \A q \in Run : q # p => pc'[q] = pc[q] /\ set_num'[q] = set_num[q] /\ script'[q] = script[q]
  BY DEF TInv, Types, Owned, Plain
<1>2. \A q \in Run : q # p => (Taken(q)' <=> Taken(q))
  BY <1>1 DEF Taken
<1>3. Types'
  BY DEF TInv, Types
<1>4. \A q \in Run : q # p => Counted(script[q], set_num[q])'
  BY <1>1, CountedOn DEF TInv, Owned, Counted
<1>5. Counted(script[p], set_num[p])'
  <2> SUFFICES ASSUME NEW m \in 1..(c + 1) PROVE \E q \in Run : script'[q] = script[p] /\ set_num'[q] = m
    BY <1>1 DEF Counted
  <2>1. CASE m = c + 1
    BY <1>1, <2>1
  <2>2. CASE m \in 1..c
    BY <1>1, <2>2, CountedOn
  <2> QED
    BY <2>1, <2>2
<1>6. Counted(RF1, curr_set_file_rf1)' /\ Counted(RF2, curr_set_file_rf2)'
  <2>1. \A m \in 1..curr_set_file_rf1 : \E q \in Run : script'[q] = RF1 /\ set_num'[q] = m
    BY <1>1, CountedOn DEF TInv, Owned
  <2>2. \A m \in 1..curr_set_file_rf2 : \E q \in Run : script'[q] = RF2 /\ set_num'[q] = m
    BY <1>1, CountedOn DEF TInv, Owned
  <2>3. CASE curr_set_file_rf2' = 0
    BY <2>1, <2>3 DEF Counted
  <2>4. CASE curr_set_file_rf2' = curr_set_file_rf2
    BY <2>1, <2>2, <2>4 DEF Counted
  <2> QED
    BY <2>3, <2>4
<1>7. Owned'
  BY <1>1, <1>2, <1>4, <1>5, <1>6 DEF TInv, Owned
<1>8. There'
  BY <1>1 DEF TInv, There, Before
<1> QED
  BY <1>3, <1>7, <1>8

\* A run that starts has no number.
LEMMA StartTypes ==
  ASSUME TInv, NEW p \in Run, Start(p)
  PROVE  TInv'
<1> USE DEF Start, Goto, Idle, disk, db
<1>1. Plain'
  BY DEF TInv, Plain
<1>2. /\ pc[p] = "idle" /\ pc'[p] = "lock1" /\ set_num[p] = 0
      /\ \A q \in Run : q # p => pc'[q] = pc[q] /\ script'[q] = script[q]
  BY DEF TInv, Types, Owned, Before
<1>3. ~Taken(p)' /\ \A q \in Run : q # p => (Taken(q)' <=> Taken(q))
  BY <1>2 DEF Taken, SqlSteps
<1>4. Types'
  BY DEF TInv, Types, Label, Before
<1>5. There'
  BY <1>2 DEF TInv, There
<1>6. \A q \in Run : Counted(script[q], set_num[q])'
  <2>1. Counted(script[p], set_num[p])'
    BY <1>2 DEF Counted
  <2>2. \A q \in Run : q # p => Counted(script[q], set_num[q])'
    BY <1>2, CountedOn DEF TInv, Owned, Counted
  <2> QED
    BY <2>1, <2>2
<1>7. Counted(RF1, curr_set_file_rf1)' /\ Counted(RF2, curr_set_file_rf2)'
  BY <1>2, CountedOn DEF TInv, Owned, Counted
<1>8. Owned'
  BY <1>2, <1>3, <1>6, <1>7 DEF TInv, Owned, Before
<1> QED
  BY <1>1, <1>4, <1>5, <1>8 DEF TInv

LEMMA LockTypes ==
  ASSUME TInv, NEW p \in Run, Lock(p) \/ Unlock(p)
  PROVE  TInv'
<1> USE DEF Lock, Unlock, shell, disk, db
<1>1. PICK f \in {RF1, RF2} : lockfile_create(p, f) \/ lockfile_remove(p, f) \/ UNCHANGED lock_file
  BY DEF Second
<1>2. lock_file' \subseteq {RF1, RF2}
  BY <1>1 DEF lockfile_create, lockfile_remove, TInv, Plain
<1>3. Plain'
  BY <1>2 DEF TInv, Plain
<1>4. PICK l : /\ pc' = [pc EXCEPT ![p] = l]
               /\ \/ pc[p] = "lock1" /\ l = "check"
                  \/ pc[p] = "lock2" /\ l = "read"
                  \/ pc[p] = "unlock1" /\ l = "lock2"
                  \/ pc[p] = "unlock2" /\ l \in {"load_lineitem", "load_keys"}
  BY DEF Goto, FirstLoad
<1>5. /\ l \in Label /\ (Taken(p)' => Taken(p)) /\ (l \in Before => pc[p] \in Before)
      /\ l \notin {"read_max", "take", "echo_set", "write", "curr1", "echo_curr1", "unlock1"}
      /\ l \in {"lock2", "read"} => pc[p] \in {"unlock1", "lock2"}
  BY <1>4 DEF Label, Before, Free, TInv, Types, Taken, SqlSteps
<1>7. UNCHANGED <<script, set_num, curr_set_file_rf1, curr_set_file_rf2, max_set_file>>
  OBVIOUS
<1>8. /\ script[p] = RF1 /\ l \in {"lock2", "read"} => curr_set_file_rf1 # NoFile
      /\ Taken(p)' => set_num[p] >= 1
  BY <1>5 DEF TInv, There, Owned
<1>9. l \notin {"echo_curr1", "unlock1", "read_max", "take", "echo_set"}
  BY <1>4
<1> HIDE DEF Lock, Unlock
<1>6. Types' /\ Owned' /\ There'
  BY <1>4, <1>5, <1>7, <1>8, <1>9, SameNumbers DEF TInv, Owned, There, Plain
<1> QED
  BY <1>3, <1>6 DEF TInv

LEMMA Check1Types ==
  ASSUME TInv, NEW p \in Run, Check1(p)
  PROVE  TInv'
<1> USE DEF Check1, At, disk, db
<1>1. PICK l \in {"dbgen1", "unlock1"} :
        pc' = [pc EXCEPT ![p] = l] /\ (l = "unlock1" => curr_set_file_rf1 # NoFile)
  BY DEF Goto
<1>2. l \in Label /\ ~Taken(p)' /\ pc[p] \in Before
  BY <1>1 DEF Label, Before, TInv, Types, Taken, SqlSteps
<1>3. Plain'
  BY BatchNat DEF TInv, Plain
<1>4. Types' /\ Owned' /\ There'
  BY <1>1, <1>2, SameNumbers DEF TInv, Owned, There, Plain
<1> QED
  BY <1>3, <1>4 DEF TInv

LEMMA GenSetTypes ==
  ASSUME TInv, NEW p \in Run, GenSet(p)
  PROVE  TInv'
<1> USE DEF GenSet, shell, disk, db
<1>1. PICK n, w : w \in {"partial", "whole"} /\ files' = [files EXCEPT ![n] = w]
  <2> DEFINE n == (gen[p] + 1) \div 2
             w == IF gen[p] % 2 = 1 \/ (\E q \in Run \ {p} : gen[q] = 2 * n) THEN "partial" ELSE "whole"
  <2>1. w \in {"partial", "whole"} /\ files' = [files EXCEPT ![n] = w]
    OBVIOUS
  <2> HIDE DEF n, w
  <2> QED
    BY <2>1
<1>2. gen' = [gen EXCEPT ![p] = gen[p] + 1] /\ UNCHANGED <<shell, pc, disk, lock_file, loaded, db>>
  OBVIOUS
<1> HIDE DEF GenSet
<1>3. Plain'
  <2>1. files' \in [Set -> {"none", "partial", "whole"}]
    BY <1>1 DEF TInv, Plain
  <2>2. gen' \in [Run -> Nat]
    BY <1>2 DEF TInv, Plain
  <2> QED
    BY <1>2, <2>1, <2>2 DEF TInv, Plain
<1> QED
  BY <1>2, <1>3 DEF TInv, Types, Owned, Counted, There, Taken

LEMMA GeneratedTypes ==
  ASSUME TInv, NEW p \in Run, Generated(p)
  PROVE  TInv'
<1> USE DEF Generated, shell, disk, db
<1>1. PICK l \in {"max1", "max2"} : /\ pc' = [pc EXCEPT ![p] = l]
                                   /\ pc[p] = IF l = "max1" THEN "dbgen1" ELSE "dbgen2"
  BY DEF Goto
<1>2. /\ l \in Label /\ (Taken(p)' => Taken(p)) /\ (l \in Before => pc[p] \in Before)
  BY <1>1 DEF Label, Before, TInv, Types, Taken, SqlSteps
<1>3. Plain'
  BY DEF TInv, Plain
<1>4. Types' /\ Owned' /\ There'
  BY <1>1, <1>2, SameNumbers DEF TInv, Owned, There, Plain
<1> QED
  BY <1>3, <1>4 DEF TInv

\* max_set_file is emptied and written: it is there.
LEMMA MaxTypes ==
  ASSUME TInv, NEW p \in Run, OpenMax(p) \/ EchoMax(p)
  PROVE  TInv'
<1> USE DEF OpenMax, EchoMax, shell, db
<1>1. PICK l \in {"echo_max1", "echo_max2", "curr1", "unlock2"} :
        /\ pc' = [pc EXCEPT ![p] = l]
        /\ l = "echo_max1" => pc[p] = "max1"
        /\ l = "echo_max2" => pc[p] = "max2"
        /\ l = "curr1" => pc[p] = "echo_max1"
        /\ l = "unlock2" => pc[p] = "echo_max2"
  BY DEF Goto
<1>2. /\ l \in Label /\ (Taken(p)' => Taken(p)) /\ (l \in Before => pc[p] \in Before)
  BY <1>1 DEF Label, Before, TInv, Types, Taken, SqlSteps
<1>3. max_set_file' \in Nat \cup {Empty} /\ max_set_file' # NoFile
  BY DEF TInv, Plain, NoFile, Empty
<1>4. Plain'
  BY <1>3 DEF TInv, Plain
<1>5. Types' /\ Owned' /\ There'
  BY <1>1, <1>2, <1>3, SameNumbers DEF TInv, Owned, There, Plain
<1> QED
  BY <1>4, <1>5 DEF TInv

\* The number is emptied, or set to 0: no number is counted.
LEMMA CurrTypes ==
  ASSUME TInv, NEW p \in Run, OpenCurr(p) \/ EchoFirst(p)
  PROVE  TInv'
<1> USE DEF OpenCurr, EchoFirst, At, shell, db
<1>1. PICK l \in {"echo_curr1", "echo_set", "unlock1"} :
        /\ pc' = [pc EXCEPT ![p] = l] /\ script[p] = RF1
        /\ l = "echo_curr1" => pc[p] = "curr1"
        /\ l = "echo_set" => pc[p] = "take"
        /\ l = "unlock1" => pc[p] = "echo_curr1"
  BY DEF Goto
<1>2. /\ l \in Label /\ ~Taken(p)' /\ (l \in Before => pc[p] \in Before)
  BY <1>1 DEF Label, Before, TInv, Types, Taken, SqlSteps
<1>3. curr_set_file_rf1' \in {Empty, 0} /\ curr_set_file_rf1' # NoFile /\ Counted(RF1, curr_set_file_rf1')
  BY DEF Counted, NoFile, Empty
<1>4. max_set_file # NoFile
  <2>1. CASE l = "echo_set"
    <3>1. curr_set_file_rf1 # NoFile
      BY <1>1, <2>1 DEF TInv, There
    <3> QED
      BY <3>1 DEF TInv, There
  <2>2. CASE l # "echo_set"
    BY <1>1, <2>2 DEF TInv, There
  <2> QED
    BY <2>1, <2>2
<1>5. Plain'
  BY <1>3 DEF TInv, Plain
<1>6. l = "echo_set" => set_num[p] >= 1
  BY <1>1 DEF TInv, Owned
<1>8. UNCHANGED <<script, set_num, curr_set_file_rf2, max_set_file>>
  OBVIOUS
<1>9. l \notin {"read_max", "take", "write", "curr1", "lock2", "read"}
  BY <1>1
<1>10. curr_set_file_rf1' \in Nat \cup {NoFile, Empty} /\ max_set_file \in Nat \cup {NoFile, Empty}
  BY <1>5, <1>8 DEF Plain
<1> HIDE DEF OpenCurr, EchoFirst
<1>7. Types' /\ Owned' /\ There'
  BY <1>1, <1>2, <1>3, <1>4, <1>6, <1>8, <1>9, <1>10, SameNumbers
<1> QED
  BY <1>5, <1>7 DEF TInv

LEMMA Read1Types ==
  ASSUME TInv, NEW p \in Run, Read1(p)
  PROVE  TInv'
<1> USE DEF Read1, At, Goto, disk, db
<1> DEFINE c == Number(curr_set_file_rf1)
<1>1. curr_set_file_rf1 # NoFile
  BY DEF TInv, There
<1>2. c \in Nat /\ Counted(script[p], c)
  BY <1>1 DEF Number, TInv, Plain, Owned, Counted
<1>3. "read_max" \in Label /\ "read_max" \notin Before /\ pc[p] \in Before
  BY DEF Label, Before
<1> HIDE DEF c
<1>4. Types' /\ Owned' /\ There'
  BY <1>1, <1>2, <1>3, NextNumber DEF c
<1>5. Plain'
  BY <1>2 DEF TInv, Plain, c
<1> QED
  BY <1>4, <1>5 DEF TInv

LEMMA ReadMaxTypes ==
  ASSUME TInv, NEW p \in Run, ReadMax(p)
  PROVE  TInv'
<1> USE DEF ReadMax, At, Goto, disk, db
<1>1. curr_set_file_rf1 # NoFile /\ max_set_file # NoFile /\ set_num[p] >= 1
  BY DEF TInv, There, Owned
<1>2. "take" \in Label /\ "take" \notin Before /\ ~Taken(p)'
  BY DEF Label, Before, Free, TInv, Types, Taken, SqlSteps
<1>3. Types' /\ Owned' /\ There'
  BY <1>1, <1>2, SameNumbers DEF TInv, Owned, There, Plain
<1>4. Plain'
  BY <1>1 DEF TInv, Plain
<1> QED
  BY <1>3, <1>4 DEF TInv

\* RF1 takes its set: its number is written, and counted.
LEMMA EchoSetTypes ==
  ASSUME TInv, NEW p \in Run, EchoSet(p)
  PROVE  TInv'
<1> USE DEF EchoSet, At, db
<1>1. PICK l \in {"dbgen2", "unlock2"} : pc' = [pc EXCEPT ![p] = l]
  BY DEF Goto
<1>2. l \in Label /\ l \notin Before
  BY DEF Label, Before
<1>3. set_num[p] \in Nat /\ set_num[p] >= 1 /\ Counted(RF1, set_num[p])
  BY DEF TInv, Plain, Owned
<1>4. set_num[p] # NoFile
  BY <1>3 DEF NoFile
<1>5. max_set_file # NoFile
  BY DEF TInv, There
<1>6. Types' /\ Owned' /\ There'
  BY <1>1, <1>2, <1>3, <1>4, <1>5, SameNumbers DEF TInv, There, Plain
<1>7. Greater(set_num[p], max_set[p]) => max_set[p] + Batch \in Nat
  BY BatchNat DEF Greater, TInv, Plain
<1>8. Plain'
  BY <1>3, <1>7 DEF TInv, Plain
<1> QED
  BY <1>6, <1>8 DEF TInv

LEMMA Check2Types ==
  ASSUME TInv, NEW p \in Run, Check2(p)
  PROVE  TInv'
<1> USE DEF Check2, At, disk, db
<1>1. PICK l \in {"failed", "unlock1"} : pc' = [pc EXCEPT ![p] = l] /\ script[p] = RF2
  BY DEF Goto
<1>2. l \in Label /\ ~Taken(p)' /\ pc[p] \in Before /\ script[p] # RF1
  BY <1>1 DEF Label, Before, TInv, Types, Taken, SqlSteps, RF1, RF2
<1>3. Plain'
  BY DEF TInv, Plain
<1>4. Types' /\ Owned' /\ There'
  BY <1>1, <1>2, SameNumbers DEF TInv, Owned, There, Plain
<1> QED
  BY <1>3, <1>4 DEF TInv

LEMMA Read2Types ==
  ASSUME TInv, NEW p \in Run, Read2(p)
  PROVE  TInv'
<1> USE DEF Read2, At, Goto, db
<1>1. curr_set_file_rf2' \in Nat /\ Counted(script[p], curr_set_file_rf2')
  BY DEF TInv, Plain, Owned, Counted
<1>2. "write" \in Label /\ "write" \notin Before /\ pc[p] \in Before
  BY DEF Label, Before
<1>3. Types' /\ Owned' /\ There'
  BY <1>1, <1>2, NextNumber
<1>4. Plain'
  BY <1>1 DEF TInv, Plain
<1> QED
  BY <1>3, <1>4 DEF TInv

LEMMA Write2Types ==
  ASSUME TInv, NEW p \in Run, Write2(p)
  PROVE  TInv'
<1> USE DEF Write2, At, shell, db
<1>1. /\ script[p] = RF2 /\ script[p] # RF1 /\ set_num[p] \in Nat /\ set_num[p] >= 1
      /\ Counted(RF2, set_num[p])
  BY DEF TInv, Plain, Owned, RF1, RF2
<1>2. PICK l \in {"failed", "unlock2"} : pc' = [pc EXCEPT ![p] = l]
  BY DEF Goto
<1>3. pc'[p] = l /\ \A q \in Run : q # p => pc'[q] = pc[q]
  BY <1>2 DEF TInv, Types
<1>4. \A q \in Run : q # p => (Taken(q)' <=> Taken(q))
  BY <1>3 DEF Taken
<1>5. Types'
  BY <1>2 DEF TInv, Types, Label
<1>6. \A q \in Run : Counted(script[q], set_num[q])'
  BY DEF TInv, Owned, Counted
<1>7. Counted(RF1, curr_set_file_rf1)' /\ Counted(RF2, curr_set_file_rf2)'
  BY <1>1 DEF TInv, Owned, Counted
<1>8. Owned'
  BY <1>1, <1>3, <1>4, <1>6, <1>7 DEF TInv, Owned, Before
<1>9. There'
  BY <1>3 DEF TInv, There
<1>10. Plain'
  BY <1>1 DEF TInv, Plain
<1> QED
  BY <1>5, <1>8, <1>9, <1>10 DEF TInv

LEMMA SqlTypes ==
  ASSUME TInv, NEW p \in Run,
         LoadLineitem(p) \/ InsertLineitem(p) \/ LoadOrders(p)
           \/ InsertOrders(p) \/ LoadKeys(p) \/ DeleteLineitem(p) \/ DeleteOrders(p) \/ Drop(p)
           \/ SqlError(p)
  PROVE  TInv'
<1> USE DEF LoadLineitem, LoadOrders, LoadKeys, Load, InsertLineitem, InsertOrders,
            DeleteLineitem, DeleteOrders, Drop, SqlError
<1>1. PICK l \in Free \cup {"failed"} : pc' = [pc EXCEPT ![p] = l]
  BY DEF Goto, Free, SqlSteps
<1>2. Taken(p)
  BY DEF Taken, SqlSteps
<1>3. UNCHANGED <<shell, gen, disk, lock_file, files>>
  OBVIOUS
<1>4. set_num[p] \in Set /\ set_num[p] >= 1
  BY <1>2, TakenSet DEF TInv, Owned
<1>5. loaded' \in [Run -> {"whole", "partial"}]
  BY DEF TInv, Plain
<1>6. lineitem' \cup orders' \cup gone_lineitem' \cup gone_orders' \subseteq Set
  BY <1>4 DEF TInv, Plain
<1>7. Plain'
  BY <1>3, <1>5, <1>6 DEF TInv, Plain, shell, disk
<1>8. l \in Label /\ l \notin Before
  BY DEF Label, Before, Free, SqlSteps
<1>9. l \notin {"read_max", "take", "echo_set", "write", "curr1", "echo_curr1", "unlock1", "lock2", "read"}
  BY DEF Free, SqlSteps
<1>10. UNCHANGED <<script, set_num, curr_set_file_rf1, curr_set_file_rf2, max_set_file>>
  BY <1>3 DEF shell, disk
<1> HIDE DEF LoadLineitem, LoadOrders, LoadKeys, Load, InsertLineitem, InsertOrders,
             DeleteLineitem, DeleteOrders, Drop, SqlError
<1>11. Types' /\ Owned' /\ There'
  BY <1>1, <1>4, <1>8, <1>9, <1>10, SameNumbers DEF TInv, Owned, There, Plain
<1> QED
  BY <1>7, <1>11 DEF TInv

LEMMA NextTypes ==
  ASSUME TInv, [Next]_vars
  PROVE  TInv'
<1>1. ASSUME NEW p \in Run, Start(p) PROVE TInv'
  BY <1>1, StartTypes
<1>2. ASSUME NEW p \in Run, Step(p) PROVE TInv'
  BY <1>2, LockTypes, Check1Types, GenSetTypes, GeneratedTypes, MaxTypes, CurrTypes, Read1Types,
     ReadMaxTypes, EchoSetTypes, Check2Types, Read2Types, Write2Types, SqlTypes DEF Step
<1>3. CASE UNCHANGED vars
  BY <1>3 DEF vars, shell, disk, db, TInv, Types, Owned, Counted, There, Plain, Taken
<1> QED
  BY <1>1, <1>2, <1>3 DEF Next, Halt

\* The variables keep their types, whoever starts the scripts and when: a script that has taken a
\* set has one that dbgen has made or is to make, although RF1 reads and writes the numbers with
\* no semaphore file, and nothing else comes into the database (run_rf1.sh, run_rf2.sh).
THEOREM TypesKept == Spec => []TypeOK
<1>1. Init => TInv
  BY DEF Init, TInv, Types, Owned, Counted, There, Plain, Taken, SqlSteps, Label, Before, NoFile
<1>2. TInv /\ [Next]_vars => TInv'
  BY NextTypes
<1>3. TInv => TypeOK
  BY TypesImply
<1> QED
  BY <1>1, <1>2, <1>3, PTL DEF Spec

-----------------------------------------------------------------------------
(***************************************************************************)
(* The scripts as throughput_test.sh calls them, one after the other, each *)
(* only if those before ended well: if dbgen does not fail, no set is left *)
(* out or put in by halves.                                                *)
(***************************************************************************)

\* The set that is the turn of a run: RF1 and RF2 alternate.
K(p) == (p + 1) \div 2

Waiting == {"lock1", "check", "unlock1", "lock2", "read", "unlock2", "drop"}
Making == {"dbgen1", "max1", "echo_max1", "dbgen2", "max2", "echo_max2"}
Labels1 == Waiting \cup Making \cup
             {"curr1", "echo_curr1", "read_max", "take", "echo_set", "load_lineitem",
              "insert_lineitem", "load_orders", "insert_orders"}
Labels2 == Waiting \cup {"write", "load_keys", "delete_lineitem", "delete_orders"}

\* One run at a time: those before have ended well, those after have not begun.
InTurn ==
  /\ pc \in [Run -> Labels1 \cup Labels2 \cup {"idle", "done", "failed"}]
  /\ \A p, q \in Run : q < p /\ pc[p] # "idle" => pc[q] = "done"
  /\ \A p \in Run : pc[p] # "idle" =>
       script[p] = (IF p % 2 = 1 THEN RF1 ELSE RF2)
  /\ \A p \in Run : script[p] = RF1 => pc[p] \in Labels1 \cup {"idle", "done", "failed"}
  /\ \A p \in Run : script[p] = RF2 => pc[p] \in Labels2 \cup {"done", "failed"}

Shapes ==
  /\ script \in [Run -> {RF1, RF2}]
  /\ set_num \in [Run -> Int] /\ set_num_rf1 \in [Run -> Int] /\ max_set \in [Run -> Int]
  /\ gen \in [Run -> Int]
  /\ curr_set_file_rf1 \in Int /\ curr_set_file_rf2 \in Int /\ max_set_file \in Int
  /\ files \in [Set -> {"none", "partial", "whole"}]
  /\ loaded = [p \in Run |-> "whole"]
  /\ \A p \in Run : pc[p] \notin {"dbgen1", "dbgen2"} => gen[p] = 0

Made(n) == \A i \in Set : i <= n => files[i] = "whole"

\* Where things are while a run of RF1 is the last: k is the set whose turn it is.
Where1(p, k) ==
  /\ curr_set_file_rf1 = IF Taken(p) THEN k
                         ELSE IF pc[p] \in {"echo_curr1", "echo_set"} THEN Empty
                         ELSE IF k = 1 /\ pc[p] \in {"lock1", "check", "dbgen1", "max1", "echo_max1", "curr1"}
                           THEN NoFile
                         ELSE k - 1
  /\ curr_set_file_rf2 = IF k = 1 THEN NoFile ELSE k - 1
  /\ lineitem = 1..(IF pc[p] \in {"load_orders", "insert_orders", "drop", "done"} THEN k ELSE k - 1)
  /\ orders = 1..(IF pc[p] \in {"drop", "done"} THEN k ELSE k - 1)
  /\ gone_lineitem = 1..(k - 1) /\ gone_orders = 1..(k - 1)
  /\ pc[p] \in {"read_max", "take", "echo_set"} \/ Taken(p) => set_num[p] = k
  /\ pc[p] \in {"take", "echo_set"} => max_set[p] = max_set_file
  /\ pc[p] \in {"dbgen1", "max1", "echo_max1"} => k = 1 /\ max_set[p] >= 0
  /\ pc[p] \in {"dbgen2", "max2", "echo_max2"} => max_set[p] >= k
  /\ pc[p] \in {"dbgen1", "dbgen2"} =>
       gen[p] >= 1 /\ \A i \in Set : 2 * i < gen[p] => files[i] = "whole"
  /\ pc[p] \in {"max1", "echo_max1", "max2", "echo_max2"} => Made(max_set[p])
  /\ pc[p] \in {"curr1", "echo_curr1"} => k = 1 /\ max_set_file >= 0
  /\ pc[p] = "echo_set" => k - 1 <= max_set_file
  /\ pc[p] \notin Making => curr_set_file_rf1 <= max_set_file /\ Made(max_set_file)

\* And while a run of RF2 is.
Where2(p, k) ==
  /\ curr_set_file_rf1 = k
  /\ curr_set_file_rf2 = IF Taken(p) THEN k
                         ELSE IF k = 1 /\ pc[p] # "write" THEN NoFile ELSE k - 1
  /\ lineitem = 1..k /\ orders = 1..k
  /\ gone_lineitem = 1..(IF pc[p] \in {"delete_orders", "drop", "done"} THEN k ELSE k - 1)
  /\ gone_orders = 1..(IF pc[p] \in {"drop", "done"} THEN k ELSE k - 1)
  /\ pc[p] \in {"unlock1", "lock2", "read", "write"} => set_num_rf1[p] = k
  /\ pc[p] = "write" \/ Taken(p) => set_num[p] = k
  /\ k <= max_set_file /\ Made(max_set_file)

Last(p) == pc[p] # "idle" /\ \A q \in Run : q > p => pc[q] = "idle"

Where ==
  \A p \in Run : Last(p) /\ pc[p] # "failed" =>
    /\ script[p] = RF1 => Where1(p, K(p))
    /\ script[p] = RF2 => Where2(p, K(p))

Begin ==
  pc[1] = "idle" =>
    /\ curr_set_file_rf1 = NoFile /\ curr_set_file_rf2 = NoFile /\ max_set_file = NoFile
    /\ lineitem = {} /\ orders = {} /\ gone_lineitem = {} /\ gone_orders = {}

HasLast == pc[1] = "idle" \/ \E p \in Run : Last(p)

TurnInv == Shapes /\ InTurn /\ Where /\ Begin /\ HasLast /\ Applied

LEMMA Turns ==
  ASSUME NEW p \in Run
  PROVE  /\ p \in Int /\ 1 <= p /\ p <= Runs /\ 1 \in Run
         /\ K(p) \in Int /\ 1 <= K(p) /\ K(p) <= Runs
         /\ p = 1 => K(p) = 1
         /\ p > 1 => /\ p - 1 \in Run
                     /\ p % 2 = 1 => K(p) = K(p - 1) + 1 /\ (p - 1) % 2 = 0
                     /\ p % 2 # 1 => K(p) = K(p - 1) /\ (p - 1) % 2 = 1
BY RefreshAssumption DEF Run, K

LEMMA OnlyLast ==
  ASSUME TurnInv, NEW p \in Run, pc[p] \notin {"idle", "done"}
  PROVE  /\ Last(p) /\ script[p] \in {RF1, RF2}
         /\ \A q \in Run : /\ q < p => pc[q] = "done"
                           /\ q > p => pc[q] = "idle"
                           /\ q # p => q < p \/ q > p
<1>1. \A q \in Run : q \in Int
  BY Turns
<1>2. \A q \in Run : (q < p => pc[q] = "done") /\ (q > p => pc[q] = "idle")
  BY DEF TurnInv, InTurn
<1> QED
  BY <1>1, <1>2 DEF TurnInv, Shapes, Last

\* A step of the last run.
LEMMA TurnStep ==
  ASSUME TurnInv, NEW p \in Run, pc[p] \notin {"idle", "done"}, NEW l,
         pc' = [pc EXCEPT ![p] = l], script' = script, Shapes',
         \/ script[p] = RF1 /\ l \in Labels1 \cup {"done"} /\ Where1(p, K(p))'
         \/ script[p] = RF2 /\ l \in Labels2 \cup {"done"} /\ Where2(p, K(p))'
         \/ l = "failed",
         \A q \in Run : q # p => set_num'[q] = set_num[q],
         lineitem \subseteq lineitem', orders \subseteq orders',
         gone_lineitem \subseteq gone_lineitem', gone_orders \subseteq gone_orders'
  PROVE  TurnInv'
<1>1. /\ l # "idle" /\ l \in Labels1 \cup Labels2 \cup {"done", "failed"}
      /\ pc'[p] = l /\ \A q \in Run : q # p => pc'[q] = pc[q]
  BY DEF Labels1, Labels2, Waiting, Making, TurnInv, InTurn
<1>2. \A q \in Run : /\ q < p => pc[q] = "done"
                     /\ q > p => pc[q] = "idle"
                     /\ q # p => q < p \/ q > p
  BY OnlyLast
<1>3. InTurn'
  <2>1. pc' \in [Run -> Labels1 \cup Labels2 \cup {"idle", "done", "failed"}]
    BY <1>1 DEF TurnInv, InTurn
  <2>2. \A q, r \in Run : r < q /\ pc'[q] # "idle" => pc'[r] = "done"
    <3> SUFFICES ASSUME NEW q \in Run, NEW r \in Run, r < q, pc'[q] # "idle"
                 PROVE  pc'[r] = "done"
      OBVIOUS
    <3>1. q \in Int /\ r \in Int /\ p \in Int
      BY Turns
    <3>2. ~(q > p)
      BY <1>1, <1>2, <3>1
    <3> QED
      BY <1>1, <1>2, <3>1, <3>2
  <2>3. \A q \in Run : pc'[q] # "idle" => script'[q] = (IF q % 2 = 1 THEN RF1 ELSE RF2)
    BY <1>1 DEF TurnInv, InTurn
  <2>4. \A q \in Run :
          /\ script'[q] = RF1 => pc'[q] \in Labels1 \cup {"idle", "done", "failed"}
          /\ script'[q] = RF2 => pc'[q] \in Labels2 \cup {"done", "failed"}
    BY <1>1 DEF TurnInv, InTurn, RF1, RF2
  <2> QED
    BY <2>1, <2>2, <2>3, <2>4 DEF InTurn
<1>4. Last(p)'
  BY <1>1, <1>2 DEF Last
<1>5. \A q \in Run : Last(q)' => q = p
  BY <1>1, <1>2 DEF Last
<1>6. Where'
  <2>1. l # "failed" => /\ script'[p] = RF1 => Where1(p, K(p))'
                        /\ script'[p] = RF2 => Where2(p, K(p))'
    BY DEF RF1, RF2
  <2> QED
    BY <1>1, <1>5, <2>1 DEF Where
<1>7. Begin' /\ HasLast'
  <2>1. pc'[1] # "idle"
    <3>1. 1 \in Run /\ (1 < p \/ 1 = p)
      BY Turns
    <3> QED
      BY <1>1, <1>2, <3>1
  <2> QED
    BY <1>4, <2>1 DEF Begin, HasLast
<1>8. Applied'
  <2> SUFFICES ASSUME NEW q \in Run, pc'[q] = "done"
               PROVE  /\ loaded'[q] = "whole"
                      /\ set_num'[q] \in IF script'[q] = RF1 THEN lineitem' \cap orders'
                                                            ELSE gone_lineitem' \cap gone_orders'
    BY DEF Applied
  <2>1. loaded'[q] = "whole"
    BY DEF Shapes
  <2>2. CASE q # p
    BY <1>1, <2>1, <2>2 DEF TurnInv, Applied
  <2>3. CASE q = p
    <3>1. Taken(p)' /\ l = "done" /\ K(p) \in Int /\ 1 <= K(p)
      BY <1>1, <2>3, Turns DEF Taken
    <3>2. K(p) \in 1..K(p)
      BY <3>1
    <3>3. script[p] = RF1 => set_num'[p] = K(p) /\ lineitem' = 1..K(p) /\ orders' = 1..K(p)
      BY <1>1, <3>1 DEF Where1, RF1, RF2
    <3>4. script[p] # RF1 => /\ set_num'[p] = K(p)
                             /\ gone_lineitem' = 1..K(p) /\ gone_orders' = 1..K(p)
      BY <1>1, <3>1 DEF Where2
    <3> QED
      BY <2>1, <2>3, <3>2, <3>3, <3>4
  <2> QED
    BY <2>2, <2>3
<1> QED
  BY <1>3, <1>4, <1>6, <1>7, <1>8 DEF TurnInv

LEMMA Here ==
  ASSUME TurnInv, NEW p \in Run, pc[p] \notin {"idle", "done", "failed"}
  PROVE  /\ \/ script[p] = RF1 /\ Where1(p, K(p)) /\ pc[p] \in Labels1
            \/ script[p] = RF2 /\ Where2(p, K(p)) /\ pc[p] \in Labels2
         /\ K(p) \in Int /\ K(p) >= 1
BY OnlyLast, Turns DEF TurnInv, Where, InTurn

LEMMA LockTurn ==
  ASSUME TurnInv, NEW p \in Run, Lock(p) \/ Unlock(p)
  PROVE  TurnInv'
<1> USE DEF Lock, Unlock, shell, disk, db
<1>1. PICK l : /\ pc' = [pc EXCEPT ![p] = l]
               /\ \/ pc[p] = "lock1" /\ l = "check"
                  \/ pc[p] = "lock2" /\ l = "read"
                  \/ pc[p] = "unlock1" /\ l = "lock2"
                  \/ pc[p] = "unlock2" /\ l = FirstLoad(p)
  BY DEF Goto
<1>2. pc'[p] = l /\ \A q \in Run : q # p => pc'[q] = pc[q]
  BY <1>1 DEF TurnInv, InTurn
<1>3. Shapes'
  BY <1>1, <1>2 DEF TurnInv, Shapes, FirstLoad
<1> DEFINE k == K(p)
<1>4. \/ script[p] = RF1 /\ Where1(p, k)
      \/ script[p] = RF2 /\ Where2(p, k)
  BY <1>1, Here
<1> HIDE DEF k
<1>5. CASE script[p] = RF1
  <2>1. l \in Labels1 /\ Where1(p, k)'
    BY <1>1, <1>2, <1>4, <1>5 DEF Where1, Made, Taken, SqlSteps, FirstLoad, RF1, RF2, Labels1, Waiting, Making
  <2> QED
    BY <1>1, <1>3, <1>5, <2>1, TurnStep DEF k
<1>6. CASE script[p] = RF2
  <2>1. l \in Labels2 /\ Where2(p, k)'
    BY <1>1, <1>2, <1>4, <1>6 DEF Where2, Made, Taken, SqlSteps, FirstLoad, RF1, RF2, Labels2, Waiting
  <2> QED
    BY <1>1, <1>3, <1>6, <2>1, TurnStep DEF k
<1> QED
  BY <1>4, <1>5, <1>6

LEMMA Check1Turn ==
  ASSUME TurnInv, NEW p \in Run, Check1(p)
  PROVE  TurnInv'
<1> USE DEF Check1, At, disk, db
<1>1. PICK l \in {"dbgen1", "unlock1"} :
        /\ pc' = [pc EXCEPT ![p] = l]
        /\ IF curr_set_file_rf1 = NoFile
             THEN /\ l = "dbgen1" /\ max_set' = [max_set EXCEPT ![p] = Batch]
                  /\ gen' = [gen EXCEPT ![p] = 1]
             ELSE l = "unlock1" /\ UNCHANGED <<max_set, gen>>
  BY DEF Goto
<1>2. pc'[p] = l /\ \A q \in Run : q # p => pc'[q] = pc[q]
  BY <1>1 DEF TurnInv, InTurn
<1>3. Shapes'
  BY <1>1, <1>2, RefreshAssumption DEF TurnInv, Shapes
<1> DEFINE k == K(p)
<1>4. script[p] = RF1 /\ Where1(p, k) /\ k \in Int /\ k >= 1
  BY Here DEF RF1, RF2
<1> HIDE DEF k
<1>5. Batch \in Nat \ {0} /\ \A i \in Set : i \in Int /\ i >= 1
  BY RefreshAssumption DEF Set
<1>6. gen \in [Run -> Int] /\ max_set \in [Run -> Int]
  BY DEF TurnInv, Shapes
<1>7. l \in Labels1 /\ Where1(p, k)'
  <2>1. CASE l = "dbgen1"
    <3>1. k = 1 /\ curr_set_file_rf1 = NoFile /\ gen'[p] = 1 /\ max_set'[p] >= 0
      BY <1>1, <1>4, <1>5, <1>6, <2>1 DEF Where1, Taken, SqlSteps, NoFile
    <3>2. \A i \in Set : ~(2 * i < 1)
      BY <1>5
    <3> QED
      BY <1>1, <1>2, <1>4, <2>1, <3>1, <3>2
         DEF Where1, Taken, SqlSteps, NoFile, Labels1, Waiting, Making
  <2>2. CASE l = "unlock1"
    <3>1. curr_set_file_rf1 = k - 1 /\ k # 1
      BY <1>1, <1>4, <2>2 DEF Where1, Taken, SqlSteps
    <3> QED
      BY <1>1, <1>2, <1>4, <2>2, <3>1
         DEF Where1, Made, Taken, SqlSteps, NoFile, Labels1, Waiting, Making
  <2> QED
    BY <2>1, <2>2
<1> QED
  BY <1>1, <1>3, <1>4, <1>7, TurnStep DEF k

LEMMA GenSetTurn ==
  ASSUME TurnInv, NEW p \in Run, GenSet(p)
  PROVE  TurnInv'
<1> USE DEF GenSet, shell, disk, db
<1>1. pc[p] \in {"dbgen1", "dbgen2"} /\ pc' = [pc EXCEPT ![p] = pc[p]]
      /\ gen[p] \in Int /\ gen[p] >= 1 /\ gen \in [Run -> Int]
  BY DEF TurnInv, InTurn, Shapes
<1> DEFINE n == (gen[p] + 1) \div 2
           k == K(p)
<1>2. files' = [files EXCEPT ![n] = IF gen[p] % 2 = 1 THEN "partial" ELSE "whole"]
  <2>1. n >= 1 /\ \A q \in Run \ {p} : gen[q] = 0
    <3>1. \A q \in Run : q # p => pc[q] \in {"done", "idle"}
      BY <1>1, OnlyLast
    <3> QED
      BY <1>1, <3>1 DEF TurnInv, Shapes
  <2>2. ~ \E q \in Run \ {p} : gen[q] = 2 * n
    <3>1. n \in Int /\ 2 * n # 0
      BY <1>1, <2>1
    <3> QED
      BY <2>1, <3>1
  <2> QED
    BY <2>2
<1>3. Shapes'
  <2> HIDE DEF n
  <2>1. files' \in [Set -> {"none", "partial", "whole"}]
    BY <1>2 DEF TurnInv, Shapes
  <2>2. gen' \in [Run -> Int] /\ \A q \in Run : q # p => gen'[q] = gen[q]
    BY <1>1
  <2> QED
    BY <1>1, <2>1, <2>2 DEF TurnInv, Shapes
<1>4. script[p] = RF1 /\ Where1(p, k)
  BY <1>1, Here DEF Labels2, Waiting
<1>5. ASSUME NEW i \in Set, 2 * i < gen[p] + 1
      PROVE  files'[i] = "whole"
  <2>1. i \in Int
    BY RefreshAssumption DEF Set
  <2>2. files \in [Set -> {"none", "partial", "whole"}]
    BY DEF TurnInv, Shapes
  <2>3. CASE i = n
    <3>1. gen[p] % 2 = 0
      BY <1>1, <1>5, <2>1, <2>3
    <3> QED
      BY <1>2, <2>2, <2>3, <3>1
  <2>4. CASE i # n
    <3>1. 2 * i < gen[p]
      BY <1>1, <1>5, <2>1, <2>4
    <3> QED
      BY <1>1, <1>2, <1>4, <2>2, <2>4, <3>1 DEF Where1
  <2> QED
    BY <2>3, <2>4
<1>6. gen'[p] = gen[p] + 1
  BY <1>1
<1> HIDE DEF k, n
<1>8. UNCHANGED <<shell, pc, disk, db>>
  OBVIOUS
<1> HIDE DEF GenSet
<1>7. Where1(p, k)'
  BY <1>1, <1>4, <1>5, <1>6, <1>8 DEF Where1, Made, Taken, Making
<1> QED
  BY <1>1, <1>3, <1>4, <1>7, <1>8, TurnStep DEF k, Labels1, Making

\* dbgen has made all sets when it ends.
LEMMA GeneratedTurn ==
  ASSUME DbgenFails = FALSE, TurnInv, NEW p \in Run, Generated(p)
  PROVE  TurnInv'
<1> USE DEF Generated, shell, disk, db
<1>1. PICK l : /\ pc' = [pc EXCEPT ![p] = l]
               /\ \/ pc[p] = "dbgen1" /\ l = "max1"
                  \/ pc[p] = "dbgen2" /\ l = "max2"
  BY DEF Goto
<1>2. pc'[p] = l /\ \A q \in Run : q # p => pc'[q] = pc[q]
  BY <1>1 DEF TurnInv, InTurn
<1>3. Shapes'
  BY <1>1, <1>2 DEF TurnInv, Shapes
<1> DEFINE k == K(p)
<1>4. script[p] = RF1 /\ Where1(p, k) /\ k \in Int
  BY <1>1, Here DEF Labels2, Waiting
<1> HIDE DEF k
<1>5. gen[p] = 2 * max_set[p] + 1 /\ max_set[p] \in Int /\ \A i \in Set : i \in Int
  BY RefreshAssumption DEF TurnInv, Shapes, Set
<1>6. Made(max_set[p])
  BY <1>1, <1>4, <1>5 DEF Where1, Made
<1>7. Where1(p, k)'
  BY <1>1, <1>2, <1>4, <1>5, <1>6 DEF Where1, Made, Taken, SqlSteps, Making
<1> QED
  BY <1>1, <1>3, <1>4, <1>7, TurnStep DEF k, Labels1, Making

\* The numbers are written: no other run is there to read an empty file.
LEMMA NumbersTurn ==
  ASSUME TurnInv, NEW p \in Run, OpenMax(p) \/ EchoMax(p) \/ OpenCurr(p) \/ EchoFirst(p)
  PROVE  TurnInv'
<1> USE DEF OpenMax, EchoMax, OpenCurr, EchoFirst, At, shell, db
<1>1. PICK l : /\ pc' = [pc EXCEPT ![p] = l]
               /\ \/ pc[p] = "max1" /\ l = "echo_max1" /\ OpenMax(p)
                  \/ pc[p] = "max2" /\ l = "echo_max2" /\ OpenMax(p)
                  \/ pc[p] = "echo_max1" /\ l = "curr1" /\ EchoMax(p)
                  \/ pc[p] = "echo_max2" /\ l = "unlock2" /\ EchoMax(p)
                  \/ pc[p] = "curr1" /\ l = "echo_curr1" /\ OpenCurr(p)
                  \/ pc[p] = "take" /\ l = "echo_set" /\ OpenCurr(p)
                  \/ pc[p] = "echo_curr1" /\ l = "unlock1" /\ EchoFirst(p)
  BY DEF Goto
<1>2. pc'[p] = l /\ \A q \in Run : q # p => pc'[q] = pc[q]
  BY <1>1 DEF TurnInv, InTurn
<1>3. max_set \in [Run -> Int] /\ max_set_file \in Int
  BY DEF TurnInv, Shapes
<1>4. Shapes'
  BY <1>1, <1>2, <1>3 DEF TurnInv, Shapes, Empty
<1> DEFINE k == K(p)
<1>5. script[p] = RF1 /\ Where1(p, k) /\ k \in Int /\ k >= 1
  BY <1>1, Here DEF RF1, RF2
<1> HIDE DEF k
<1>6. l \in Labels1
  BY <1>1 DEF Labels1, Waiting, Making
<1>7. Where1(p, k)'
  <2>1. CASE OpenMax(p)
    BY <1>1, <1>2, <1>3, <1>5, <2>1 DEF Where1, Made, Taken, SqlSteps, Making, Empty, NoFile
  <2>2. CASE EchoMax(p)
    BY <1>1, <1>2, <1>3, <1>5, <2>2 DEF Where1, Made, Taken, SqlSteps, Making, Empty, NoFile
  <2>3. CASE OpenCurr(p)
    BY <1>1, <1>2, <1>3, <1>5, <2>3 DEF Where1, Made, Taken, SqlSteps, Making, Empty, NoFile
  <2>4. CASE EchoFirst(p)
    BY <1>1, <1>2, <1>3, <1>5, <2>4 DEF Where1, Made, Taken, SqlSteps, Making, Empty, NoFile
  <2> QED
    BY <2>1, <2>2, <2>3, <2>4
<1> QED
  BY <1>1, <1>4, <1>5, <1>6, <1>7, TurnStep DEF k

LEMMA Check2Turn ==
  ASSUME TurnInv, NEW p \in Run, Check2(p)
  PROVE  TurnInv'
<1> USE DEF Check2, At, disk, db
<1> DEFINE k == K(p)
<1>1. script[p] = RF2 /\ Where2(p, k) /\ k \in Int /\ k >= 1
  BY Here DEF RF1, RF2
<1> HIDE DEF k
<1>2. pc' = [pc EXCEPT ![p] = "unlock1"] /\ set_num_rf1' = [set_num_rf1 EXCEPT ![p] = k]
  BY <1>1 DEF Where2, NoFile, Goto
<1>3. pc'[p] = "unlock1" /\ set_num_rf1'[p] = k /\ \A q \in Run : q # p => pc'[q] = pc[q]
  BY <1>2 DEF TurnInv, InTurn, Shapes
<1>4. Shapes'
  BY <1>1, <1>2, <1>3 DEF TurnInv, Shapes
<1>5. Where2(p, k)'
  BY <1>1, <1>3 DEF Where2, Made, Taken, SqlSteps
<1> QED
  BY <1>1, <1>2, <1>4, <1>5, TurnStep DEF k, Labels2, Waiting

LEMMA Read1Turn ==
  ASSUME TurnInv, NEW p \in Run, Read1(p) \/ ReadMax(p)
  PROVE  TurnInv'
<1> USE DEF Read1, ReadMax, At, disk, db
<1>1. PICK l : /\ pc' = [pc EXCEPT ![p] = l]
               /\ \/ /\ pc[p] = "read" /\ l = "read_max" /\ UNCHANGED max_set
                     /\ set_num' = [set_num EXCEPT ![p] = Number(curr_set_file_rf1) + 1]
                  \/ /\ pc[p] = "read_max" /\ l = "take" /\ UNCHANGED set_num
                     /\ max_set' = [max_set EXCEPT ![p] = max_set_file]
  BY DEF Goto
<1> DEFINE k == K(p)
<1>2. script[p] = RF1 /\ Where1(p, k) /\ k \in Int /\ k >= 1
  BY Here DEF RF1, RF2
<1> HIDE DEF k
<1>3. /\ pc'[p] = l /\ \A q \in Run : q # p => pc'[q] = pc[q] /\ set_num'[q] = set_num[q]
      /\ l = "take" => max_set'[p] = max_set_file
  BY <1>1 DEF TurnInv, InTurn, Shapes
<1>4. l = "read_max" => set_num'[p] = k
  <2>1. l = "read_max" => curr_set_file_rf1 = k - 1
    BY <1>1, <1>2 DEF Where1, Taken, SqlSteps
  <2> QED
    BY <1>1, <1>2, <2>1 DEF Number, Empty, TurnInv, Shapes
<1>5. Shapes'
  BY <1>1, <1>3 DEF TurnInv, Shapes, Number
<1>6. l \in Labels1 /\ Where1(p, k)'
  BY <1>1, <1>2, <1>3, <1>4 DEF Where1, Made, Taken, SqlSteps, Labels1, Waiting, Making
<1> QED
  BY <1>1, <1>2, <1>3, <1>5, <1>6, TurnStep DEF k

LEMMA EchoSetTurn ==
  ASSUME TurnInv, NEW p \in Run, EchoSet(p)
  PROVE  TurnInv'
<1> USE DEF EchoSet, At, db
<1> DEFINE k == K(p)
<1>6. script[p] = RF1 /\ Where1(p, k) /\ k \in Int /\ k >= 1
  BY Here DEF RF1, RF2
<1> HIDE DEF k
<1>8. /\ set_num[p] = k /\ max_set[p] = max_set_file /\ k - 1 <= max_set_file /\ max_set_file \in Int
      /\ Greater(set_num[p], max_set[p]) <=> k > max_set_file
  BY <1>6 DEF Where1, Greater, Empty, TurnInv, Shapes
<1>1. PICK l \in {"dbgen2", "unlock2"} :
        /\ pc' = [pc EXCEPT ![p] = l]
        /\ IF k > max_set_file
             THEN /\ l = "dbgen2" /\ max_set' = [max_set EXCEPT ![p] = max_set[p] + Batch]
                  /\ gen' = [gen EXCEPT ![p] = 1]
             ELSE l = "unlock2" /\ UNCHANGED <<max_set, gen>>
  BY <1>8 DEF Goto
<1>2. pc'[p] = l /\ \A q \in Run : q # p => pc'[q] = pc[q]
  BY <1>1 DEF TurnInv, InTurn
<1>3. Batch \in Nat \ {0} /\ \A i \in Set : i \in Int /\ i >= 1
  BY RefreshAssumption DEF Set
<1>4. gen \in [Run -> Int] /\ max_set \in [Run -> Int] /\ set_num \in [Run -> Int]
  BY DEF TurnInv, Shapes
<1>5. Shapes'
  BY <1>1, <1>2, <1>3, <1>4 DEF TurnInv, Shapes
<1>7. l \in Labels1 /\ Where1(p, k)'
  BY <1>1, <1>2, <1>3, <1>4, <1>6, <1>8
     DEF Where1, Made, Taken, SqlSteps, Labels1, Waiting, Making
<1> QED
  BY <1>1, <1>5, <1>6, <1>7, TurnStep DEF k

LEMMA Read2Turn ==
  ASSUME TurnInv, NEW p \in Run, Read2(p)
  PROVE  TurnInv'
<1> USE DEF Read2, At, db, Goto
<1> DEFINE k == K(p)
<1>1. script[p] = RF2 /\ Where2(p, k) /\ k \in Int /\ k >= 1
  BY Here DEF RF1, RF2
<1> HIDE DEF k
<1>2. /\ pc'[p] = "write" /\ set_num'[p] = curr_set_file_rf2' + 1
      /\ \A q \in Run : q # p => pc'[q] = pc[q] /\ set_num'[q] = set_num[q]
  BY DEF TurnInv, InTurn, Shapes
<1>3. Shapes'
  BY <1>1, <1>2 DEF TurnInv, Shapes
<1>4. Where2(p, k)'
  BY <1>1, <1>2 DEF Where2, Made, Taken, SqlSteps, NoFile
<1> QED
  BY <1>1, <1>2, <1>3, <1>4, TurnStep DEF k, Labels2, Waiting

LEMMA Write2Turn ==
  ASSUME TurnInv, NEW p \in Run, Write2(p)
  PROVE  TurnInv'
<1> USE DEF Write2, At, shell, db
<1> DEFINE k == K(p)
<1>1. script[p] = RF2 /\ Where2(p, k) /\ k \in Int /\ k >= 1
  BY Here DEF RF1, RF2
<1> HIDE DEF k
<1>2. pc' = [pc EXCEPT ![p] = "unlock2"] /\ curr_set_file_rf2' = k
  BY <1>1 DEF Where2, Goto, Greater
<1>3. pc'[p] = "unlock2" /\ \A q \in Run : q # p => pc'[q] = pc[q]
  BY <1>2 DEF TurnInv, InTurn
<1>4. Shapes'
  BY <1>1, <1>2, <1>3 DEF TurnInv, Shapes
<1>5. Where2(p, k)'
  BY <1>1, <1>2, <1>3 DEF Where2, Made, Taken, SqlSteps
<1> QED
  BY <1>1, <1>2, <1>4, <1>5, TurnStep DEF k, Labels2, Waiting

\* The files of the set whose turn it is are there.
LEMMA OwnFiles ==
  ASSUME TurnInv, NEW p \in Run, pc[p] \in SqlSteps
  PROVE  set_num[p] = K(p) /\ files[K(p)] = "whole"
<1>1. pc[p] \notin {"idle", "done", "failed", "dbgen1", "dbgen2"} /\ Taken(p)
  BY DEF SqlSteps, Taken
<1>2. K(p) \in Set
  <2>1. K(p) \in 1..Runs
    BY Turns, RefreshAssumption
  <2> QED
    BY <2>1, EnoughSets
<1>3. max_set_file \in Int /\ K(p) \in Int
  BY Turns DEF TurnInv, Shapes
<1> DEFINE k == K(p)
<1>4. \/ script[p] = RF1 /\ Where1(p, k)
      \/ script[p] = RF2 /\ Where2(p, k)
  BY <1>1, Here
<1> HIDE DEF k
<1>5. set_num[p] = k /\ k <= max_set_file /\ Made(max_set_file)
  BY <1>1, <1>4 DEF Where1, Where2, Making, SqlSteps
<1> QED
  BY <1>2, <1>3, <1>5 DEF Made, k

LEMMA SqlTurn ==
  ASSUME TurnInv, NEW p \in Run,
         LoadLineitem(p) \/ InsertLineitem(p) \/ LoadOrders(p)
           \/ InsertOrders(p) \/ LoadKeys(p) \/ DeleteLineitem(p) \/ DeleteOrders(p) \/ Drop(p)
           \/ SqlError(p)
  PROVE  TurnInv'
<1> DEFINE k == K(p)
<1>1. /\ pc[p] \in SqlSteps /\ UNCHANGED <<shell, gen, disk, files>>
      /\ pc[p] \notin {"idle", "done", "failed", "dbgen1", "dbgen2"}
  BY DEF LoadLineitem, InsertLineitem, LoadOrders, InsertOrders, LoadKeys,
         DeleteLineitem, DeleteOrders, Drop, SqlError, Load, SqlSteps
<1>2. set_num[p] = k /\ files[k] = "whole"
  BY <1>1, OwnFiles
<1>3. /\ \/ script[p] = RF1 /\ Where1(p, k) /\ pc[p] \in Labels1
         \/ script[p] = RF2 /\ Where2(p, k) /\ pc[p] \in Labels2
      /\ k \in Int /\ k >= 1
  BY <1>1, Here
<1> HIDE DEF k
<1>4. PICK l :
        /\ pc' = [pc EXCEPT ![p] = l] /\ loaded' = loaded
        /\ \/ l = "failed" /\ UNCHANGED <<gone_lineitem, gone_orders>>
              /\ lineitem \subseteq lineitem' /\ orders \subseteq orders'
           \/ /\ UNCHANGED <<lineitem, orders, gone_lineitem, gone_orders>>
              /\ \/ pc[p] = "load_lineitem" /\ l = "insert_lineitem"
                 \/ pc[p] = "load_orders" /\ l = "insert_orders"
                 \/ pc[p] = "load_keys" /\ l = "delete_lineitem"
                 \/ pc[p] = "drop" /\ l = "done"
           \/ /\ pc[p] = "insert_lineitem" /\ l = "load_orders"
              /\ lineitem' = lineitem \cup {k} /\ UNCHANGED <<orders, gone_lineitem, gone_orders>>
           \/ /\ pc[p] = "insert_orders" /\ l = "drop"
              /\ orders' = orders \cup {k} /\ UNCHANGED <<lineitem, gone_lineitem, gone_orders>>
           \/ /\ pc[p] = "delete_lineitem" /\ l = "delete_orders"
              /\ gone_lineitem' = gone_lineitem \cup {k}
              /\ UNCHANGED <<lineitem, orders, gone_orders>>
           \/ /\ pc[p] = "delete_orders" /\ l = "drop"
              /\ gone_orders' = gone_orders \cup {k}
              /\ UNCHANGED <<lineitem, orders, gone_lineitem>>
  <2>1. CASE LoadLineitem(p) \/ LoadOrders(p) \/ LoadKeys(p)
    BY <1>2, <2>1 DEF LoadLineitem, LoadOrders, LoadKeys, Load, Goto
  <2>2. CASE InsertLineitem(p)
    BY <1>2, <2>2 DEF InsertLineitem, Goto
  <2>3. CASE InsertOrders(p)
    BY <1>2, <2>3 DEF InsertOrders, Goto
  <2>4. CASE DeleteLineitem(p) \/ DeleteOrders(p)
    BY <1>2, <2>4 DEF DeleteLineitem, DeleteOrders, Goto
  <2>5. CASE Drop(p) \/ SqlError(p)
    BY <2>5 DEF Drop, SqlError, Goto
  <2> QED
    BY <2>1, <2>2, <2>3, <2>4, <2>5
<1>5. pc'[p] = l /\ \A q \in Run : q # p => pc'[q] = pc[q]
  BY <1>4 DEF TurnInv, InTurn
<1>6. Shapes'
  BY <1>1, <1>4, <1>5 DEF TurnInv, Shapes, shell, disk
<1>7. (1..(k - 1)) \cup {k} = 1..k
  BY <1>3
<1>8. /\ lineitem \subseteq lineitem' /\ orders \subseteq orders'
      /\ gone_lineitem \subseteq gone_lineitem' /\ gone_orders \subseteq gone_orders'
  BY <1>4
<1>9. CASE l = "failed"
  BY <1>1, <1>4, <1>6, <1>8, <1>9, TurnStep DEF shell
<1>10. CASE l # "failed" /\ script[p] = RF1
  <2>1. l \in Labels1 \cup {"done"} /\ Where1(p, k)'
    <3>1. Where1(p, k) /\ pc[p] \in Labels1
      BY <1>3, <1>10 DEF RF1, RF2
    <3>2. Taken(p) /\ Taken(p)' /\ l \in Labels1 \cup {"done"}
      BY <1>1, <1>4, <1>5, <1>10, <3>1 DEF Taken, SqlSteps, Labels1, Waiting, Making
    <3> QED
      BY <1>1, <1>4, <1>5, <1>7, <1>10, <3>1, <3>2
         DEF Where1, Made, shell, disk, Labels1, Waiting, Making
  <2> QED
    BY <1>1, <1>4, <1>6, <1>8, <1>10, <2>1, TurnStep DEF shell, k
<1>11. CASE l # "failed" /\ script[p] = RF2
  <2>1. l \in Labels2 \cup {"done"} /\ Where2(p, k)'
    <3>1. Where2(p, k) /\ pc[p] \in Labels2
      BY <1>3, <1>11 DEF RF1, RF2
    <3>2. Taken(p) /\ Taken(p)' /\ l \in Labels2 \cup {"done"}
      BY <1>1, <1>4, <1>5, <1>11, <3>1 DEF Taken, SqlSteps, Labels2, Waiting
    <3> QED
      BY <1>1, <1>4, <1>5, <1>7, <1>11, <3>1, <3>2
         DEF Where2, Made, shell, disk, Labels2, Waiting
  <2> QED
    BY <1>1, <1>4, <1>6, <1>8, <1>11, <2>1, TurnStep DEF shell, k
<1> QED
  BY <1>3, <1>9, <1>10, <1>11

\* The next run begins where the one before has ended.
LEMMA StartTurn ==
  ASSUME Caller = "test", TurnInv, NEW p \in Run, Start(p)
  PROVE  TurnInv'
<1> USE DEF Start, disk, db
<1>1. /\ pc[p] = "idle" /\ \A q \in Run : q < p => pc[q] = "done"
      /\ pc' = [pc EXCEPT ![p] = "lock1"]
      /\ script' = [script EXCEPT ![p] = IF p % 2 = 1 THEN RF1 ELSE RF2]
  BY DEF Idle, Goto
<1>2. /\ pc'[p] = "lock1" /\ script'[p] = (IF p % 2 = 1 THEN RF1 ELSE RF2)
      /\ \A q \in Run : q # p => pc'[q] = pc[q] /\ script'[q] = script[q]
  BY <1>1 DEF TurnInv, InTurn, Shapes
<1>3. \A q \in Run : /\ q \in Int /\ p \in Int
                     /\ q > p => pc[q] = "idle"
  BY <1>1, Turns DEF TurnInv, InTurn
<1>4. Shapes'
  BY <1>1, <1>2 DEF TurnInv, Shapes
<1>5. InTurn'
  <2>1. pc' \in [Run -> Labels1 \cup Labels2 \cup {"idle", "done", "failed"}]
    BY <1>1 DEF TurnInv, InTurn, Labels1, Waiting
  <2>2. ASSUME NEW q \in Run, NEW r \in Run, r < q, pc'[q] # "idle"
        PROVE  pc'[r] = "done"
    BY <1>1, <1>2, <1>3, <2>2
  <2>3. \A q \in Run : pc'[q] # "idle" => script'[q] = (IF q % 2 = 1 THEN RF1 ELSE RF2)
    BY <1>2 DEF TurnInv, InTurn
  <2>4. \A q \in Run :
          /\ script'[q] = RF1 => pc'[q] \in Labels1 \cup {"idle", "done", "failed"}
          /\ script'[q] = RF2 => pc'[q] \in Labels2 \cup {"done", "failed"}
    BY <1>2 DEF TurnInv, InTurn, Labels1, Labels2, Waiting
  <2> QED
    BY <2>1, <2>2, <2>3, <2>4 DEF InTurn
<1>6. Last(p)' /\ \A q \in Run : Last(q)' => q = p
  BY <1>2, <1>3 DEF Last
<1> DEFINE k == K(p)
<1>7. ~Taken(p)' /\ k \in Int
  BY <1>2, Turns DEF Taken, SqlSteps
<1>8. ASSUME p = 1 PROVE Where'
  <2>1. k = 1 /\ script'[p] = RF1
    BY <1>2, <1>8, Turns
  <2> HIDE DEF k
  <2>2. Where1(p, k)'
    <3>1. pc[1] = "idle" /\ (1..(1 - 1)) = {}
      BY <1>1, <1>8
    <3>2. \A i \in Set : i >= 1 /\ i \in Int
      BY RefreshAssumption DEF Set
    <3> QED
      BY <1>2, <1>7, <2>1, <3>1, <3>2 DEF TurnInv, Begin, Where1, Made, NoFile
  <2> QED
    BY <1>2, <1>6, <2>1, <2>2 DEF Where, RF1, RF2, k
<1>9. ASSUME p > 1 PROVE Where'
  <2>1. p - 1 \in Run /\ pc[p - 1] = "done" /\ Last(p - 1)
    <3>1. p - 1 \in Run /\ pc[p - 1] = "done"
      BY <1>1, <1>3, <1>9, Turns
    <3>2. \A q \in Run : q > p - 1 => q = p \/ q > p
      BY <1>3
    <3> QED
      BY <1>1, <1>3, <3>1, <3>2 DEF Last
  <2>2. script[p - 1] = (IF (p - 1) % 2 = 1 THEN RF1 ELSE RF2)
        /\ pc[p - 1] \notin {"idle", "failed"} /\ Taken(p - 1) /\ K(p - 1) \in Int /\ K(p - 1) >= 1
    BY <2>1, Turns DEF TurnInv, InTurn, Taken
  <2>3. CASE p % 2 = 1
    <3>1. k = K(p - 1) + 1 /\ script[p - 1] = RF2 /\ script'[p] = RF1
      BY <1>2, <1>9, <2>2, <2>3, Turns
    <3> DEFINE j == K(p - 1)
    <3>2. Where2(p - 1, j)
      BY <2>1, <2>2, <3>1 DEF TurnInv, Where
    <3>3. k = j + 1 /\ j \in Int /\ j >= 1 /\ k - 1 = j /\ k # 1
      BY <2>2, <3>1
    <3> HIDE DEF k, j
    <3>4. Where1(p, k)'
      BY <1>2, <1>7, <2>1, <2>2, <3>2, <3>3 DEF Where1, Where2, Made
    <3> QED
      BY <1>2, <1>6, <3>1, <3>4 DEF Where, RF1, RF2, k
  <2>4. CASE p % 2 # 1
    <3>1. k = K(p - 1) /\ script[p - 1] = RF1 /\ script'[p] = RF2
      BY <1>2, <1>9, <2>2, <2>4, Turns
    <3>2. Where1(p - 1, k)
      BY <2>1, <2>2, <3>1 DEF TurnInv, Where
    <3> HIDE DEF k
    <3>3. Where2(p, k)'
      BY <1>2, <1>7, <2>1, <2>2, <3>2 DEF Where1, Where2, Made, Making
    <3> QED
      BY <1>2, <1>6, <3>1, <3>3 DEF Where, RF1, RF2, k
  <2> QED
    BY <2>3, <2>4
<1>10. Where'
  BY <1>3, <1>8, <1>9, Turns
<1>11. Begin' /\ HasLast'
  <2>1. pc'[1] # "idle"
    <3>1. 1 \in Run /\ (1 < p \/ 1 = p)
      BY Turns
    <3> QED
      BY <1>1, <1>2, <3>1
  <2> QED
    BY <1>6, <2>1 DEF Begin, HasLast
<1>12. Applied'
  BY <1>2 DEF TurnInv, Applied
<1> QED
  BY <1>4, <1>5, <1>10, <1>11, <1>12 DEF TurnInv

LEMMA NextTurn ==
  ASSUME Caller = "test", DbgenFails = FALSE, TurnInv, [Next]_vars
  PROVE  TurnInv'
<1>1. ASSUME NEW p \in Run, Start(p) PROVE TurnInv'
  BY <1>1, StartTurn
<1>2. ASSUME NEW p \in Run, Step(p) PROVE TurnInv'
  BY <1>2, LockTurn, Check1Turn, GenSetTurn, GeneratedTurn, NumbersTurn, Read1Turn, EchoSetTurn,
     Check2Turn, Read2Turn, Write2Turn, SqlTurn DEF Step
<1>3. CASE UNCHANGED vars
  BY <1>3 DEF vars, shell, disk, db, TurnInv, Shapes, InTurn, Where, Where1, Where2, Made, Taken,
              Begin, HasLast, Last, Applied
<1> QED
  BY <1>1, <1>2, <1>3 DEF Next, Halt

LEMMA InitTurn == Init => TurnInv
<1> SUFFICES ASSUME Init PROVE TurnInv
  OBVIOUS
<1>1. \A p \in Run : pc[p] = "idle"
  BY DEF Init
<1>2. 1 \in Run
  BY RefreshAssumption DEF Run
<1> QED
  BY <1>1, <1>2 DEF Init, TurnInv, Shapes, InTurn, Where, Begin, HasLast, Last, Applied, NoFile,
                    Labels1, Labels2, Waiting, RF1, RF2

LEMMA TurnNoGap == TurnInv => NoGap
<1> SUFFICES ASSUME TurnInv, \A p \in Run : ~Running(p) /\ pc[p] # "failed"
             PROVE  /\ lineitem = 1..(IF curr_set_file_rf1 = NoFile THEN 0 ELSE curr_set_file_rf1)
                    /\ orders = lineitem
                    /\ gone_orders = 1..(IF curr_set_file_rf2 = NoFile THEN 0 ELSE curr_set_file_rf2)
                    /\ gone_orders \subseteq orders
  BY DEF NoGap
<1>1. CASE pc[1] = "idle"
  BY <1>1 DEF TurnInv, Begin
<1>2. CASE pc[1] # "idle"
  <2>1. PICK p \in Run : Last(p)
    BY <1>2 DEF TurnInv, HasLast
  <2>2. pc[p] = "done" /\ Taken(p) /\ script[p] \in {RF1, RF2}
    BY <2>1 DEF Last, Running, Idle, Ended, Taken, TurnInv, Shapes
  <2> DEFINE k == K(p)
  <2>3. /\ k \in Int /\ k >= 1
        /\ script[p] = RF1 => Where1(p, k)
        /\ script[p] = RF2 => Where2(p, k)
    BY <2>1, <2>2, Turns DEF TurnInv, Where
  <2> HIDE DEF k
  <2>4. (1..(1 - 1)) = {} /\ k # NoFile /\ k - 1 # NoFile /\ 1..(k - 1) \subseteq 1..k
    BY <2>3 DEF NoFile
  <2>5. CASE script[p] = RF1
    BY <2>2, <2>3, <2>4, <2>5 DEF Where1
  <2>6. CASE script[p] = RF2
    BY <2>2, <2>3, <2>4, <2>6 DEF Where2
  <2> QED
    BY <2>2, <2>5, <2>6
<1> QED
  BY <1>1, <1>2

\* A test, whose refresh stream runs the scripts one after the other (throughput_test.sh): a script
\* that ends well has put its set into the database whole, or taken it out whole, although RF1 locks
\* nothing, if dbgen does not end before it has made its sets.
THEOREM TestApplies ==
  ASSUME Caller = "test", DbgenFails = FALSE
  PROVE  Spec => []Applied
<1>1. Init => TurnInv
  BY InitTurn
<1>2. TurnInv /\ [Next]_vars => TurnInv'
  BY NextTurn
<1>3. TurnInv => Applied
  BY DEF TurnInv
<1> QED
  BY <1>1, <1>2, <1>3, PTL DEF Spec

\* Nor does such a test leave a set out: each script takes the set after the one before, and when
\* all have ended well the database holds those up to the numbers in the files.
THEOREM TestNoGap ==
  ASSUME Caller = "test", DbgenFails = FALSE
  PROVE  Spec => []NoGap
<1>1. Init => TurnInv
  BY InitTurn
<1>2. TurnInv /\ [Next]_vars => TurnInv'
  BY NextTurn
<1> QED
  BY <1>1, <1>2, TurnNoGap, PTL DEF Spec
=============================================================================
