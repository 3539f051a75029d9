------------------------------ MODULE Refresh ------------------------------
(***************************************************************************)
(* The refresh functions (scripts/mysql/run_rf1.sh, run_rf2.sh) on the     *)
(* files of one RUNDIR, started one after the other by the loop of         *)
(* throughput_test.sh or at any time by users.                             *)
(*                                                                         *)
(* RF1 takes the next update set, has dbgen make more sets when there are  *)
(* none left, and inserts the set; RF2 follows it and deletes.  The        *)
(* numbers of the sets are in files that semaphore files are to protect.   *)
(*                                                                         *)
(* lockfile_create and lockfile_remove come from lockfile.sh, which is not *)
(* in the repository: they are modelled as a file that is waited for.      *)
(* run_rf2.sh reads lockfile.sh into its shell.  run_rf1.sh runs it, so    *)
(* that its functions are not defined in the script and the calls of them  *)
(* do nothing; its first lock is the command lockfile-create, a program    *)
(* that makes a file of another name and that nothing else looks at: it    *)
(* may take time and fail, and the script goes on.  So RF1 holds nothing,  *)
(* and each of its reads and writes of a file is a step of its own.        *)
(***************************************************************************)
EXTENDS Integers, FiniteSets

CONSTANTS
  Runs,        \* the number of times that a script is started
  Batch,       \* 12: the sets that are made at a time
  Caller,      \* "test": the loop of throughput_test.sh; "user": anyone
  SqlFails,    \* whether a statement of SQL may fail (the server stops)
  DbgenFails   \* whether dbgen may end before it has made all sets (a full disk)

RF1 == "rf1"
RF2 == "rf2"
Run == 1..Runs
Set == 1..((Runs \div Batch + 1) * Batch)
NoFile == -1
Empty  == -2      \* the file is there, and nothing in it

\* The scripts in which the functions of lockfile.sh are defined.
Locking == {RF2}

ASSUME RefreshAssumption ==
  /\ Runs \in Nat \ {0} /\ Batch \in Nat \ {0}
  /\ Caller \in {"test", "user"}
  /\ SqlFails \in BOOLEAN /\ DbgenFails \in BOOLEAN

VARIABLES
  script, pc,            \* of each run: which script, and where it is
  set_num, set_num_rf1,  \* its shell variables
  max_set,
  gen,                   \* the set that its dbgen is at, 0 when it runs none
  curr_set_file_rf1, curr_set_file_rf2, max_set_file,
  lock_file,             \* which semaphore files exist
  files,                 \* the files of each set: "none", "partial", "whole"
  loaded,                \* the worst file a run has loaded
  tmp,                   \* tables made for a set
  lineitem, orders,      \* sets inserted
  gone_lineitem, gone_orders    \* sets deleted

shell == <<script, set_num, set_num_rf1, max_set>>
disk  == <<curr_set_file_rf1, curr_set_file_rf2, max_set_file>>
db    == <<tmp, lineitem, orders, gone_lineitem, gone_orders>>
vars  == <<shell, pc, gen, disk, lock_file, files, loaded, db>>

Idle(p)    == pc[p] = "idle"
Ended(p)   == pc[p] \in {"done", "failed"}
Running(p) == ~Idle(p) /\ ~Ended(p)

Init ==
  /\ script = [p \in Run |-> RF1]
  /\ pc = [p \in Run |-> "idle"]
  /\ set_num = [p \in Run |-> 0] /\ set_num_rf1 = [p \in Run |-> 0]
  /\ max_set = [p \in Run |-> 0]
  /\ gen = [p \in Run |-> 0]
  /\ curr_set_file_rf1 = NoFile /\ curr_set_file_rf2 = NoFile /\ max_set_file = NoFile
  /\ lock_file = {}
  /\ files = [n \in Set |-> "none"]
  /\ loaded = [p \in Run |-> "whole"]
  /\ tmp = {} /\ lineitem = {} /\ orders = {} /\ gone_lineitem = {} /\ gone_orders = {}

Goto(p, l)   == pc' = [pc EXCEPT ![p] = l]
At(p, s, l)  == script[p] = s /\ pc[p] = l

\* Runs are numbered as they are started.  throughput_test.sh starts RF1 and RF2 in turn,
\* each when the one before has ended, and leaves the loop when one fails.
Start(p) ==
  /\ Idle(p) /\ \A q \in Run : q < p => ~Idle(q)
  /\ Caller = "test" => \A q \in Run : q < p => pc[q] = "done"
  /\ \E s \in {RF1, RF2} :
       /\ Caller = "test" => s = IF p % 2 = 1 THEN RF1 ELSE RF2
       /\ script' = [script EXCEPT ![p] = s]
  /\ Goto(p, "lock1")
  /\ UNCHANGED <<set_num, set_num_rf1, max_set, gen, disk, lock_file, files, loaded, db>>

\* lockfile_create waits until the file is not there.
lockfile_create(p, f) ==
  IF script[p] \in Locking
    THEN f \notin lock_file /\ lock_file' = lock_file \cup {f}
    ELSE UNCHANGED lock_file

lockfile_remove(p, f) ==
  lock_file' = IF script[p] \in Locking THEN lock_file \ {f} ELSE lock_file

\* The second lock of RF2 is for the number of RF2.
Second(p) == IF script[p] = RF1 THEN RF1 ELSE RF2

\* Faulty variant: no second semaphore file.
Lock_FirstOnly(p) ==
  /\ \/ pc[p] = "lock1" /\ lockfile_create(p, RF1) /\ Goto(p, "check")
     \/ pc[p] = "lock2" /\ UNCHANGED lock_file /\ Goto(p, "read")
  /\ UNCHANGED <<shell, gen, disk, files, loaded, db>>

Lock(p) ==
  /\ \/ pc[p] = "lock1" /\ lockfile_create(p, RF1) /\ Goto(p, "check")
     \/ pc[p] = "lock2" /\ lockfile_create(p, Second(p)) /\ Goto(p, "read")
  /\ UNCHANGED <<shell, gen, disk, files, loaded, db>>

FirstLoad(p) == IF script[p] = RF1 THEN "load_lineitem" ELSE "load_keys"

\* Faulty variant: RF2 keeps the first file.
Unlock_OnlySecond(p) ==
  /\ \/ pc[p] = "unlock1" /\ UNCHANGED lock_file /\ Goto(p, "lock2")
     \/ pc[p] = "unlock2" /\ lockfile_remove(p, Second(p)) /\ Goto(p, FirstLoad(p))
  /\ UNCHANGED <<shell, gen, disk, files, loaded, db>>

Unlock(p) ==
  /\ \/ pc[p] = "unlock1" /\ lockfile_remove(p, RF1) /\ Goto(p, "lock2")
     \/ pc[p] = "unlock2" /\ lockfile_remove(p, Second(p)) /\ Goto(p, FirstLoad(p))
  /\ UNCHANGED <<shell, gen, disk, files, loaded, db>>

\* RF1: the first run of all makes the first sets.
Check1(p) ==
  /\ At(p, RF1, "check")
  /\ IF curr_set_file_rf1 = NoFile
       THEN /\ max_set' = [max_set EXCEPT ![p] = Batch]
            /\ gen' = [gen EXCEPT ![p] = 1]
            /\ Goto(p, "dbgen1")
       ELSE Goto(p, "unlock1") /\ UNCHANGED <<max_set, gen>>
  /\ UNCHANGED <<script, set_num, set_num_rf1, disk, lock_file, files, loaded, db>>

\* dbgen -U max_set writes the files of the sets from the first one on (UpdateSets), those
\* that are there too: at an odd step it empties the files of a set, at an even one it has
\* written them.  They are complete then, if no other dbgen has emptied them and is at work.
GenSet(p) ==
  LET n == (gen[p] + 1) \div 2
      shared == \E q \in Run \ {p} : gen[q] = 2 * n
  IN  /\ gen[p] \in 1..(2 * max_set[p])
      /\ files' = [files EXCEPT ![n] = IF gen[p] % 2 = 1 \/ shared THEN "partial" ELSE "whole"]
      /\ gen' = [gen EXCEPT ![p] = gen[p] + 1]
      /\ UNCHANGED <<shell, pc, disk, lock_file, loaded, db>>

\* Faulty variant: the last set is not waited for.
Generated_Early(p) ==
  /\ script[p] = RF1 /\ gen[p] = 2 * max_set[p]
  /\ gen' = [gen EXCEPT ![p] = 0]
  /\ \/ pc[p] = "dbgen1" /\ Goto(p, "max1")
     \/ pc[p] = "dbgen2" /\ Goto(p, "max2")
  /\ UNCHANGED <<shell, disk, lock_file, files, loaded, db>>

\* dbgen has ended, whatever its exit status: the script goes on to write the numbers.
Generated(p) ==
  /\ script[p] = RF1
  /\ gen[p] > 0 /\ (DbgenFails \/ gen[p] = 2 * max_set[p] + 1)
  /\ gen' = [gen EXCEPT ![p] = 0]
  /\ \/ pc[p] = "dbgen1" /\ Goto(p, "max1")
     \/ pc[p] = "dbgen2" /\ Goto(p, "max2")
  /\ UNCHANGED <<shell, disk, lock_file, files, loaded, db>>

\* echo n > file: the shell empties the file before echo writes the number.
OpenMax(p) ==
  /\ script[p] = RF1
  /\ \/ pc[p] = "max1" /\ Goto(p, "echo_max1")
     \/ pc[p] = "max2" /\ Goto(p, "echo_max2")
  /\ max_set_file' = Empty
  /\ UNCHANGED <<shell, gen, curr_set_file_rf1, curr_set_file_rf2, lock_file, files, loaded, db>>

OpenCurr(p) ==
  /\ script[p] = RF1
  /\ \/ pc[p] = "curr1" /\ Goto(p, "echo_curr1")
     \/ pc[p] = "take" /\ Goto(p, "echo_set")
  /\ curr_set_file_rf1' = Empty
  /\ UNCHANGED <<shell, gen, curr_set_file_rf2, max_set_file, lock_file, files, loaded, db>>

EchoMax(p) ==
  /\ script[p] = RF1
  /\ \/ pc[p] = "echo_max1" /\ Goto(p, "curr1")
     \/ pc[p] = "echo_max2" /\ Goto(p, "unlock2")
  /\ max_set_file' = max_set[p]
  /\ UNCHANGED <<shell, gen, curr_set_file_rf1, curr_set_file_rf2, lock_file, files, loaded, db>>

\* Faulty variant: the number starts at the first set instead of before it.
EchoFirst_One(p) ==
  /\ At(p, RF1, "echo_curr1") /\ Goto(p, "unlock1")
  /\ curr_set_file_rf1' = 1
  /\ UNCHANGED <<shell, gen, curr_set_file_rf2, max_set_file, lock_file, files, loaded, db>>

EchoFirst(p) ==
  /\ At(p, RF1, "echo_curr1") /\ Goto(p, "unlock1")
  /\ curr_set_file_rf1' = 0
  /\ UNCHANGED <<shell, gen, curr_set_file_rf2, max_set_file, lock_file, files, loaded, db>>

\* RF2: RF1 has to run before; the script leaves with the semaphore file in place.
Check2(p) ==
  /\ At(p, RF2, "check")
  /\ IF curr_set_file_rf1 = NoFile
       THEN Goto(p, "failed") /\ UNCHANGED set_num_rf1
       ELSE Goto(p, "unlock1") /\ set_num_rf1' = [set_num_rf1 EXCEPT ![p] = curr_set_file_rf1]
  /\ UNCHANGED <<script, set_num, max_set, gen, disk, lock_file, files, loaded, db>>

\* expr counts from an empty variable as from 0.
Number(n) == IF n = Empty THEN 0 ELSE n

\* Faulty variant: the number is not counted up.
Read1_Same(p) ==
  /\ At(p, RF1, "read") /\ Goto(p, "read_max")
  /\ set_num' = [set_num EXCEPT ![p] = Number(curr_set_file_rf1)]
  /\ UNCHANGED <<script, set_num_rf1, max_set, gen, disk, lock_file, files, loaded, db>>

\* RF1 reads the numbers.
Read1(p) ==
  /\ At(p, RF1, "read") /\ Goto(p, "read_max")
  /\ set_num' = [set_num EXCEPT ![p] = Number(curr_set_file_rf1) + 1]
  /\ UNCHANGED <<script, set_num_rf1, max_set, gen, disk, lock_file, files, loaded, db>>

ReadMax(p) ==
  /\ At(p, RF1, "read_max") /\ Goto(p, "take")
  /\ max_set' = [max_set EXCEPT ![p] = max_set_file]
  /\ UNCHANGED <<script, set_num, set_num_rf1, gen, disk, lock_file, files, loaded, db>>

\* [ m -gt n ] is false, with an error, when one of them is empty.
Greater(m, n) == n # Empty /\ m > n

\* RF1 takes the set and, when it has not been made, makes more sets.
EchoSet(p) ==
  /\ At(p, RF1, "echo_set")
  /\ curr_set_file_rf1' = set_num[p]
  /\ IF Greater(set_num[p], max_set[p])
       THEN /\ max_set' = [max_set EXCEPT ![p] = max_set[p] + Batch]
            /\ gen' = [gen EXCEPT ![p] = 1]
            /\ Goto(p, "dbgen2")
       ELSE Goto(p, "unlock2") /\ UNCHANGED <<max_set, gen>>
  /\ UNCHANGED <<script, set_num, set_num_rf1, curr_set_file_rf2, max_set_file, lock_file,
                 files, loaded, db>>

\* RF2 reads its number.
Read2(p) ==
  /\ At(p, RF2, "read")
  /\ curr_set_file_rf2' = IF curr_set_file_rf2 = NoFile THEN 0 ELSE curr_set_file_rf2
  /\ set_num' = [set_num EXCEPT ![p] = curr_set_file_rf2' + 1]
  /\ Goto(p, "write")
  /\ UNCHANGED <<script, set_num_rf1, max_set, gen, curr_set_file_rf1, max_set_file,
                 lock_file, files, loaded, db>>

\* RF2 takes the set, if RF1 has; if not it leaves with the semaphore file in place.
Write2(p) ==
  /\ At(p, RF2, "write")
  /\ IF Greater(set_num[p], set_num_rf1[p])
       THEN Goto(p, "failed") /\ UNCHANGED curr_set_file_rf2
       ELSE Goto(p, "unlock2") /\ curr_set_file_rf2' = set_num[p]
  /\ UNCHANGED <<shell, gen, curr_set_file_rf1, max_set_file, lock_file, files, loaded, db>>

TableOf == [load_lineitem |-> "lineitem", load_orders |-> "orders", load_keys |-> "orderkey"]

\* create table tmp_... and load data infile: both stop the script when they fail.
Load(p, from, to) ==
  LET n == set_num[p]
      table == TableOf[from]
  IN  /\ pc[p] = from
      /\ IF <<table, n>> \in tmp \/ files[n] = "none"
           THEN Goto(p, "failed") /\ UNCHANGED loaded
           ELSE /\ loaded' = IF files[n] = "whole" THEN loaded
                                                   ELSE [loaded EXCEPT ![p] = "partial"]
                /\ Goto(p, to)
      /\ tmp' = tmp \cup {<<table, n>>}
      /\ UNCHANGED <<shell, gen, disk, lock_file, files, lineitem, orders, gone_lineitem,
                     gone_orders>>

LoadLineitem(p) == Load(p, "load_lineitem", "insert_lineitem")
LoadOrders(p)   == Load(p, "load_orders", "insert_orders")
LoadKeys(p)     == Load(p, "load_keys", "delete_lineitem")

\* insert into ... select: the keys of a set may be in the table once.
InsertLineitem(p) ==
  /\ pc[p] = "insert_lineitem"
  /\ Goto(p, IF set_num[p] \in lineitem THEN "failed" ELSE "load_orders")
  /\ lineitem' = lineitem \cup {set_num[p]}
  /\ UNCHANGED <<shell, gen, disk, lock_file, files, loaded, tmp, orders, gone_lineitem,
                 gone_orders>>

InsertOrders(p) ==
  /\ pc[p] = "insert_orders"
  /\ Goto(p, IF set_num[p] \in orders THEN "failed" ELSE "drop")
  /\ orders' = orders \cup {set_num[p]}
  /\ UNCHANGED <<shell, gen, disk, lock_file, files, loaded, tmp, lineitem, gone_lineitem,
                 gone_orders>>

DeleteLineitem(p) ==
  /\ pc[p] = "delete_lineitem" /\ Goto(p, "delete_orders")
  /\ gone_lineitem' = gone_lineitem \cup {set_num[p]}
  /\ UNCHANGED <<shell, gen, disk, lock_file, files, loaded, tmp, lineitem, orders,
                 gone_orders>>

DeleteOrders(p) ==
  /\ pc[p] = "delete_orders" /\ Goto(p, "drop")
  /\ gone_orders' = gone_orders \cup {set_num[p]}
  /\ UNCHANGED <<shell, gen, disk, lock_file, files, loaded, tmp, lineitem, orders,
                 gone_lineitem>>

Drop(p) ==
  /\ pc[p] = "drop" /\ Goto(p, "done")
  /\ tmp' = tmp \ {<<t, set_num[p]>> :
                     t \in IF script[p] = RF1 THEN {"lineitem", "orders"} ELSE {"orderkey"}}
  /\ UNCHANGED <<shell, gen, disk, lock_file, files, loaded, lineitem, orders, gone_lineitem,
                 gone_orders>>

SqlSteps == {"load_lineitem", "insert_lineitem", "load_orders", "insert_orders", "load_keys",
             "delete_lineitem", "delete_orders", "drop"}

\* A statement fails: || er leaves the script, the tables it made stay.
SqlError(p) ==
  /\ SqlFails /\ pc[p] \in SqlSteps
  /\ Goto(p, "failed")
  /\ tmp' \in {tmp} \cup {tmp \cup {<<TableOf[l], set_num[p]>>} : l \in DOMAIN TableOf \cap {pc[p]}}
  /\ UNCHANGED <<shell, gen, disk, lock_file, files, loaded, lineitem, orders, gone_lineitem,
                 gone_orders>>

Step(p) ==
  \/ Lock(p) \/ Unlock(p)
  \/ Check1(p) \/ GenSet(p) \/ Generated(p)
  \/ OpenMax(p) \/ EchoMax(p) \/ OpenCurr(p) \/ EchoFirst(p)
  \/ Read1(p) \/ ReadMax(p) \/ EchoSet(p)
  \/ Check2(p) \/ Read2(p) \/ Write2(p)
  \/ LoadLineitem(p) \/ InsertLineitem(p) \/ LoadOrders(p) \/ InsertOrders(p)
  \/ LoadKeys(p) \/ DeleteLineitem(p) \/ DeleteOrders(p) \/ Drop(p) \/ SqlError(p)

Halt == (\A p \in Run : ~Running(p)) /\ UNCHANGED vars

Next == (\E p \in Run : Start(p) \/ Step(p)) \/ Halt

\* A script that is running goes on; nobody has to start one.
Fairness == \A p \in Run : WF_vars(Step(p))

Spec == Init /\ [][Next]_vars /\ Fairness

-----------------------------------------------------------------------------
(***************************************************************************)
(* Properties.                                                             *)
(***************************************************************************)

\* The script has taken its set.
Taken(p) == pc[p] \in {"dbgen2", "max2", "echo_max2", "unlock2", "done"} \cup SqlSteps

\* The variables have their types, and a set that is taken is one that can be made.
TypeOK ==
  /\ script \in [Run -> {RF1, RF2}]
  /\ set_num \in [Run -> Nat]
  /\ set_num_rf1 \in [Run -> Nat \cup {Empty}] /\ max_set \in [Run -> Nat \cup {Empty}]
  /\ \A p \in Run : Taken(p) => set_num[p] \in Set
  /\ gen \in [Run -> Nat]
  /\ {curr_set_file_rf1, curr_set_file_rf2, max_set_file} \subseteq Nat \cup {NoFile, Empty}
  /\ lock_file \subseteq {RF1, RF2}
  /\ files \in [Set -> {"none", "partial", "whole"}]
  /\ loaded \in [Run -> {"whole", "partial"}]
  /\ lineitem \cup orders \cup gone_lineitem \cup gone_orders \subseteq Set

\* Two runs of a script never take the same set.
SetsApart(s) ==
  \A p, q \in Run :
    p # q /\ script[p] = s /\ script[q] = s /\ Taken(p) /\ Taken(q) => set_num[p] # set_num[q]

\* Of RF1, this is what its comment says: "create a semaphore file so that only one process
\* can access $curr_set_file_rf1" (run_rf1.sh:37-38).
RF1Apart == SetsApart(RF1)

\* Of RF2, whose number is read and written between lockfile_create and lockfile_remove, it is
\* to hold for users that start the scripts at any time, whatever RF1 does to its files
\* (run_rf2.sh:46-63).
RF2Apart == SetsApart(RF2)

\* A run that ends well has put its whole set into the database, or out of it.
Applied ==
  \A p \in Run :
    pc[p] = "done" =>
      /\ loaded[p] = "whole"
      /\ set_num[p] \in IF script[p] = RF1 THEN lineitem \cap orders
                                           ELSE gone_lineitem \cap gone_orders

\* The update sets are used in order and none is left out: when all runs are over and none
\* has failed, the database holds the sets up to the number in the file.
NoGap ==
  (\A p \in Run : ~Running(p) /\ pc[p] # "failed") =>
     /\ lineitem = 1..(IF curr_set_file_rf1 = NoFile THEN 0 ELSE curr_set_file_rf1)
     /\ orders = lineitem
     /\ gone_orders = 1..(IF curr_set_file_rf2 = NoFile THEN 0 ELSE curr_set_file_rf2)
     /\ gone_orders \subseteq orders

\* Every script that is started ends, well or not: none waits for ever.
Finishes == \A p \in Run : Running(p) ~> Ended(p)
=============================================================================
