-------------------------------- MODULE Dbgen --------------------------------
(***************************************************************************)
(* One run of dbgen that generates the data set (driver.c: main, pload,    *)
(* partial, gen_tbl; bm_utils.c: set_state, tbl_open).                     *)
(*                                                                         *)
(* A run works through its tables in the order of tdefs[].  A table below  *)
(* NATION can be partitioned: with -C n one process forks n children for   *)
(* each table and waits for them; with -C n -S k the user starts n         *)
(* processes, and the k-th makes the k-th part of every table.  A process  *)
(* sets its random number streams to the first row of its part without     *)
(* generating the rows before it, and the parts must add up to the data    *)
(* set one process would have made.                                        *)
(*                                                                         *)
(* Process 0 is the program started without -S; processes 1..n are its     *)
(* forked children or the n steps.  Output is buffered by stdio: a row is  *)
(* on disk when its buffer is written, at the latest by exit().  The two   *)
(* files of PART_PSUPP and of ORDER_LINE are written together and count as *)
(* one.  What is left out: direct load, validation (-O v), headers, -O s.  *)
(***************************************************************************)
EXTENDS Streams, FiniteSets

CONSTANTS
  Base,          \* tdefs[].base after process_options: rows at scale 1
  MaxProcs,      \* the largest -C
  Commands,      \* the command lines: -T, -s, -C, whether -S, and -f
  LineCounts,    \* the numbers of lineitems an order may have
  VarDraws,      \* the numbers of draws the variable columns may make
  MaxCrashes     \* bound: processes killed in one run of a command line

\* The tables one command line can ask for: all, or one -T option.
AllTables == {SUPP, CUST, PART_PSUPP, ORDER_LINE, NATION, REGION}
TableChoices == {AllTables, {NATION, REGION}} \cup {{t} : t \in Tables}

Command == [table : TableChoices, scale : Nat \ {0}, children : 1..MaxProcs,
            steps : BOOLEAN, force : BOOLEAN]

ASSUME DbgenAssumption ==
  /\ Base \in [Tables -> Nat \ {0}]
  /\ MaxProcs \in Nat \ {0}
  /\ Commands \subseteq Command
  /\ LineCounts \subseteq 1..O_LCNT_MAX
  /\ VarDraws \subseteq [VarStream -> Nat]
  /\ MaxCrashes \in [Commands -> Nat]

VARIABLES
  opt,         \* the command line
  pc,          \* where each process is
  tbl,         \* main's loop index i; a child's table
  row,         \* gen_tbl: the number of the next row
  left,        \* gen_tbl: the rows still to make
  pos,         \* rows printed to the file of the current table
  seed,        \* the position of every stream, process by process
  buf,         \* rows in the stdio buffers of each process
  disk,        \* the rows in each file, with their places
  c,           \* pload: children forked, then children to wait for
  lost,        \* parts given up: a child killed, an overwrite refused
  crashes      \* processes killed so far

vars == <<opt, pc, tbl, row, left, pos, seed, buf, disk, c, lost, crashes>>

Proc == 0..MaxProcs
END  == REGION + 1

Children == 1..opt.children
Mains    == IF opt.steps THEN Children ELSE {0}
Forked(p) == ~opt.steps /\ p # 0

(***************************************************************************)
(* Which rows of table t process p makes, and in which file.               *)
(***************************************************************************)
\* Faulty variant: the parent makes the suppliers itself.
Parallel_NotSupp(t) == opt.children > 1 /\ t < NATION /\ t # SUPP

Parallel(t) == opt.children > 1 /\ t < NATION
Rows(t)     == Base[t] * (IF t < NATION THEN opt.scale ELSE 1)
PartRows(t) == RowCount(Base[t], opt.scale, opt.children)

First(t, p) == IF Parallel(t) THEN PartRows(t) * (p - 1) + 1 ELSE 1
\* Faulty variant: the rows left over are made by none.
Count_NoExtra(t, p) == IF Parallel(t) THEN PartRows(t) ELSE Rows(t)

Count(t, p) ==
  IF Parallel(t) THEN PartRows(t) + (IF p = opt.children
                                       THEN ExtraRows(Base[t], opt.scale, opt.children) ELSE 0)
                 ELSE Rows(t)

\* set_files gives the parts of a table names of their own; NATION and REGION
\* are made whole by every step, in one file.
PartOf(t, p) == IF Parallel(t) THEN p ELSE 0
FileOf(t, p) == <<t, PartOf(t, p)>>
File == Tables \X Proc

(***************************************************************************)
(* A row of table t: its place in the file, its number and the positions   *)
(* of the streams its columns are drawn from.  Stale is what an earlier    *)
(* run left in a file.                                                     *)
(***************************************************************************)
Row(t)   == [n : Nat, i : Nat, at : [Reads(t) -> Int]]
Stale(t) == [n |-> 1, i |-> 0, at |-> [s \in Reads(t) |-> 0]]

\* write(2) of the rows W at their places; fopen(, "w") empties the file first.
Overlay(file, W) == {x \in file : \A w \in W : w.n # x.n} \cup W

Pending(p, t) == {w.row : w \in {v \in buf[p] : v.t = t}}
Opened(t, p)  == IF pos[p] = 0 THEN {} ELSE disk[FileOf(t, p)]

Init ==
  /\ opt \in Commands
  /\ pc = [p \in Proc |-> IF p \in Mains THEN "main" ELSE "idle"]
  /\ tbl = [p \in Proc |-> CHOOSE t \in opt.table : \A u \in opt.table : t <= u]
  /\ row = [p \in Proc |-> 1]
  /\ left = [p \in Proc |-> 0]
  /\ pos = [p \in Proc |-> 0]
  /\ seed = [p \in Proc |-> [s \in Stream |-> 0]]
  /\ buf = [p \in Proc |-> {}]
  /\ \E old \in BOOLEAN : disk = [f \in File |-> IF old THEN {Stale(f[1])} ELSE {}]
  /\ c = 0
  /\ lost = {}
  /\ crashes = 0

\* The next table of main's loop; exit follows the last one.
NextTable(p) ==
  \E u \in opt.table \cup {END} :
    /\ u > tbl[p]
    /\ \A v \in opt.table : v > tbl[p] => u <= v
    /\ tbl' = [tbl EXCEPT ![p] = u]
    /\ pc' = [pc EXCEPT ![p] = IF u = END THEN "exiting" ELSE "main"]

\* gen_tbl starts.
Load(p, t) ==
  /\ pc' = [pc EXCEPT ![p] = "gen"]
  /\ row' = [row EXCEPT ![p] = First(t, p)]
  /\ left' = [left EXCEPT ![p] = Count(t, p)]
  /\ pos' = [pos EXCEPT ![p] = 0]
  /\ UNCHANGED <<opt, tbl, buf, disk, c, lost, crashes>>

\* main: a table that is not partitioned.
Serial(p) ==
  /\ pc[p] = "main" /\ ~Parallel(tbl[p])
  /\ Load(p, tbl[p])
  /\ UNCHANGED seed

\* partial: in main for -S, or in a forked child.
Partial(p) ==
  /\ \/ pc[p] = "partial"
     \/ pc[p] = "main" /\ Parallel(tbl[p]) /\ opt.steps
  /\ seed' = [seed EXCEPT ![p] = Advance(tbl[p], seed[p], PartRows(tbl[p]), p - 1)]
  /\ Load(p, tbl[p])

\* pload starts.
StartLoad ==
  /\ pc[0] = "main" /\ Parallel(tbl[0]) /\ ~opt.steps
  /\ pc' = [pc EXCEPT ![0] = "fork"]
  /\ c' = 0
  /\ UNCHANGED <<opt, tbl, row, left, pos, seed, buf, disk, lost, crashes>>

\* Faulty variant: one child too many.
Fork_Off ==
  /\ pc[0] = "fork"
  /\ c' = c + 1
  /\ IF c < opt.children
       THEN /\ pc' = [pc EXCEPT ![c + 1] = "partial"]
            /\ tbl' = [tbl EXCEPT ![c + 1] = tbl[0]]
            /\ seed' = [seed EXCEPT ![c + 1] = seed[0]]
            /\ buf' = [buf EXCEPT ![c + 1] = buf[0]]
       ELSE pc' = [pc EXCEPT ![0] = "wait"] /\ UNCHANGED <<tbl, seed, buf>>
  /\ UNCHANGED <<opt, row, left, pos, disk, lost, crashes>>

\* fork copies the streams and the stdio buffers of the parent.
Fork ==
  /\ pc[0] = "fork"
  /\ c' = c + 1
  /\ pc' = [pc EXCEPT ![c + 1] = "partial",
                      ![0] = IF c + 1 = opt.children THEN "wait" ELSE "fork"]
  /\ tbl' = [tbl EXCEPT ![c + 1] = tbl[0]]
  /\ seed' = [seed EXCEPT ![c + 1] = seed[0]]
  /\ buf' = [buf EXCEPT ![c + 1] = buf[0]]
  /\ UNCHANGED <<opt, row, left, pos, disk, lost, crashes>>

\* fork fails: exit(-1).  kill_load calls kill(SIGUSR1, pid), with the arguments the wrong
\* way round: no child gets the signal, and the children go on.
ForkFails ==
  /\ pc[0] = "fork"
  /\ pc' = [pc EXCEPT ![0] = "failed"]
  /\ UNCHANGED <<opt, tbl, row, left, pos, seed, buf, disk, c, lost, crashes>>

\* One pass of gen_tbl: mk_*, pr_* (which opens the file for the first row), row_stop.  The
\* buffer is written when it is full, which it never is of one row.
GenRow(p) ==
  /\ pc[p] = "gen" /\ left[p] > 0
  /\ \E lines \in LineCounts, var \in VarDraws, full \in BOOLEAN :
       LET t == tbl[p]
           r == [n |-> pos[p] + 1, i |-> row[p], at |-> [s \in Reads(t) |-> seed[p][s]]]
       IN  /\ seed' = [seed EXCEPT ![p] = AfterRow(t, lines, var, seed[p])]
           /\ \/ /\ full /\ pos[p] > 0
                 /\ buf' = [buf EXCEPT ![p] = {w \in buf[p] : w.t # t}]
                 /\ disk' = [disk EXCEPT ![FileOf(t, p)] =
                               Overlay(Opened(t, p), Pending(p, t) \cup {r})]
              \/ /\ ~full
                 /\ buf' = [buf EXCEPT ![p] = buf[p] \cup {[t |-> t, row |-> r]}]
                 /\ disk' = [disk EXCEPT ![FileOf(t, p)] = Opened(t, p)]
  /\ row' = [row EXCEPT ![p] = row[p] + 1]
  /\ left' = [left EXCEPT ![p] = left[p] - 1]
  /\ pos' = [pos EXCEPT ![p] = pos[p] + 1]
  /\ UNCHANGED <<opt, pc, tbl, c, lost, crashes>>

\* tbl_open without -f asks before it overwrites; "no" is exit(0).  Its stat buffer
\* is not set when the file is new, so it may ask then too.  Of two files the
\* first may have been opened already.
Refuse(p) ==
  /\ pc[p] = "gen" /\ left[p] > 0 /\ pos[p] = 0 /\ ~opt.force
  /\ pc' = [pc EXCEPT ![p] = "exiting"]
  /\ \/ UNCHANGED disk
     \/ Child(tbl[p]) # NONE /\ disk' = [disk EXCEPT ![FileOf(tbl[p], p)] = {}]
  /\ lost' = lost \cup IF Forked(p) THEN {FileOf(tbl[p], p)}
                        ELSE {FileOf(u, p) : u \in {v \in opt.table : v >= tbl[p]}}
  /\ UNCHANGED <<opt, tbl, row, left, pos, seed, buf, c, crashes>>

\* gen_tbl returns: a forked child exits, main goes on.
EndTable(p) ==
  /\ pc[p] = "gen" /\ left[p] = 0
  /\ IF Forked(p) THEN pc' = [pc EXCEPT ![p] = "exiting"] /\ UNCHANGED tbl
                  ELSE NextTable(p)
  /\ UNCHANGED <<opt, row, left, pos, seed, buf, disk, c, lost, crashes>>

\* exit writes what stdio still holds, file by file.
Drain(p) ==
  /\ pc[p] = "exiting"
  /\ \E t \in Tables :
       /\ Pending(p, t) # {}
       /\ disk' = [disk EXCEPT ![FileOf(t, p)] = Overlay(disk[FileOf(t, p)], Pending(p, t))]
       /\ buf' = [buf EXCEPT ![p] = {w \in buf[p] : w.t # t}]
  /\ UNCHANGED <<opt, pc, tbl, row, left, pos, seed, c, lost, crashes>>

\* Faulty variant: _exit, which leaves stdio's buffers unwritten.
Exit_NoFlush(p) ==
  /\ pc[p] = "exiting"
  /\ pc' = [pc EXCEPT ![p] = "done"]
  /\ UNCHANGED <<opt, tbl, row, left, pos, seed, buf, disk, c, lost, crashes>>

Exit(p) ==
  /\ pc[p] = "exiting" /\ buf[p] = {}
  /\ pc' = [pc EXCEPT ![p] = "done"]
  /\ UNCHANGED <<opt, tbl, row, left, pos, seed, buf, disk, c, lost, crashes>>

\* Faulty variant: a child that was killed is not counted.
Reap_OnlyExits ==
  /\ pc[0] = "wait" /\ c > 0
  /\ \E p \in Children : /\ pc[p] = "done"
                         /\ pc' = [pc EXCEPT ![p] = "idle"]
  /\ c' = c - 1
  /\ UNCHANGED <<opt, tbl, row, left, pos, seed, buf, disk, lost, crashes>>

\* pload waits for as many children as it forked, and only reports how they ended.
Reap ==
  /\ pc[0] = "wait" /\ c > 0
  /\ \E p \in Children : /\ pc[p] \in {"done", "dead"}
                         /\ pc' = [pc EXCEPT ![p] = "idle"]
  /\ c' = c - 1
  /\ UNCHANGED <<opt, tbl, row, left, pos, seed, buf, disk, lost, crashes>>

EndLoad ==
  /\ pc[0] = "wait" /\ c = 0
  /\ NextTable(0)
  /\ UNCHANGED <<opt, row, left, pos, seed, buf, disk, c, lost, crashes>>

\* A process is killed: what it had not written is gone.
Die(p) ==
  /\ crashes < MaxCrashes[opt]
  /\ pc[p] \notin {"idle", "done", "dead", "failed"}
  /\ crashes' = crashes + 1
  /\ pc' = [pc EXCEPT ![p] = "dead"]
  /\ buf' = [buf EXCEPT ![p] = {}]
  /\ lost' = lost \cup IF Forked(p) THEN {FileOf(tbl[p], p)} ELSE {}
  /\ UNCHANGED <<opt, tbl, row, left, pos, seed, disk, c>>

\* The user starts a step, or a run without children, again.
Rerun(p) ==
  /\ pc[p] = "dead" /\ p \in Mains /\ (opt.steps \/ opt.children = 1)
  /\ pc' = [pc EXCEPT ![p] = "main"]
  /\ tbl' = [tbl EXCEPT ![p] = CHOOSE t \in opt.table : \A u \in opt.table : t <= u]
  /\ seed' = [seed EXCEPT ![p] = [s \in Stream |-> 0]]
  /\ UNCHANGED <<opt, row, left, pos, buf, disk, c, lost, crashes>>

Ended(p) == pc[p] \in {"idle", "done", "dead", "failed"}
Halted   == (\A p \in Proc : Ended(p)) /\ UNCHANGED vars

Load1(p) == Serial(p) \/ Partial(p) \/ GenRow(p) \/ EndTable(p) \/ Drain(p) \/ Exit(p)
Parent   == StartLoad \/ Fork \/ Reap \/ EndLoad

Next ==
  \/ \E p \in Proc : Load1(p) \/ Refuse(p) \/ Die(p) \/ Rerun(p)
  \/ Parent \/ ForkFails
  \/ Halted

\* A process that can go on is scheduled in the end; nothing has to fail.
Fairness == WF_vars(Parent) /\ \A p \in Proc : WF_vars(Load1(p))

Spec == Init /\ [][Next]_vars /\ Fairness

-----------------------------------------------------------------------------
(***************************************************************************)
(* Properties.                                                             *)
(***************************************************************************)

\* The variables have their types: rows of a table hold that table's streams.
TypeOK ==
  /\ opt \in Commands
  /\ pc \in [Proc -> {"idle", "main", "partial", "gen", "fork", "wait",
                      "exiting", "done", "dead", "failed"}]
  /\ tbl \in [Proc -> Tables \cup {END}]
  /\ row \in [Proc -> Int] /\ left \in [Proc -> Nat] /\ pos \in [Proc -> Nat]
  /\ seed \in [Proc -> [Stream -> Int]]
  /\ DOMAIN buf = Proc
  /\ \A p \in Proc : \A w \in buf[p] : w.t \in Tables /\ w.row \in Row(w.t)
  /\ DOMAIN disk = File /\ \A f \in File : disk[f] \subseteq Row(f[1])
  /\ c \in 0..MaxProcs
  /\ lost \subseteq File
  /\ crashes \in 0..MaxCrashes[opt]

\* The row that a run without partitions makes as row i.
SerialSeeds(x) ==
  x.i > 0 => \A s \in DOMAIN x.at : SameSeed(x.at[s], (x.i - 1) * Boundary(s))

\* Every row in every file is drawn from the streams exactly where a serial run
\* draws it: the jump over the parts before it (set_state, the sd_ functions)
\* lands where row_stop leaves the streams after those rows.
RowsAsSerial ==
  \A f \in File : \A x \in disk[f] : SerialSeeds(x)

\* The parts of t, in order, number the rows of the data set without a gap.
Parts(t) == IF Parallel(t) THEN Children ELSE {0}
Offset(t, k) == IF Parallel(t) THEN PartRows(t) * (k - 1) ELSE 0
Whole(t, k) ==
  /\ {x.n : x \in disk[<<t, k>>]} = 1..(IF k = opt.children \/ ~Parallel(t)
                                         THEN Rows(t) - Offset(t, k)
                                         ELSE Offset(t, k + 1) - Offset(t, k))
  /\ \A x \in disk[<<t, k>>] : x.i = Offset(t, k) + x.n

\* When the program, or every step, has exited, each file that was not given up
\* has exactly its rows in order: nothing left in a buffer, no hole left by a
\* step that reopened a shared file, no row of an earlier run.  (A part of no
\* rows is never opened and keeps what it had.)
CompleteOnExit ==
  (\A p \in Mains : pc[p] = "done") =>
    \A t \in opt.table : \A k \in Parts(t) :
      \/ <<t, k>> \in lost
      \/ Whole(t, k)
      \/ Count(t, k) = 0

\* fork duplicates stdio buffers, and each child would write its copy: the parent
\* must have nothing buffered whenever it forks.
NothingBufferedAtFork == pc[0] = "fork" => buf[0] = {}

\* Every process comes to an end: the parent's count of children to wait for
\* matches the children there are, dead ones included.
Terminates == <>[](\A p \in Proc : Ended(p))

(***************************************************************************)
(* The run implements DataSet: the copies of a row are the places in the   *)
(* files that hold it as a serial run would make it.                       *)
(***************************************************************************)
Copies(t, i) ==
  Cardinality(UNION {{<<k, x.n>> : x \in {y \in disk[<<t, k>>] : y.i = i /\ SerialSeeds(y)}}
                     : k \in Proc})
Wanted(t) == IF t \in opt.table THEN Rows(t) ELSE 0
Status == IF \E p \in Proc : ~Ended(p) THEN "generating"
          ELSE IF lost = {} /\ \A p \in Mains : pc[p] = "done" THEN "complete"
          ELSE "incomplete"

DS == INSTANCE DataSet WITH
        Table  <- Tables,
        want   <- [t \in Tables |-> Wanted(t)],
        copies <- [t \in Tables |-> [i \in 1..Wanted(t) |-> Copies(t, i)]],
        status <- Status

\* Whatever its processes do, the run is the promised data set: see DataSet.
IsDataSet == DS!Spec
=============================================================================
