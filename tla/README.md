# Verification of the DBT-3 kit for MySQL

TLA+ models of the programs in this repository, checked with TLC on small instances, and
theorems about them proved with TLAPS.

The kit runs a TPC-H like benchmark: `dbgen` makes the data set and the update sets, `qgen`
the query streams, `parse_query` splits them into statements, and the shell scripts under
`scripts/mysql` load the database and run the power and the throughput tests. Three copies of
`dbgen` and `qgen` are in the tree:

* `src/src/dbgen/`, which the scripts use: the one meant below where nothing is said;
* `src/tpch_tools/`, the newer release: its data generation (`Tools`), and what differs in the
  other components;
* `src/dbgen/`, an older copy of the first: not modelled.

Functions that are the same in two releases (`read_dist`, `julian`, `txt_np` and its like, the
`pr_` functions) are mapped to either of them.

## 1. The system

| Part | State | Operations | What is hard |
|---|---|---|---|
| Random streams (`rnd.h`, `rnd.c`, `speed_seed.c`) | `Seed[48]`: value, draws of the current row, boundary | `RANDOM`, `row_start`, `row_stop`, `sd_*`, `NthElement` | two independent computations of the same position must agree; the modulus |
| Generators (`rnd.c`, `speed_seed.c`, `rng64.c`) | a seed | `NextRand`, `NextRand64`, `RND_seed`, `NthElement`, `AdvanceRand64` | three pieces of code that jump by squaring; negative jumps |
| Data generation (`driver.c`, `bm_utils.c`, `build.c`, `print.c`) | the table loop, `pids`, files, stdio buffers | `main`, `pload`, `partial`, `gen_tbl`, `set_state`, `tbl_open`, `kill_load` | forked children, steps run side by side, shared files, `fork` against stdio, crashes, stale files |
| Newer data generation (`tpch_tools`) | the same, without children | `validate_options`, `main`, `partial`, `gen_tbl`, `set_state` | rounding after scaling, shared streams, the last part |
| Update sets (`driver.c`, `build.c`, `print.c`, both releases) | `upd_num`, segment counters, sparse keys | the `-U` branch of `main`, `mk_sparse`, `pr_drange` | keys disjoint from those loaded, bit widths, segment boundaries |
| Rows and dates (`build.c`, `bm_utils.c`) | the row, the array of dates | `mk_order`, `mk_part`, `mk_time`, `julian`, `unjulian` | keys that refer to rows made elsewhere; the ends of years |
| Distributions (`bm_utils.c`, `permute.c`) | the distributions read, the permutation | `read_dist`, `pick_str`, `agg_str`, `permute` | weights that add up; members that repeat |
| Text (`text.c`, `bm_utils.c`) | a buffer, the pool | `dbg_text`, `txt_sentence`, `a_rnd` | arrays of a fixed size; how many draws a value costs |
| BCD arithmetic (`bcd2.c`) | two longs of digits | add, multiply, divide | carries |
| Printing and direct load (`print.c`, `load_stub.c`, `dss.h`) | the file, `vtotal`, the stubs' counts | `dbg_print`, `pr_*`, `vrf_*`, `ld_*`, `hd_*` | columns against the tables of the `ddl/` scripts; rows dropped without a word |
| `qgen` (`qgen.c`, `varsub.c`) | parameters, seeds, `in_comment` | `main`, `varsub`, `qsub`, `strip_comments` | static arrays, loops that draw again, comments over lines |
| `parse_query` (`main.c`, `get_statement.c`) | the position in the file, the number of the query | `get_statement` | statements that span lines, queries of several statements |
| Refresh functions (`run_rf1.sh`, `run_rf2.sh`) | counter files, semaphore files, tables | RF1 inserts a set, RF2 deletes one | two scripts sharing files, exits that skip the clean-up |
| Throughput test (`throughput_test.sh`, `run_throughput_stream.sh`, `timeout.sh`) | `run_number`, the table of times, background jobs, the server | streams, the refresh stream, the timeout, stops and starts of the server | jobs that outlive the script that started them, `wait`, one server that several scripts restart |
| Power and load test (`power_test.sh`, `load_test.sh`, ...) | run numbers, timestamps | phases in order | failure of one phase |

How they interact: the scripts call `dbgen` (data before the load, update sets before the
refresh functions) and `qgen` as programs; `dbgen` processes share nothing but files and what
`fork` copies; the refresh functions, the streams and the timeout share the database and files.
The files of `dbgen` are read by the database by column, and its keys refer from one file to
another; the output of `qgen -c` is the input of `parse_query`.

What makes each part correct:

* streams: `set_state`'s jump over *n* rows lands exactly where `row_stop` leaves the streams
  after *n* rows, for every table and every stream a row of it depends on; a row never draws
  more than is reserved for it, and a jump over *n* numbers is *n* single steps;
* data generation: the parts are together the rows of a serial run, each once and in order,
  whatever the interleaving; what was given up is known; the program ends;
* rows: every key names a row of its table, what an order says of its dates agrees with the dates,
  and each value has room in the column it is loaded into;
* update sets: the orders inserted have keys that were not loaded, the ranges deleted are keys
  that were, no set overlaps another;
* `qgen` and `parse_query`: a query is its template with its own parameters, made in any list of
  queries; each of its statements is executed once, between the times of its own number;
* refresh functions: a set is made before it is used, taken by one run of RF1 and later by one of
  RF2, none is left out, and every script ends - whoever starts them, and when;
* throughput test: the end of a query is set in its own row, whatever else writes the table; a
  query without times is reported; results do not change after they are reported; the test ends.

## 2. Modules

| Module | What it is |
|---|---|
| `Streams` | pure: stream positions, the `sd_` functions, `set_state`, the draws of one row, `row_stop` |
| `Dbgen` | the state machine of a run of `dbgen` that makes the data set; EXTENDS `Streams` |
| `DataSet` | what such a run promises: the abstract specification `Dbgen` implements |
| `UpdateSets` | the state machine of a run of `dbgen -U` that makes update sets, of either release |
| `Refresh` | the refresh functions RF1 and RF2, any number of runs of them at a time |
| `Throughput` | throughput tests one after the other, their streams and background jobs, on one server |
| `Calendar` | pure: the three forms of a date, and the calendar they are compared with |
| `Rows` | orders with their lineitems, parts with their suppliers, the array of dates; EXTENDS `Calendar` |
| `Distributions` | a distribution read from its file, drawn from, and permuted |
| `Text` | comments and addresses: their lengths and their draws; INSTANCEs `Streams` for the boundaries |
| `Bcd` | addition, multiplication and division of decimal digits, digit by digit |
| `Printing` | a row printed, in columns or with separators, or added to the checksum |
| `Generator` | single steps of both generators and the three ways to jump |
| `Tools` | the newer `dbgen`: commands for the steps of a data set or for update sets |
| `Qgen` | the parameters of the queries of a stream |
| `Template` | a template's lines stripped of comments and written with a meaning for each tag |
| `ParseQuery` | the lines of `qgen -c` split into timed statements |
| `MCDbgen`, `MCUpdateSets`, `MCRefresh`, `MCThroughput` | the instances TLC checks |
| `MCKit` | the instances of the modules from `Calendar` to `ParseQuery` and of `UpdateSets`, one of which runs at a time |
| `*_proofs` | the theorems, section 4 |
| `Arithmetic` | lemmas about natural numbers: induction, remainders, powers |

### Streams

All 48 streams use one multiplicative generator, so a stream's value is its initial seed and
the number of draws made: its *position*, which is what the model keeps. `Boundary` is
`Seed[].boundary`, the draws reserved for a row. A row draws `Usage` (from the code of the
`mk_` functions: the constant draws exactly, the variable ones any number in `VarDraws`, the
lineitems of an order in `LineCounts`); `AfterRow` is the row with `row_stop`, which jumps by
boundary minus usage - backwards when a row drew too much. `Advance` is `set_state`: `steps`
times the table's own `sd_` function and that of its detail table, each call a `Jump`.
`Jump` has the code's limit: a shift above the modulus is reported and then truncated to 31
bits. `Reads(t)` is the set of streams the printed row depends on.

### Dbgen

`opt` is the command line (`-T`, `-s`, `-C`, `-S`, `-f`). Process 0 is
the program without `-S`; processes 1.. are its forked children, or the steps the user starts.
`pc`, `tbl`, `row`, `left`, `pos` are the control state of `main`, `pload` and `gen_tbl` in each
process, `seed` its copy of `Seed[]`, `buf` its stdio buffers, `disk` the files. `c` is the
counter of `pload`. `lost` (parts given up) and `crashes` are history.

| Action | Code |
|---|---|
| `Serial`, `Partial` | `main` for a table not partitioned; `partial` with `set_files` and `set_state` |
| `StartLoad`, `Fork`, `ForkFails`, `Reap`, `EndLoad` | `pload` (`kill_load` is nothing: see *Observed*) |
| `GenRow` | one pass of the loop in `gen_tbl`: `mk_*`, `pr_*` with `print_prep`/`tbl_open` for the first row, `row_stop`; stdio keeps the row or writes what it has |
| `Refuse` | `tbl_open` asks and the answer is no |
| `EndTable`, `Drain`, `Exit` | `gen_tbl` returns; `exit` flushes file by file |
| `Die`, `Rerun` | the environment: a process is killed; the user starts a step again |

A file is the set of its rows, each with its place, so that a truncation by one process and a
later write by another leave the hole they leave on disk. The initial state may hold files of
an earlier run (`Stale`).

### UpdateSets

`opt` is the command line: `-U`, `-S` (which set), `-r`, `-i` and `-d` (segments), `-O d` and
`-O r` (how the keys to delete are printed), and which release (`newer`). `upd_num`, `upd_i`, `upd_count`,
`mode`, `rows_this_segment`, `segment`, `upd_start` and `upd_last` are the variables of `main`, `gen_tbl`,
`print_prep` and `pr_drange`; `mode` is `gen_tbl`'s packing of set number and segment.

| Action | Code |
|---|---|
| `UpdateInit` | `main` up to its loop: `set_state(ORDER, scale, 1, 2)`, in tpch_tools `(ORDER, scale, 100, 101)`, and the skip to the set of `-S` |
| `StartSet`, `InsertRow` | `gen_tbl` in the updates branch: `mk_order` with `mk_sparse`, the segment counters, `print_prep` when the mode changes |
| `StartDelete`, `DeleteRow`, `EndSet` | `pr_drange`: ranges, SQL or keys, its own segment counters, the last range |

The streams are abstracted to the row they stand at, one position for the orders and one for the
lineitems. `bm_utils.c:576` calls `gen_seed` with one argument of two: how far the orders' streams
then jump is a choice from `Junk`. The 10000 that the code uses for basis points *and* for the
packing of segments is the constant `Units`, the 100 parts of tpch_tools are `Parts`.

### Refresh

Each number in `1..Runs` is one invocation of `run_rf1.sh` or `run_rf2.sh`; `pc[p]` is the command
it is at, `set_num`, `set_num_rf1` and `max_set` its shell variables, `gen` how far its `dbgen` has
come. Shared are the number files `curr_set_file_rf1`, `curr_set_file_rf2` and `max_set_file`, the
semaphore files `lock_file`, the `files` of each update set, and what was done to the database.
`Caller` says who starts the scripts: `throughput_test.sh` one after the other, RF1 and RF2 in turn,
or users at any time.

*Locks.* `lockfile.sh`, which both scripts name, is not in the repository. `lockfile_create` and
`lockfile_remove` are modelled from how they are used: wait until the file is not there, make it;
remove it. Without the file, `run_rf2.sh` would stop at its line 12; that it is there is an assumption
of the model. `run_rf2.sh:12` reads it into its shell. `run_rf1.sh:11` *runs* it, which defines
nothing in the script that goes on: its calls of `lockfile_create` and `lockfile_remove` are commands
that are not found. Its first lock, line 39, is `lockfile-create`, a program of that name if there is
one: it makes a file with a suffix of its own (`rf1.lock.lock`), which nothing removes and
`lockfile_create` does not look at, and a later call of it may take time and fail, after which the
script goes on. So `Locking`, the scripts whose calls do something, is `{RF2}`, and RF1 holds nothing at
any time.

| Action | Code |
|---|---|
| `Start` | a script is started; in a test, in turn |
| `Lock`, `Unlock` | the calls of lines 39, 48, 50, 68 of RF1 (which do nothing) and 37, 44, 46, 63 of RF2 |
| `Check1`, `GenSet`, `Generated` | the first or later call of `dbgen -U` |
| `OpenMax`, `EchoMax`, `OpenCurr`, `EchoFirst`, `EchoSet` | `echo n > file`: the shell empties the file, then the number is written |
| `Read1`, `ReadMax` | RF1 reads the numbers |
| `Check2`, `Read2`, `Write2` | RF2 reads the numbers and takes its set, or leaves |
| `Load...`, `Insert...`, `Delete...`, `Drop`, `SqlError` | one statement of SQL each |

Because RF1 holds nothing, each of its reads and writes of a file is a step of its own, and the file is
`Empty` for a moment. Who reads nothing then has `expr` count from 0, and `[ m -gt n ]` fails with an
error, which `if` takes for false. RF2's own number is read and written between `lockfile_create` and
`lockfile_remove`. Making update sets is two steps for each set (its files are emptied, then complete),
since `dbgen -U` makes all sets up to the number again; two of them at the same time leave the files
complete only if none of them is at work on the set. Its exit status is ignored: when `DbgenFails` it may
end at any point. A script's SQL may fail when `SqlFails`. `min_set`, which is only printed, is left out.

### Throughput

A test `t` is one run of `throughput_test.sh`, `<<t, s>>` one of its `run_throughput_stream.sh` in
the background. `Plans` are the command lines of the tests that the user starts in turn: with
`-nr` or not, `-qrst`, refresh, `-time`. `pc` and `spc` are the places in the scripts, `i`, `q`,
`k` their loop variables, `TAG` and `run_number` the tag and the file it comes from,
`time_statistics` the table, a set of rows. A row has a key (tag, stream, task, run), which is
what the code's `where` clauses compare, and `by`, the batch that inserted it, which is history;
`e_time` holds the batch that set the end, or `NoTime`.

| Action | Code |
|---|---|
| `Start`, `StopDb`, `StartDb`, `Optimize`, `StartStream` | `throughput_test.sh` up to the streams |
| `RfInsert`, `RfRun`, `RfUpdate` | the refresh stream in the foreground; the work of RF1 and RF2 is `Refresh` |
| `Wait`, `Report`, `Interrupt` | `wait`, the rest of the script, the `trap` |
| `BatchInsert`, `BatchUpdate`, `Check` | the batch script of a query and the look-up of its duration |
| `StreamStopDb`, `StreamStartDb` | `-qrst` |
| `Timeout` | `timeout.sh`, in its loop |

A command that needs the server (`Try`) fails when it is down, or by itself, `MaxFails` times in
all. `er` in a test leaves its streams running; the next test may be started meanwhile and, by
default, restarts the server under them. `timeout.sh` only loops: with the default profile the
client prints a table (`-t`), `timeout.awk` takes the bar at the beginning of its lines for a
number, and the script finds 0, no connection, always.

### Calendar, Rows

`Calendar` has the three forms of a date: a number of days after STARTDATE, the Julian form `yyddd`
that `julian` makes of it (and that comparisons use), and the date printed, which `unjulian` and
`mk_time` make. `Rows` makes one row at a time: `MkAscdate` fills the array of dates day by day,
`MkOrder`, `MkLine` and `EndOrder` are `mk_order` with its loop over lineitems, `MkPart` is
`mk_part` with its four suppliers. A draw is a choice of its whole range, or of a set given by a
constant where the range is large. `Mortal` is the loop that keeps customers whose key three
divides out of the orders.

### Distributions

`ReadLine` and `ReadEnd` are the loop of `read_dist`: sections by name, comments, the count, members
whose weights become cumulative sums, the exit if the count and the members differ. `pick_str` is
an operator on the list read. `StartShuffle`, `Shuffle` and `ShuffleRest` are `permute` of either
release; `TakeFirst`, `TakeNext` and `TakeAll` are `agg_str`, which reads the permutation from its
start.

### Text

`DrawLength` draws the length of a column. `AddSentence` is the loop of `dbg_text`: a sentence of
`txt_sentence`, built of noun and verb phrases, of which only the length and the number of draws
are kept, appended or cut off. The constant `Vocabularies` gives the lengths of the words there
are, of each kind between the shortest and the longest of `dists.dss`, and `TextLengths` those that
are drawn. `AddCharacter` is `a_rnd`, one draw for five characters. In
tpch_tools `StartPool` fills the pool once and `ReadPool` takes a piece of it. `EndText` ends a
column; its draws are compared with the boundaries of `Streams`.

### Bcd

A number is a function from places to digits. `Call` begins an operation, `AddDigit`, `MulDigit`
and `DivDigit` are the bodies of the loops with their carries, `Return` gives the result back.

### Printing

`Printer(t)` has the columns in the order of the `pr_` functions, with formats, widths and the
lengths of values, which follow from the ranges of `dss.h` at the scale `PrintScale` (`P_MAX` to
`L_MAX`), and the largest number of each, in thousands, because the keys of orders outgrow 32 bits (and
the integers of TLC); `ddl(t)` those of the `CREATE TABLE` statements; `Verifier(t)` what is added to the
checksum; `Lines(t)` the tables an entry of `tdefs` makes rows of. `ChooseTable` is `main` with
its options, `StartPrint` the call of a printer, a load routine or a verifier in `gen_tbl`, with
the header of a new file; `PrintField` and `EndLine` are `dbg_print` column by column, `VerifyField`
and `EndVerify` the `vrf_` functions, which add to `vtotal`, `LoadRow` the stubs of `load_stub.c`.

### Generator

`CallShift`, `ShiftMask`, `EndShift` are `RND_seed` and `RND_shift` of `src/src/dbgen`; `CallNth`,
`NthElement`, `EndNth` those of tpch_tools; `CallAdvance`, `HighestBit`, `NextBit`, `EndAdvance`
are `AdvanceRand64`. `NextRand31` and `NextRand64` are single steps, the reference.

### Tools

The newer `dbgen`. A command line with several steps is the commands that a user gives one after
the other. `Choose` and `Refuse` are `process_options` and `validate_options`; `MainTables` and
`MainUpdates` the two branches of `main`, `SkipTable` a table of its loop that `-T` leaves out,
`BeginTable` and `BeginSet` what they do before
`gen_tbl` (`partial` and `set_state`, or the skip over sets), `MakeRow`, `EndRows` the rows of
`gen_tbl` with `row_start`/`row_stop`, `EndCommand` the exit. A row written is where each stream
that it depends on stood.

### Qgen, Template, ParseQuery

`Qgen` is the part of `qgen` with numbers: `Setup` (the seeds of each query), `Substitute` and
`EndSubstitute` (`varsub`, rule by rule, with the loops that draw again), `Parameter` and
`EndQuery` (the tags that ask for parameters). A parameter is the number drawn.

`Template` is the part with lines: `StartOutput` and `StartQuery` (`main`, `qsub` opening a
template), `NextLine`, `CommentEnds`, `CommentGoesOn`, `CommentDashes`, `CommentBegins`,
`NoComment` (the branches of `strip_comments`), `Substitution` (the tags of `qsub`) and
`EndTemplate`.

`ParseQuery` reads what such a query looks like: `OpenFiles`, `SkipBlank`, `ReadComment`,
`ReadTransaction`, `ReadSql` and `ReadEof` are the branches of `get_statement`; `WriteBegin`,
`WriteStatement`, `WriteEnd` what `main` prints, with the time statements of a power or
throughput run, and the line of `SQL_COMMIT`, which is empty for MYSQL (`db.h:87`). `statement` has 1024
characters and `comment` 256 (`common.h:20-21`), and both are filled without a bound; the model's have no
end. The longest query of `queries/`, Q19, has some 900.

## 3. What TLC checks

| Run | Instance | Properties |
|---|---|---|
| `dbgen` | every `-T` table alone: at scale 3, and for orders and lineitems 5, by two children; customers by three, of whom the last makes all rows; the pairs at 3 and 5, tables that borrow a stream or have an empty part at 2, by three steps. Together, at scale 1: the default tables by two children; PART/PARTSUPP without `-f`; no children; two steps, side by side, on NATION, of two rows, and REGION (shared files) and on PART/PARTSUPP; a process killed anywhere, its step started again; a fork fails; an overwrite refused. Orders of 1 and 7 lines, few draws and as many as the boundary | `TypeOK`, `RowsAsSerial`, `CompleteOnExit`, `NothingBufferedAtFork`, `Terminates`, `IsDataSet` |
| `dbgen_wrap` | a part whose jump passes the modulus (both scaled down) | `RowsAsSerial`, violated |
| `upd_roll` | one set more than delete the loaded orders | `DeletesLiveAfterRollover`, violated |
| `rf_test` | ten runs in turn, as the throughput test starts them; batches of two sets; SQL may fail | `TypeOK`, `Applied`, `NoGap`, `Finishes` |
| `rf_user` | three runs at any time, batches of one set, `dbgen` may fail | `RF2Apart` |
| `rf_sets` | two runs at any time | `RF1Apart`, violated |
| `rf_hang` | RF2 before RF1 | `Finishes`, violated |
| `thr_test` | two streams of two queries; a test and a second one with a restart of the server; a test with refresh; one with `-qrst`; one with a timeout; one failure or interrupt anywhere | `TypeOK`, `OwnEnd`, `Accounted`, `ReportFinal`, `Ends` |
| `thr_wait` | one test with a timeout in which nothing fails | `TimedEnds`, violated |
| `thr_qrst` | one test of two streams with `-qrst` in which nothing fails | `RestartBetweenBatches`, violated |
| `print_large` | orders and lineitems at scale 1000 | `RowLoads`, violated |
| `kit` | one of eleven small programs, below | 23 properties, below |

`MCKit` has an instance of each module from `Rows` to `Tools`, and of `UpdateSets` (that of `MCUpdateSets`). They share nothing, so `part` says
which one runs and the others stay where they begin.

| Module | Bounds | What is checked |
|---|---|---|
| `Rows` | scale 101; first and last days of orders and the three days from which the current date can be told apart; customers and parts at both ends; 2 lineitems; all 2557 dates | `KeysRefer`: the suppliers of a part are four and different, a lineitem's is one of them, no order is of a customer without orders, and every key names a row. `DatesAgree`: the flags of lineitems and the state of the order agree with the dates printed. `CalendarExact`: the array of dates goes from one day to the next |
| `Distributions` | files with the section first, last, missing, cut off, too short; 4 members, 3 colours, every draw, every permutation | `DrawnByWeight`: what was read is the section of that name, and a member is drawn for as many numbers as its weight. `ColoursDiffer` |
| `Text` | the columns but `O_CMNT` and `C_CMNT`, which lie between the others, of their shortest and longest length; sentences of the shortest words, of the longest, and of short words with verbs of both lengths; a pool of 300, read at every place | `TextLength`: a text fits its array and is as long as drawn. `DrawsReserved`: and draws what `rnd.h` reserves |
| `Bcd` | 4 digits, carries over none, some and all | `BcdExact`: digits stay digits; they and the carry or the remainder returned are the sum, the product, the quotient |
| `Printing` | scale 300; every table and the two pairs, every column at its shortest or longest, -O m, -O h, -O v, -D, both releases | `RowLoads`: each value comes to the column of its name in the table it is loaded into, and fits, in characters or in the range of an `INTEGER`; rows in columns are of one length; with -D every table that is dropped is named once. `ChecksumCovers`: every value of every row is in the checksum, up to the price that makes it forget those before |
| `Qgen` | modulus 127, multiplier 3; six seeds, from which the second nation or ship mode is the first one once or more; all 22 queries, a permutation, and some | `OwnParameters`: a query gets the parameters drawn for it, from its own stream. `ParametersDiffer`. `QgenEnds` |
| `Template` | the shape of the files in `queries/`, and braces over lines; twice three queries, all sets of options | `QueryIsTemplate`: a query is the text of its template outside comments, in order, with a meaning for each tag |
| `ParseQuery` | queries of one to three statements, one of three first and last; all run types | `Executed`: each statement whole and in order, between the times of its own query, and nothing else |
| `Generator` | modulus 31, 64 numbers; four seeds; every jump over a period, back and forth | `JumpIsSteps`: a jump over *n* is *n* steps |
| `Tools` | scales 0.5 to 2, 0 to 3 steps, tables whose rows the steps divide and not, update sets, options that exclude each other | `ToolsAsSerial`: a row is drawn where one command for all draws it. `ToolsComplete`: the commands together make each row once |
| `UpdateSets` | 20 orders, 20 units; sets of 10, 7 and 3 orders; keys and ranges; 0, 1, 3 and 5 segments; from the first set or a later one; as many sets as delete the loaded orders once, or up to 19; both releases | `InsertsFresh`: every inserted order has a key of its own, which was not loaded. `DeletesLive`: what RF2 deletes was loaded and is deleted once. `Balanced`: as many as RF1 inserts. `SegmentsEven`: files of one size. `DrawnBeyondScale`: a set is drawn where nothing loaded is |

*Bounds.* The parts of a table are independent but for the first and the last: with 3 parts
there is a first, a middle and a last one; one or two base rows divided among two or three parts leave
remainders that the scale multiplies, parts without rows and tables shorter than their number of parts.
All tables are there, since each has its own `sd_` and `mk_` functions. A process is killed once, at any
point, in the command lines whose processes meet in a file or make several tables (`MaxCrashes`, a
bound for each command line). The number of processes and of
rows is what TLC bounds; for stream positions the theorem below has no bound. Sets of 10, 7 and 3
of 20 units: one that divides the units and two that do not; a group of sparse keys is eight, so
that a set begins and ends inside one; five segments are more than three rows. The sequence number
changes every `Units / refresh` sets, and the numbers of the sets go up to `Units`, where it
starts again. Ten runs over batches of two make new sets twice; batches of one, in `rf_user`, make them in
every RF1, so that each set is made while another is in use. Three runs are two that compete for a set
and one that is ahead of them. In `rf_user` a script may wait for ever for a file that an earlier
exit has left: that run does not check for deadlock. Neither does `kit`, whose programs end. Scale 300
is the largest of the compliant scales at which the keys of orders have room in their columns. In `Throughput` a race for a row needs two streams, and for the
server two tests: the orphans of the first and the second one. One failure or interrupt makes an
orphan; two queries make one that follows a failed one. `MaxFails` is 1. At scale 101 the last
parts have gone through the suppliers twenty times, each time further apart; from some of the six
seeds of 126 `qgen` has to draw again.

*Fairness.* `WF(Load1(p))` for each process and `WF(Parent)`: a process that can run is
scheduled. Nothing is assumed of kills, failing forks, answers or reruns. `Terminates` is
checked under it: `pload` waits as often as it forked, and a killed child counts. In `Refresh` it
is `WF` of each script's steps: one that was started is scheduled; nobody has to start one. In
`Throughput` it is the same, for tests and streams, and says that a query ends; that somebody
interrupts a test is never assumed. In `MCKit` it is `WF(RunQgen)`, a program that is left to run;
that its loops come to an end is the generator's doing, for the seeds that it can be given
except 0.

*Findings.* `dbgen_wrap`: from 2272470 orders in one part (scale 4 in two parts) the jump of
`L_CMNT_SD` passes 2^31 - 1; `NthElement` prints "Bang!" and goes on, and the later part differs
from the serial run. `upd_roll`: the set after the loaded orders are deleted names keys that no
one inserted: RF1 gave the first sequence number to the rows of the first sets only. `rf_hang`:
`run_rf2.sh` leaves through `exit 1` with its semaphore file still there, as its own message
"please run run_rf1.sh first" invites the user to find out. `rf_sets`: two users' RF1 read the same number
and take the same set, since `run_rf1.sh` locks nothing where it says "only one process can access"
(`run_rf1.sh:37`). `print_large`: at scale 1000 order keys go up to 6000000000,
and the columns `o_orderkey` and `l_orderkey` to 2147483647, which they pass after scale 357; `dss.h:383-386`
declares scales up to 1000, and the change of the schema that `Makefile.am:7-8` asks for from scale 300 on
(`build.c:112` counts on 32 bits up to 300) is for a script that this kit does not have. `thr_wait`: `wait` without arguments
waits for `timeout.sh` too, which never ends, so the lines that kill it are not reached and a test
with `-time` writes no results. `thr_qrst`: `-qrst`, "restart DBMS between batches", stops the
server between the batches of one stream, in the middle of those of the others.

### Observed, and kept in the models as it is

Data generation.
A part of no rows is never opened, so a stale file of
that name stays (`CompleteOnExit` excepts it); answering no to the overwrite question is
`exit(0)`; a child's failure does not change the exit code of the parent. When a fork
fails, `kill_load` calls `KILL(pid)`, which is `kill(SIGUSR1, pid)` with the arguments the wrong
way round (`config.h:149`): it stops nobody, and the children finish their parts after the parent
has left.

Update sets.
`bm_utils.c:576` calls `gen_seed` with one argument of two, so that the streams of the
orders in update sets stand a few rows further than `set_state` put them, or many: the sets are not
the same from build to build (`DrawnBeyondScale` claims what is left). With `-O d` the first
range of each set that `pr_drange` prints is empty and the last range is never printed
(`print.c:480`), so `Balanced` speaks of the other two ways. After set 9999 the
sequence number starts again and, with a refresh percentage such as `-r 11`, meets its
predecessor's keys: `InsertsFresh` and the properties of the files stop there. `hd_sparse` masks the word of a BCD number with
`low_mask` as if it were binary, so that at scales beyond 32 bits orders 8 and 10 get the same key;
`Bcd` has the arithmetic only.

Update sets of tpch_tools. `rowcnt` divides before it multiplies. `pr_drange` takes the sequence number of the
set itself where the older one takes that of the set before, so that the last set of a sequence
number deletes keys that were never loaded (`DeletesLive` excepts them). Its delete segments are
filled with `rows / n + 1` rows each, in order: ten rows and `-d 5` give 3, 3, 3, 1 and no fifth
file (`SegmentsEven` and `Balanced` speak of the segments that there are). The extra rows of
`set_state(ORDER, scale, 100, 101)` are skipped for the orders' streams and not for the lineitems'.

Refresh functions. While a user's RF1 has emptied its file and not yet written to it, RF2 finds the file,
reads nothing, and the comparison that should stop it fails with an error: it deletes for a set that no RF1
has taken. When `dbgen` fails, the numbers are written as if it had not, so that the sets are never made;
`TestApplies` and `TestNoGap` assume that it does not fail. For sets 13 to 24 `dbgen -U 24` empties
and writes the files of 1 to 12 again, which another user's RF1 may be loading, half of them then.
The number files live in the run directory of one
test and the database does not: a second test inserts set 1 again. When two users' RF1 find no file, both
make the first sets, and the second `echo 0` sets the number back.

Throughput test. RF1 ends its row by tag, task and run number (`run_rf1.sh:87`), which all
refresh streams of one test share: each sets the end of those before it, and `OwnEnd` leaves them
out. A query that fails in its batch is not seen: the batch's exit code is that of the last
update. Only a missing row is (`Accounted`), and with `-qnr 2` the row of the first run hides that
of the second. `start_db.sh` ends with `sleep`, so that a server that does not start is not
noticed. `run_number` is read and written without a lock; the tests of the model start one after
the other.

Rows. With few suppliers (10, say) the four suppliers of a part are not always different:
`PART_SUPP_BRIDGE` needs more than 228, which scale 1 has.

Printing. `VRF_MONEY` assigns where the other macros add, so that with money in a row the checksum
forgets the rows before; what `-O v` prints for two tables at a time is the total of a table that
nothing adds to. With `-O m` a negative balance makes its row one character longer. tpch_tools
prints a separator after the last column. `ChecksumCovers` and `RowLoads` claim what holds with
these.

qgen. `-r 0` gives every query the seed 0, which the generator maps to itself: the loops of queries
7 and 12 never end. The seed of query *i* + 1 is the number after that of query *i*, so the queries
draw the same numbers, shifted by one. `:n`
goes on without setting its mark: what comes before it on the line is printed twice and the rest
of the line is lost (in `queries/` nothing but a semicolon). A dash before two dashes hides a
comment; text before a brace that opens on the line where another one closed is lost.

parse_query. It returns 1. Lines are read in pieces of 127 characters, and a piece with neither a
semicolon nor an end of line is dropped. Query numbers need `qgen -c`.

tpch_tools. `-S` beyond `-C` is not refused: it makes rows beyond the table's last; one below zero
makes rows before its first, and `-S 0` makes none. Every step writes the
nations and regions again. From scale 30000 on, keys are drawn with 64 bits while streams are
jumped over with 31: steps then differ from a serial run, and `Tools` stays below.

## 4. What is proved

`Dbgen_proofs`, for every `Base`, number of processes, set of command lines (scales included) and
number of crashes:

* `SeedsAsSerial`: `Spec => []RowsAsSerial`;
* `TypeCorrect`: `Spec => []TypeOK`;
* `NothingCopied`: `Spec => []NothingBufferedAtFork`;
* `CompleteFiles`: `Spec => []CompleteOnExit`;
* `Implements`: `Spec => IsDataSet`, the refinement of `DataSet`.

The first two and the last assume `NoWrap`: no part is so large that a jump over it passes the
modulus. It is needed: `dbgen_wrap` is the counterexample without it.

The argument. `RowsAsSerial` speaks of files only, so it is not inductive. `IInv` adds where each
process is (`Placed`), that the streams of the tables a process has not reached are where they
began (`Fresh`), that a process in `gen_tbl` is at `Boundary(s) * (row - 1)` for every stream of
its table (`AtRow`), and that buffered rows are exact too (`BufExact`). The facts about the
operators of `Streams` come first there: `RowAligned` (a row and `row_stop` move each stream by exactly
its boundary, whatever was drawn, more than the boundary
included), `SkipAligned` (`set_state` moves it by rows * boundary per
step), `TablesApart` (tables one command can ask for share no stream: the "assumes that tables
are completely independent" of `bm_utils.c`). One lemma per action follows.

`NothingCopied` has an invariant of its own, `ParentInv`: the parent makes rows itself only of
NATION and REGION, which come after every table it forks for (tables are visited in the order of
their numbers), so its buffers are empty at each fork. Were a table that comes after them split among
children, the rows the parent still buffers would be written again by each child as it exits.

`CompleteFiles` is about every file at the end, and the invariant `FInv` says what is in it before.
A file has its *writers* (the process of the part, or all steps for NATION and REGION). What a
writer has printed is on disk or in its buffer (`Written`), or the writer is still to open the file, or
will never end well (`Ahead`); and unless all of them are `Ahead`, every row in the file is a row of
its part (`Belongs`), none of an earlier run. One writer that is `Ahead` or has `Written` is enough
(`FileKept`): a step that opens NATION again truncates what another has written, and takes it upon
itself to write all of it. `Family` counts the children, so that `EndLoad` finds each of them at its
end; `PartEnds` and `PartsAddUp` are the arithmetic of the parts.

`Implements` goes step by step. `Rooted` adds that each row of this run, in whatever file, is a row
of that file's part; since parts do not overlap (`PartsOrdered`), a row has one place or none
(`CopiesAre`). A step leaves the files alone, or touches one file of one table (`NextMoving`): it
empties it (`DS!Reopen`), or keeps the rows that are there and may add some (`DS!Produce`). The end of the
last process is `DS!Finish`, because `FInv` leaves no row out (`AllThere`), or `DS!Fail`; a step
started again is `DS!Resume`.

`UpdateSets_proofs`, for every base, scale, refresh percentage, number of segments, set of `-S`, of
both releases, and whatever the call with one argument jumps over:

* `BeyondScale`: `UpdateSpec => []DrawnBeyondScale`;
* `BalancedSets`: `UpdateSpec => []Balanced`;
* `LiveDeletes`: `UpdateSpec => []DeletesLive`;
* `EvenSegments`: `UpdateSpec => []SegmentsEven`;
* `FreshKeys`: `UpdateSpec => []InsertsFresh`, assuming `WholeUnits`: the base is a multiple of the units
  (1500000 is one of 10000) or no command is of tpch_tools, whose `rowcnt` rounds before it
  multiplies and would let the sets fall short of the sequence number.

`IInv` says where a run is between its sets and segments, and that each row stands at its own place.
`Keys` adds the key of each row made: that of its number *i* and of the sequence number of its set.
Later rows have sequence numbers that are not lower, and so higher keys (`KeysGrow`, `RowsApart`).
A loaded row has the key of an inserted one only if its number is eight further and the sequence
number four at least, so that it carries into the next group of keys (`SameKey`); by the time the
sequence number is four, the inserted rows are too near the end of the load for that (`LongEnough`,
`NotLoaded`).

The other three are about files. `FInv` says of each set, finished or in work, which rows are in
which segment: row *i* in segment *k* if it lies between `Cut(k)` and `Cut(k + 1)`, the sums of the
segments before, so that the counters of `gen_tbl` and `pr_drange` have a meaning between two rows.
For deletes it adds that the keys printed, with the range that is still open, are the keys of the
loaded rows passed. Rows and keys are counted by bijections with the numbers of the rows
(`FilesOfSets`), and deleted rows are loaded ones because the sets of one sequence number together have no more rows
than the table (`Capacity`). The sets before number `Units` only: the next one starts again at the
first rows.

`Kit_proofs` is about the components of `kit`. For any number of colours and members and any draws:

* `Colourful`: `DistSpec => []ColoursDiffer`. The invariant is that `perm` stays one-to-one through
  the exchanges of `permute`, finished or not.
* `Weighted`: `DistSpec => []DrawnByWeight`, for any file of any length, wherever the section is
  and whatever else is in it. `ReadInv` says what `list` holds at a line: the members between the
  first `BEGIN` of the name and that line, each at its place (`Holds`) with the sum of the weights
  up to it. Sums of weights that are not negative grow (`GrowsOn`), so the values that pick a member are
  those above the sum before it, up to its own (`PickedBy`).

For any scale, draws, lineitems of an order, and any lags from order to shipment, promise and receipt
within the ranges of the code:

* `KeysAlwaysRefer`: `RowsSpec => []KeysRefer`;
* `DatesAlwaysAgree`: `RowsSpec => []DatesAgree`.

`RowsIInv` says what a row holds between two passes of `mk_order`'s loop, and that `ocnt` counts its
lineitems shipped. The suppliers of a part differ (`SuppliersDiffer`) because `PART_SUPP_BRIDGE`
goes on each time by a quarter of the suppliers and at most 19 more, so that three times that is still less
than all of them; `MortalIs` shows that the loop over customers ends after two passes. Dates are
compared in the form `julian` gives them: `JulianIs` is what its loop makes of a day of the seven
years, and `DatesOrdered` that later days have higher numbers.

For words of any lengths between the shortest and the longest of their kind in `dists.dss`, any number
of sentences, any length of a column and any pool that holds the longest comment:

* `TextsFit`: `TextSpec => []TextLength`;
* `TextsDrawReserved`: `TextSpec => []DrawsReserved`.

A sentence is composed of parts, each within a `Bound` of draws and characters; bounds add up along a
form of the grammar (`ComposedIs`, `OneIs` to `FiveIs`), phrase by phrase (`NounPhrase`,
`VerbPhrase`) and then token by token. So every sentence has from 10 to 183 characters, less than
`MAX_SENT_LEN`, and at most twenty draws (`SentenceIs`). The invariant `TextIInv` says that a text of
*l* characters has drawn its length and at most 20 numbers for every 11 of them (`Drew`), where the
last sentence, cut off down to one character, counts for ten more, and an address one for every five
(`DrewString`); with the longest length of each column that stays below its boundary
(`ReservesText`).

For any multiplier, modulus, seeds and jumps:

* `JumpsAreSteps`: `GenSpec => []JumpIsSteps`.

A step is a multiplication modulo `GM` (`NextRand31` is Schrage's form of it), and *n* steps are one
by the *n*-th power (`After31Power`). The invariant `GenIInv` says what the squaring has come to:
in the two loops that read the bits from the lowest (`Halving`) or with a mask from the highest
(`Shifting`), the part of the power that is done and the bits still to come; in `AdvanceRand64`,
that `Apow` and `Dsum` are the power and the sum of powers for the bits read so far (`Doubling`). A
jump back is one of a whole period less, which is why the modulus has to be prime
(`PeriodAssumption`).

For any number of digits, any numbers and operands:

* `DigitsExact`: `BcdSpec => []BcdExact`.

`BcdIInv` has an invariant for each loop, over the digits below a place (`Low`) and above it
(`Above`, which is Horner's sum in `bcd2_bin`; `LowAbove` says that the two make up the number).
`Adding`: the digits done are those of the sum so far, with the carry at the next place.
`Multiplying`: the digits are congruent, modulo the place above the highest, to the number times the
digits of the multiplier done; digits that fall out of the fourteen are multiples of it
(`Beyond`). `Dividing`: the places done hold the quotient of the number cut off there, and the
carry its remainder.

`Query_proofs` is about `qgen` and `parse_query`. For any modulus and multiplier of Schrage's form
(`QgenAssumption`), seeds, rows of the permutation table that are permutations, and command lines that name no query twice:

* `ParametersOwn`: `QgenSpec => []OwnParameters`;
* `ParametersApart`: `QgenSpec => []ParametersDiffer`.

`Schrage` shows that the generator multiplies modulo `QM` though its products stay below it, and
`StepsAre` that *n* steps from the *m*-th number lead to number *m* + *n*. `QInv` says that the streams of the queries
to come are as `Setup` left them (`OthersUntouched`, which is why a query may not come twice); that
the stream of the query in work is at the number after those of the rules behind it, until a rule
has been drawn again or has permuted (`StreamAt`); and what each of those rules has made in
the static array (`Made`, `Exact`). Later rules leave it alone (`MadeStays`), and so does
the empty parameter that ends the list, except after a permutation, where `EndSubstitute` writes none.
`permute` exchanges members, so its array stays one-to-one (`PermutedInjective`). The
tables are gone through row by row (`RulesProper`, `TagsNamed`): a template names no
parameter beyond those its query has.

For any templates of the shapes in `queries/` (`Shaped`: a `:n` is the first on its line, a comment
in dashes has no dash of its own before it; braces, which no template there has, begin with a line,
do not nest and are closed), any options and any queries in any order:

* `QueriesAreTemplates`: `TemplateSpec => []QueryIsTemplate`.

`QueryIsTemplate` says which items are kept by looking at the whole template, `strip_comments` sees one
line and a static flag. `BracesIs` brings the first down to the line: an item is in braces if the line
begins in them, or with one that opens, and none has closed before it; `BracesOn` hands that
on to the next line, and `BracesEnd` says that no template ends in braces, so that the flag is down
again for the next query. What is kept of a line is then one piece of it (`RangeIs`, `KeptIs`), and each branch of
`strip_comments` leads to that piece (`StripEnds` to `StripNothing`). In `qsub`, `Tagging` says how
much of the piece is written: everything before an item, or, after a `:n`, the line. `TemplateIInv`
puts the lines together: at a line, what the lines before become is written, and the flag is up if
they end in braces and there is no `-c`.

For any queries of any number of statements over any number of lines, and all run types:

* `Replayed`: `ParseSpec => []Executed`.

`Executed` is an equation about the end, where `get_statement` has seen one line at a time. `ParseInv`
says at which line it is: between two queries (`Arrived`), in the lines of one before its statements
(`InHead`), in the *p*-th line of one of them or at its semicolon (`InLines`, `AtEnd`), or behind
them (`InTail`); and for each of these places what has been read of the statement, what the number of
the query is, and what has been written: the records of the queries before (`Before`), that of the
beginning (`Opening`) and the first statements (`Done`). `NextLine` finds the line that is next
in the whole file from the lines of the queries before (`LinesOf`), `FlattenIs` and `UpToIs` are what
putting sequences together means, one by one.

`Kit_proofs` and `Query_proofs` use `Arithmetic`: what holds of all natural numbers there is proved from the principle of the
least number, with sets in place of operators (`Induct`), and a recursive function is what its definition
says because each of its beginnings is (`Recursion`).

`Refresh_proofs`, for any number of runs, size of a batch, caller and failures of SQL and of `dbgen`, and
with the scripts as they are - RF2 locks, RF1 does not:

* `RF2NeverShares`: `Spec => []RF2Apart`;
* `TypesKept`: `Spec => []TypeOK`.

The inductive invariant of the first (`IInv`) adds mutual exclusion among the runs of RF2 (`Mutex`:
a run between `lockfile_create` and `lockfile_remove` of a file, `Holds`, is the only one, and the file is
there) and what a run may rely on meanwhile (`Numbers`: every set that RF2 has taken has a number up to the one
in its file, and a run that has read the number still agrees with the file). RF1 takes no lock and may
write its files at any time, but never that of RF2. The type is not inductive either: a set comes into
the database by its number, which has to be one that exists. That it stays within `Runs`, which bounds the
sets, needs no lock: the number in a file is at most the count of the runs that have read it and not of
those that are to come (`Counted`), each number has its run (`Owned`), and there are at most as many as
runs (`AtMostRuns`, the pigeonhole principle).

Two more assume a test (`Caller = "test"`), which starts a script when the one before has ended well,
and that `dbgen` does not fail, without which the files are not there:

* `TestApplies`: `Spec => []Applied`;
* `TestNoGap`: `Spec => []NoGap`.

`TurnInv` says that one run is the last and those before it are done (`InTurn`), and from its place
where the files, the numbers and the database are (`Where1`, `Where2`), as functions of the set whose
turn it is. It is about the last run only: a step keeps it (`TurnStep` and a lemma for
each action), and a start turns that of a run of RF1 into that of one of RF2, or the other way round
(`StartTurn`).

`Throughput_proofs`, for any number of tests, streams, queries and runs
of a query, any command lines and any number of failures:

* `EndsAreOwn`: `Spec => []OwnEnd`;
* `ResultsStay`: `Spec => ReportFinal`;
* `TypesKept`: `Spec => []TypeOK`;
* `NoneForgotten`: `Spec => []Accounted`, assuming `N_RUN = 1` (see *Observed*: `-qnr 2`).

A row's key does not name its batch, so `OwnEnd` is not inductive. `IInv` adds that tags are taken
once (`TagsApart`), that each row of a stream has an owner whose tag it carries (`OwnRow`), and that a
test has streams only between its start and its `wait` or its exit (`StreamsWithin`). Then what an
update finds by tag, task, run and stream is the row of the batch that updates; and since a step
changes rows of one tag only, that of a test that has no results yet (`StepOneTag`), results stay.
`Account` adds, for each stream, which queries are behind it (`Bounds`) and that each of those has
a row of its own with an end, or was printed (`Mine`).

`Tools_proofs`, for every set of command lines, scale, base and part of a set:

* `Serial`: `ToolsSpec => []ToolsAsSerial`, assuming `StepsWithin`: no `-S` beyond `-C` and none
  below zero (see *Observed*).
* `StepsMakeAll`: `ToolsSpec => []ToolsComplete`, assuming also `StepsOnce`: of `-C C` each of
  `-S 1` to `-S C` is given once, in any order, and `-S 0` perhaps.

`TInv` is the counterpart of `IInv` above: in the loop over tables the streams of those to come are
where `rnd.h` has them (`Untouched`), and those of the table in hand, or for an update set of orders
and lineitems, where the rows before it leave them (`At`). That a row and a skip over one move the
streams a table depends on alike is `RowMoves` and `SkipMoves`, with the two streams of orders that
lineitems share; `TablesApart` is that of the tables one command makes no other depends on such a
stream; `SetState` and `SetUpdates` are the sums over the steps, and over the 100 parts that `-U`
skips.

`CInv`, for `StepsMakeAll`, says what is written: of each table the pieces (`Below`, `UpTo`) of the
steps whose commands have ended (`Past`: those that are no more to be given), and of the command in
hand the rows it has made so far (`MadeNow`). That the pieces, whose sizes are rounded, overlap
nowhere and leave no row out is arithmetic for every number of rows and steps (`PiecesApart`,
`PiecesCover`). Of the nations and regions, which each step makes again, it says only that they are
there. For update sets the rows are those of the sets from the first one asked for (`InSet`).

Only model-checked: `RowLoads` and `ChecksumCovers`, whose run has every table and column of the
code; `CalendarExact`, whose run has all 2557 dates; and liveness (`Terminates`, `Finishes`, `Ends`, `QgenEnds`), which is
beyond the prover.

## 5. Not modelled, and what could follow

* Power and load test: phases one after the other in the foreground, with nothing beside them.
* `src/dbgen`, the older copy: it differs in a few lines of options and formats; the scripts for
  other databases repeat those for MySQL.
* Data collection and reports: formatting of statistics.
* Of `dbgen`: headers (`-h`), `-O s`, the values of names and addresses; the sparse keys of
  `hd_sparse`. Of tpch_tools: its files, which are opened and named as in `Dbgen`.
* Of `qgen`: the files of `-i` and `-t`, the log of `-l`, the wording of `-v`. `get_time` prints the
  clock. Of `bcd2.c`: what nothing calls.
* Of the refresh functions: the `mysql` client and what its statements return. Of the throughput
  test: profiling, system statistics, the numbers in the report, and what `timeout.sh` would do
  with a client that prints no bars.

`PROJECT.json` lists every component. What could follow: proofs of the other properties of `kit`.
