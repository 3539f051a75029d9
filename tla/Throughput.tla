---------------------------- MODULE Throughput ----------------------------
(***************************************************************************)
(* The throughput test (scripts/mysql/throughput_test.sh) with its streams *)
(* (run_throughput_stream.sh), its refresh stream and its timeout          *)
(* (timeout.sh), all writing into one table, time_statistics.              *)
(*                                                                         *)
(* The streams and the timeout are background jobs.  A test that leaves    *)
(* early (er, or an interrupt) leaves them behind, and the next test may   *)
(* be started meanwhile, on the same server.                               *)
(*                                                                         *)
(* timeout.sh is only a job that never ends: the default profile has the   *)
(* client print a table (-t), in which timeout.awk takes "|" for the       *)
(* number of the connection, so that no query is ever marked or killed.    *)
(* Left out: the work of the refresh functions (Refresh), profiling,       *)
(* statistics of the system, and the numbers in the report.                *)
(***************************************************************************)
EXTENDS Integers

CONSTANTS
  Tests,         \* how many times the test is started at most, one after the other
  NUM_STREAMS,   \* -n
  Queries,       \* how many queries a stream has
  N_OPTMZ,       \* -qno: the times that each query is explained
  N_RUN,         \* -qnr: the times that each query is run
  Plans,         \* the other options of the tests that a user starts
  MaxFails       \* how much goes wrong by itself: failures while the server is up, interrupts

Command == [restart : BOOLEAN, qrst : BOOLEAN, refresh : BOOLEAN, timeout : BOOLEAN]

ASSUME ThroughputAssumption ==
  /\ Tests \in Nat \ {0} /\ NUM_STREAMS \in Nat \ {0} /\ Queries \in Nat \ {0}
  /\ N_OPTMZ \in Nat /\ N_RUN \in Nat \ {0}
  /\ Plans \subseteq UNION {[1..n -> Command] : n \in 1..Tests}
  /\ MaxFails \in Nat

Test   == 1..Tests
Stream == 1..NUM_STREAMS
Query  == 1..Queries
Run    == 1..(N_OPTMZ + N_RUN)   \* of a query: first those that explain it

VARIABLES
  run_number,      \* the file; 1 when there is none
  opt, pc, TAG,    \* of each test: its options, where it is, its tag
  i,               \* the next stream to start
  rf,              \* the refresh functions run so far
  timeout,         \* whether timeout.sh runs in the background
  spc,             \* of each stream: where it is
  q, k,            \* its query and the run of it
  printed,         \* the queries that it has reported as failed
  db,              \* whether the server is up
  fails,           \* how much has gone wrong
  time_statistics  \* the table

test   == <<run_number, opt, TAG>>
stream == <<spc, q, k, printed>>
server == <<db, fails>>
vars   == <<test, pc, i, rf, timeout, stream, server, time_statistics>>

Ended(t)  == pc[t] \in {"done", "failed"}
Gone(t, s) == spc[t][s] \in {"none", "done", "failed"}

Init ==
  /\ run_number = 1
  /\ opt \in Plans
  /\ pc = [t \in Test |-> "idle"]
  /\ TAG = [t \in Test |-> 0]
  /\ i = [t \in Test |-> 1]
  /\ rf = [t \in Test |-> 0]
  /\ timeout = [t \in Test |-> FALSE]
  /\ spc = [t \in Test |-> [s \in Stream |-> "none"]]
  /\ q = [t \in Test |-> [s \in Stream |-> 1]]
  /\ k = [t \in Test |-> [s \in Stream |-> 1]]
  /\ printed = [t \in Test |-> [s \in Stream |-> {}]]
  /\ db = TRUE
  /\ fails = 0
  /\ time_statistics = {}

Goto(t, l) == pc' = [pc EXCEPT ![t] = l]
StreamGoto(t, s, l) == spc' = [spc EXCEPT ![t][s] = l]

\* A statement fails, or a script that stops or starts the server; or a user interrupts.
Fail == fails < MaxFails /\ fails' = fails + 1

\* A command that needs the server.
Try(ok) ==
  /\ UNCHANGED db
  /\ \/ ok = db /\ UNCHANGED fails
     \/ db /\ ~ok /\ Fail

-----------------------------------------------------------------------------
(***************************************************************************)
(* The table.  A row is known by tag, task, run and stream; by says who    *)
(* inserted it and e_time who set its end.                                 *)
(***************************************************************************)
NoTime == <<>>
NULL   == 0    \* the stream of a refresh function

Row(tag, s, task, run, by) ==
  [tag |-> tag, stream |-> s, task |-> task, run |-> run, by |-> by, e_time |-> NoTime]

\* insert into time_statistics: a failure is not looked at.
Insert(row) ==
  \E ok \in BOOLEAN :
    Try(ok) /\ time_statistics' = IF ok THEN time_statistics \cup {row} ELSE time_statistics

\* Faulty variant: the stream is not compared.
Ending_AnyStream(tag, s, task, run, by) ==
  {IF r.tag = tag /\ r.task = task /\ r.run = run
     THEN [r EXCEPT !.e_time = by] ELSE r : r \in time_statistics}

\* update time_statistics set e_time: every row with this tag, task, run and stream.
Ending(tag, s, task, run, by) ==
  {IF r.tag = tag /\ r.stream = s /\ r.task = task /\ r.run = run
     THEN [r EXCEPT !.e_time = by] ELSE r : r \in time_statistics}

-----------------------------------------------------------------------------
(***************************************************************************)
(* throughput_test.sh.                                                     *)
(***************************************************************************)

\* A user starts a test when the one before has returned: it takes the next tag.
Start(t) ==
  /\ pc[t] = "idle" /\ t \in DOMAIN opt /\ \A u \in Test : u < t => Ended(u)
  /\ TAG' = [TAG EXCEPT ![t] = run_number]
  /\ run_number' = run_number + 1
  /\ Goto(t, IF opt[t].restart THEN "stop" ELSE "optimize")
  /\ UNCHANGED <<opt, i, rf, timeout, stream, server, time_statistics>>

\* stop_db.sh || er
StopDb(t) ==
  /\ pc[t] = "stop"
  /\ \/ Goto(t, "start") /\ db' = FALSE /\ UNCHANGED fails
     \/ Goto(t, "failed") /\ Fail /\ UNCHANGED db
  /\ UNCHANGED <<test, i, rf, timeout, stream, time_statistics>>

\* start_db.sh ends with sleep: a failure is not seen.
StartDb(t) ==
  /\ pc[t] = "start"
  /\ Goto(t, "optimize")
  /\ \/ db' = TRUE /\ UNCHANGED fails
     \/ Fail /\ UNCHANGED db
  /\ UNCHANGED <<test, i, rf, timeout, stream, time_statistics>>

\* update_statistics.sh || er; then timeout.sh &, if a timeout is given.
Optimize(t) ==
  /\ pc[t] = "optimize"
  /\ \E ok \in BOOLEAN :
       /\ Try(ok)
       /\ Goto(t, IF ok THEN "streams" ELSE "failed")
       /\ timeout' = [timeout EXCEPT ![t] = ok /\ opt[t].timeout]
  /\ UNCHANGED <<test, i, rf, stream, time_statistics>>

\* Faulty variant: one stream too many.
StartStream_Off(t) ==
  /\ pc[t] = "streams"
  /\ IF i[t] <= NUM_STREAMS + 1
       THEN /\ spc' = [spc EXCEPT ![t][i[t]] = "insert"]
            /\ i' = [i EXCEPT ![t] = i[t] + 1]
            /\ UNCHANGED pc
       ELSE Goto(t, IF opt[t].refresh THEN "rf_insert" ELSE "wait") /\ UNCHANGED <<spc, i>>
  /\ UNCHANGED <<test, rf, timeout, q, k, printed, server, time_statistics>>

\* run_throughput_stream.sh &, for each stream; it first writes its batches of statements.
StartStream(t) ==
  /\ pc[t] = "streams"
  /\ IF i[t] <= NUM_STREAMS
       THEN /\ spc' = [spc EXCEPT ![t][i[t]] = "insert"]
            /\ i' = [i EXCEPT ![t] = i[t] + 1]
            /\ UNCHANGED pc
       ELSE Goto(t, IF opt[t].refresh THEN "rf_insert" ELSE "wait") /\ UNCHANGED <<spc, i>>
  /\ UNCHANGED <<test, rf, timeout, q, k, printed, server, time_statistics>>

RF(t)   == IF rf[t] % 2 = 0 THEN -1 ELSE -2    \* the task: RF1, then RF2
RfBy(t) == <<t, NULL, rf[t], 1>>

\* The refresh stream, in the foreground: RF1 and RF2 as many times as there are streams,
\* each with a row that does not say which time it is.
RfInsert(t) ==
  /\ pc[t] = "rf_insert"
  /\ Insert(Row(TAG[t], NULL, RF(t), 1, RfBy(t)))
  /\ Goto(t, "rf")
  /\ UNCHANGED <<test, i, rf, timeout, stream>>

\* run_rf1.sh || er, run_rf2.sh || er: the test leaves, with its jobs in the background.
RfRun(t) ==
  /\ pc[t] = "rf"
  /\ \E ok \in BOOLEAN : Try(ok) /\ Goto(t, IF ok THEN "rf_update" ELSE "failed")
  /\ UNCHANGED <<test, i, rf, timeout, stream, time_statistics>>

RfUpdate(t) ==
  /\ pc[t] = "rf_update"
  /\ \E ok \in BOOLEAN :
       /\ Try(ok)
       /\ time_statistics' = IF ok THEN Ending(TAG[t], NULL, RF(t), 1, RfBy(t))
                                   ELSE time_statistics
  /\ rf' = [rf EXCEPT ![t] = rf[t] + 1]
  /\ Goto(t, IF rf[t] + 1 < 2 * NUM_STREAMS THEN "rf_insert" ELSE "wait")
  /\ UNCHANGED <<test, i, timeout, stream>>

\* Faulty variant: waits for streams that end well.
Wait_AllWell(t) ==
  /\ pc[t] = "wait"
  /\ \A s \in Stream : spc[t][s] = "done"
  /\ ~timeout[t]
  /\ Goto(t, "report")
  /\ UNCHANGED <<test, i, rf, timeout, stream, server, time_statistics>>

\* Faulty variant: waits for the last stream.
Wait_Last(t) ==
  /\ pc[t] = "wait"
  /\ Gone(t, NUM_STREAMS)
  /\ ~timeout[t]
  /\ Goto(t, "report")
  /\ UNCHANGED <<test, i, rf, timeout, stream, server, time_statistics>>

\* wait: for every job, whether it ends well or not.
Wait(t) ==
  /\ pc[t] = "wait"
  /\ \A s \in Stream : Gone(t, s)
  /\ ~timeout[t]
  /\ Goto(t, "report")
  /\ UNCHANGED <<test, i, rf, timeout, stream, server, time_statistics>>

\* The timeout is killed and the results are read from the table.
Report(t) ==
  /\ pc[t] = "report"
  /\ Goto(t, "done")
  /\ timeout' = [timeout EXCEPT ![t] = FALSE]
  /\ UNCHANGED <<test, i, rf, stream, server, time_statistics>>

\* trap ... TERM INT: the timeout is killed; the streams, in the background, go on.
Interrupt(t) ==
  /\ pc[t] # "idle" /\ ~Ended(t)
  /\ Goto(t, "failed")
  /\ timeout' = [timeout EXCEPT ![t] = FALSE]
  /\ Fail /\ UNCHANGED db
  /\ UNCHANGED <<test, i, rf, stream, time_statistics>>

\* timeout.sh asks for the list of connections for ever.
Timeout(t) ==
  /\ timeout[t]
  /\ UNCHANGED vars

-----------------------------------------------------------------------------
(***************************************************************************)
(* run_throughput_stream.sh.  The batch of a query is a script of its own: *)
(* for each run a row is inserted, the query is run and the end is set.    *)
(***************************************************************************)
By(t, s) == <<t, s, q[t][s], k[t][s]>>
LastRun  == N_OPTMZ + N_RUN

\* The query runs until the update, whether it ends well or not.
BatchInsert(t, s) ==
  /\ spc[t][s] = "insert"
  /\ Insert(Row(TAG[t], s, q[t][s], k[t][s], By(t, s)))
  /\ StreamGoto(t, s, "update")
  /\ UNCHANGED <<test, pc, i, rf, timeout, q, k, printed>>

\* The last statement of the batch gives it its exit code: || er.
BatchUpdate(t, s) ==
  /\ spc[t][s] = "update"
  /\ \E ok \in BOOLEAN :
       /\ Try(ok)
       /\ time_statistics' = IF ok THEN Ending(TAG[t], s, q[t][s], k[t][s], By(t, s))
                                   ELSE time_statistics
       /\ StreamGoto(t, s, IF k[t][s] < LastRun THEN "insert" ELSE IF ok THEN "check" ELSE "failed")
  /\ k' = [k EXCEPT ![t][s] = IF k[t][s] < LastRun THEN k[t][s] + 1 ELSE 1]
  /\ UNCHANGED <<test, pc, i, rf, timeout, q, printed>>

\* The stream goes on with its next query.
NextQuery(t, s) ==
  /\ q' = [q EXCEPT ![t][s] = IF q[t][s] < Queries THEN q[t][s] + 1 ELSE q[t][s]]
  /\ StreamGoto(t, s, IF q[t][s] < Queries THEN "insert" ELSE "done")

\* Faulty variant: the stream is not compared.
Durations_AnyStream(t, s) ==
  {r \in time_statistics : r.tag = TAG[t] /\ r.task = q[t][s] /\ r.run > N_OPTMZ}

\* select e_time - s_time: e_time is 0 until it is set, so that a row is enough.
Durations(t, s) ==
  {r \in time_statistics :
     r.tag = TAG[t] /\ r.stream = s /\ r.task = q[t][s] /\ r.run > N_OPTMZ}

\* A query without a duration is reported as failed.
Check(t, s) ==
  /\ spc[t][s] = "check"
  /\ \E ok \in BOOLEAN :
       /\ Try(ok)
       /\ printed' = [printed EXCEPT ![t][s] =
                        IF ok /\ Durations(t, s) # {} THEN @ ELSE @ \cup {q[t][s]}]
  /\ IF opt[t].qrst THEN StreamGoto(t, s, "stop") /\ UNCHANGED q ELSE NextQuery(t, s)
  /\ UNCHANGED <<test, pc, i, rf, timeout, k, time_statistics>>

\* -qrst: stop_db.sh || er, sleep, start_db.sh.
StreamStopDb(t, s) ==
  /\ spc[t][s] = "stop"
  /\ \/ StreamGoto(t, s, "start") /\ db' = FALSE /\ UNCHANGED fails
     \/ StreamGoto(t, s, "failed") /\ Fail /\ UNCHANGED db
  /\ UNCHANGED <<test, pc, i, rf, timeout, q, k, printed, time_statistics>>

StreamStartDb(t, s) ==
  /\ spc[t][s] = "start"
  /\ NextQuery(t, s)
  /\ \/ db' = TRUE /\ UNCHANGED fails
     \/ Fail /\ UNCHANGED db
  /\ UNCHANGED <<test, pc, i, rf, timeout, k, printed, time_statistics>>

-----------------------------------------------------------------------------
TestStep(t) ==
  \/ StopDb(t) \/ StartDb(t) \/ Optimize(t) \/ StartStream(t)
  \/ RfInsert(t) \/ RfRun(t) \/ RfUpdate(t) \/ Wait(t) \/ Report(t)

StreamStep(t, s) ==
  \/ BatchInsert(t, s) \/ BatchUpdate(t, s) \/ Check(t, s)
  \/ StreamStopDb(t, s) \/ StreamStartDb(t, s)

\* All tests and all streams are over, but for a timeout left running.
Over ==
  /\ \A t \in DOMAIN opt : Ended(t) /\ \A s \in Stream : Gone(t, s)
  /\ UNCHANGED vars

Next ==
  \/ \E t \in Test : Start(t) \/ TestStep(t) \/ Interrupt(t) \/ Timeout(t)
  \/ \E t \in Test, s \in Stream : StreamStep(t, s)
  \/ Over

\* The scripts are scheduled and queries end; nobody has to start or to interrupt a test.
Fairness ==
  /\ \A t \in Test : WF_vars(TestStep(t))
  /\ \A t \in Test, s \in Stream : WF_vars(StreamStep(t, s))

Spec == Init /\ [][Next]_vars /\ Fairness

-----------------------------------------------------------------------------
(***************************************************************************)
(* Properties.                                                             *)
(***************************************************************************)

\* The variables have their types.
TypeOK ==
  /\ run_number \in Nat
  /\ opt \in Plans
  /\ pc \in [Test -> {"idle", "stop", "start", "optimize", "streams", "rf_insert", "rf",
                      "rf_update", "wait", "report", "done", "failed"}]
  /\ TAG \in [Test -> Nat]
  /\ i \in [Test -> 1..(NUM_STREAMS + 1)]
  /\ rf \in [Test -> 0..(2 * NUM_STREAMS)]
  /\ timeout \in [Test -> BOOLEAN]
  /\ spc \in [Test -> [Stream -> {"none", "insert", "update", "check", "stop",
                                  "start", "done", "failed"}]]
  /\ q \in [Test -> [Stream -> Query]] /\ k \in [Test -> [Stream -> Run]]
  /\ printed \in [Test -> [Stream -> SUBSET Query]]
  /\ db \in BOOLEAN /\ fails \in 0..MaxFails
  /\ \A r \in time_statistics : r.run \in Run /\ r.stream \in Stream \cup {NULL}

\* The end of a query's row is set by the batch that inserted it, though streams of several
\* tests, orphans too, run the same queries and update one table.
OwnEnd ==
  \A r \in time_statistics : r.stream # NULL => r.e_time \in {NoTime, r.by}

\* Once a test has written its results, no stream of it runs and nobody changes its rows
\* ("Throughput Test Completed").
ReportFinal ==
  [][\A t \in Test :
       pc[t] = "done" => {r \in time_statistics' : r.tag = TAG[t]} =
                         {r \in time_statistics : r.tag = TAG[t]}]_vars

\* A stream that ends well has, for each of its queries, a row with an end or has reported
\* it as failed: the last run, on which the batch's exit code and the duration depend.
Accounted ==
  \A t \in Test, s \in Stream : spc[t][s] = "done" =>
    \A x \in Query \ printed[t][s] :
      \E r \in time_statistics :
        r.tag = TAG[t] /\ r.stream = s /\ r.task = x /\ r.run > N_OPTMZ /\ r.e_time # NoTime

\* A test without a timeout ends, whatever fails.
Ends ==
  \A t \in Test : (pc[t] # "idle" /\ ~opt[t].timeout) ~> Ended(t)

\* So does a test with a timeout: the script kills it when the streams are over
\* (throughput_test.sh:334-337).
TimedEnds ==
  \A t \in Test : pc[t] # "idle" ~> Ended(t)

\* "-qrst  restart DBMS between batches" (throughput_test.sh:171): no stream is in the
\* middle of a batch when a stream stops the server.
InBatch(t, s) ==
  \/ spc[t][s] = "update"
  \/ spc[t][s] = "insert" /\ k[t][s] > 1

RestartBetweenBatches ==
  [][(\E t \in Test, s \in Stream : spc[t][s] = "stop" /\ spc'[t][s] = "start") =>
       \A t \in Test, s \in Stream : ~InBatch(t, s)]_vars
=============================================================================
