-------------------------- MODULE Throughput_proofs --------------------------
(***************************************************************************)
(* The end of a query is set in the row of that query, and the rows of a   *)
(* test that has written its results stay as they are; a stream that ends  *)
(* well has accounted for each of its queries, when each is run once: for  *)
(* any number of tests, streams, queries, runs of a query, and failures.   *)
(***************************************************************************)
EXTENDS Throughput, TLAPS

\* The types that the argument needs.
TestLabel   == {"idle", "stop", "start", "optimize", "streams", "rf_insert", "rf",
                "rf_update", "wait", "report", "done", "failed"}
StreamLabel == {"none", "insert", "update", "check", "stop", "start", "done", "failed"}

Types ==
  /\ run_number \in Nat
  /\ pc \in [Test -> TestLabel]
  /\ TAG \in [Test -> Nat]
  /\ i \in [Test -> Nat \ {0}]
  /\ spc \in [Test -> [Stream -> StreamLabel]]

\* A tag is taken once.
TagsApart ==
  /\ \A t \in Test : pc[t] # "idle" => TAG[t] < run_number
  /\ \A t, u \in Test : pc[t] # "idle" /\ pc[u] # "idle" /\ TAG[t] = TAG[u] => t = u

\* Only a test that was started has streams, and when it has its results they are over.
StreamsWithin ==
  \A t \in Test : pc[t] \in {"idle", "report", "done"} => \A s \in Stream : Gone(t, s)

\* The key of a row says who inserted it.
Owned(r) ==
  \E t \in Test : /\ pc[t] # "idle" /\ r.tag = TAG[t]
                  /\ r.by = <<t, r.stream, r.task, r.run>>

\* Rows have their columns; those of streams have an owner, who alone sets their end.
OwnRow(r) ==
  /\ r = [tag |-> r.tag, stream |-> r.stream, task |-> r.task, run |-> r.run,
          by |-> r.by, e_time |-> r.e_time]
  /\ r.stream # NULL => Owned(r) /\ r.e_time \in {NoTime, r.by}

OwnRows == \A r \in time_statistics : OwnRow(r)

IInv == Types /\ TagsApart /\ StreamsWithin /\ OwnRows

-----------------------------------------------------------------------------
(***************************************************************************)
(* What a step does to the rows.                                           *)
(***************************************************************************)

\* A test that was started stays so, with its tag.
Started ==
  \A t \in Test : pc[t] # "idle" => pc'[t] # "idle" /\ TAG'[t] = TAG[t]

\* What was said of a row is still so, when tests keep their tags.
LEMMA RowKept ==
  ASSUME Started, NEW r, OwnRow(r)
  PROVE  OwnRow(r)'
BY DEF Started, OwnRow, Owned, NoTime, NULL

LEMMA RowsKept ==
  ASSUME OwnRows, Started, UNCHANGED time_statistics
  PROVE  OwnRows'
<1> SUFFICES ASSUME NEW r \in time_statistics PROVE OwnRow(r)'
  BY DEF OwnRows
<1> QED BY RowKept DEF OwnRows

\* A batch inserts rows of its own.
LEMMA RowAdded ==
  ASSUME OwnRows, Started, NEW t \in Test, pc[t] # "idle",
         NEW s, NEW x, NEW n, NEW by, s # NULL => by = <<t, s, x, n>>,
         time_statistics' = time_statistics \cup {Row(TAG[t], s, x, n, by)}
  PROVE  OwnRows'
<1>1. OwnRow(Row(TAG[t], s, x, n, by))
  BY DEF OwnRow, Owned, Row
<1> SUFFICES ASSUME NEW r \in time_statistics' PROVE OwnRow(r)'
  BY DEF OwnRows
<1>2. OwnRow(r)
  BY <1>1 DEF OwnRows
<1> QED BY <1>2, RowKept

\* An update that sets the end of a row finds the row of the one who updates.
LEMMA RowEnded ==
  ASSUME OwnRows, TagsApart, Started, NEW t \in Test, pc[t] # "idle",
         NEW s, NEW x, NEW n, NEW by, s # NULL => by = <<t, s, x, n>>,
         time_statistics' = Ending(TAG[t], s, x, n, by)
  PROVE  OwnRows'
<1> SUFFICES ASSUME NEW r \in time_statistics' PROVE OwnRow(r)'
  BY DEF OwnRows
<1>1. PICK o \in time_statistics :
        r = IF o.tag = TAG[t] /\ o.stream = s /\ o.task = x /\ o.run = n
              THEN [o EXCEPT !.e_time = by] ELSE o
  BY DEF Ending
<1>2. OwnRow(o)
  BY DEF OwnRows
<1>3. CASE o.tag = TAG[t] /\ o.stream = s /\ o.task = x /\ o.run = n
  <2>1. r = [tag |-> o.tag, stream |-> o.stream, task |-> o.task, run |-> o.run,
             by |-> o.by, e_time |-> by]
    BY <1>1, <1>2, <1>3 DEF OwnRow
  <2>2. ASSUME o.stream # NULL PROVE o.by = by /\ Owned(o)
    <3>1. PICK u \in Test : /\ pc[u] # "idle" /\ o.tag = TAG[u]
                            /\ o.by = <<u, o.stream, o.task, o.run>>
      BY <1>2, <2>2 DEF OwnRow, Owned
    <3>2. u = t
      BY <1>3, <3>1 DEF TagsApart
    <3> QED BY <1>2, <1>3, <2>2, <3>1, <3>2 DEF OwnRow
  <2>3. OwnRow(r)
    BY <2>1, <2>2 DEF OwnRow, Owned
  <2> QED BY <2>3, RowKept
<1>4. CASE ~(o.tag = TAG[t] /\ o.stream = s /\ o.task = x /\ o.run = n)
  BY <1>1, <1>2, <1>4, RowKept
<1> QED BY <1>3, <1>4

-----------------------------------------------------------------------------
(***************************************************************************)
(* The initial states, and one lemma for each action.                      *)
(***************************************************************************)
LEMMA InitInv == Init => IInv
BY ThroughputAssumption
   DEF Init, IInv, Types, TagsApart, StreamsWithin, OwnRows, TestLabel, StreamLabel, Gone

\* Actions of a test that only go on to another place, from a place that is not the last.
LEMMA TestGoesOn ==
  ASSUME IInv, NEW t \in Test, NEW l \in TestLabel, Goto(t, l),
         pc[t] \notin {"idle", "done"}, l # "idle",
         l \in {"report", "done"} => \A s \in Stream : Gone(t, s),
         UNCHANGED <<test, spc>>, i' \in [Test -> Nat \ {0}]
  PROVE  Types' /\ TagsApart' /\ StreamsWithin' /\ Started
<1> USE DEF IInv
<1>1. Types'
  BY DEF Types, Goto, test
<1>2. TagsApart' /\ Started
  BY DEF Types, TagsApart, Started, Goto, test
<1>3. StreamsWithin'
  BY DEF Types, StreamsWithin, Gone, Goto
<1> QED BY <1>1, <1>2, <1>3

\* Actions of a stream that is not over: they go on to another place.
LEMMA StreamGoesOn ==
  ASSUME IInv, NEW t \in Test, NEW s \in Stream, NEW l \in StreamLabel, StreamGoto(t, s, l),
         ~Gone(t, s), UNCHANGED <<test, pc, i>>
  PROVE  Types' /\ TagsApart' /\ StreamsWithin' /\ Started /\ pc[t] \notin {"idle", "done"}
<1> USE DEF IInv
<1>1. Types' /\ TagsApart' /\ Started
  BY DEF Types, TagsApart, Started, StreamGoto, test
<1>2. pc[t] \notin {"idle", "report", "done"}
  BY DEF StreamsWithin
<1>3. StreamsWithin'
  BY <1>2 DEF Types, StreamsWithin, Gone, StreamGoto
<1> QED BY <1>1, <1>2, <1>3

LEMMA StartInv ==
  ASSUME IInv, NEW t \in Test, Start(t)
  PROVE  IInv'
<1> USE DEF IInv
<1> DEFINE l == IF opt[t].restart THEN "stop" ELSE "optimize"
<1>1. /\ pc[t] = "idle" /\ pc' = [pc EXCEPT ![t] = l] /\ l \in {"stop", "optimize"}
      /\ TAG' = [TAG EXCEPT ![t] = run_number] /\ run_number' = run_number + 1
      /\ UNCHANGED <<i, spc, time_statistics>>
  BY DEF Start, Goto, stream
<1> HIDE DEF l
<1>2. Types'
  BY <1>1 DEF Types, TestLabel
<1>3. Started
  BY <1>1 DEF Types, Started
<1>4. TagsApart'
  BY <1>1 DEF Types, TagsApart
<1>5. StreamsWithin'
  BY <1>1 DEF Types, StreamsWithin, Gone
<1>6. OwnRows'
  BY <1>1, <1>3, RowsKept
<1> QED BY <1>2, <1>4, <1>5, <1>6

LEMMA StopDbInv ==
  ASSUME IInv, NEW t \in Test, StopDb(t)
  PROVE  IInv'
<1>1. PICK l \in {"start", "failed"} : pc[t] = "stop" /\ Goto(t, l)
  BY DEF StopDb
<1>2. UNCHANGED <<test, spc, i, time_statistics>>
  BY DEF StopDb, stream
<1>3. i' \in [Test -> Nat \ {0}]
  BY <1>2 DEF IInv, Types
<1>4. Types' /\ TagsApart' /\ StreamsWithin' /\ Started
  BY <1>1, <1>2, <1>3, TestGoesOn DEF TestLabel
<1> QED BY <1>2, <1>4, RowsKept DEF IInv

LEMMA StartDbInv ==
  ASSUME IInv, NEW t \in Test, StartDb(t)
  PROVE  IInv'
<1>1. pc[t] = "start" /\ Goto(t, "optimize")
  BY DEF StartDb
<1>2. UNCHANGED <<test, spc, i, time_statistics>>
  BY DEF StartDb, stream
<1>3. i' \in [Test -> Nat \ {0}]
  BY <1>2 DEF IInv, Types
<1>4. Types' /\ TagsApart' /\ StreamsWithin' /\ Started
  BY <1>1, <1>2, <1>3, TestGoesOn DEF TestLabel
<1> QED BY <1>2, <1>4, RowsKept DEF IInv

LEMMA OptimizeInv ==
  ASSUME IInv, NEW t \in Test, Optimize(t)
  PROVE  IInv'
<1>1. PICK l \in {"streams", "failed"} : pc[t] = "optimize" /\ Goto(t, l)
  BY DEF Optimize
<1>2. UNCHANGED <<test, spc, i, time_statistics>>
  BY DEF Optimize, stream
<1>3. i' \in [Test -> Nat \ {0}]
  BY <1>2 DEF IInv, Types
<1>4. Types' /\ TagsApart' /\ StreamsWithin' /\ Started
  BY <1>1, <1>2, <1>3, TestGoesOn DEF TestLabel
<1> QED BY <1>2, <1>4, RowsKept DEF IInv

LEMMA StartStreamInv ==
  ASSUME IInv, NEW t \in Test, StartStream(t)
  PROVE  IInv'
<1> USE DEF IInv
<1>1. pc[t] = "streams" /\ UNCHANGED <<test, time_statistics>>
  BY DEF StartStream
<1>2. CASE i[t] <= NUM_STREAMS
  <2>1. /\ spc' = [spc EXCEPT ![t][i[t]] = "insert"]
        /\ i' = [i EXCEPT ![t] = i[t] + 1] /\ UNCHANGED pc
    BY <1>2 DEF StartStream
  <2>2. i[t] \in Stream
    BY <1>2, ThroughputAssumption DEF Types, Stream
  <2>3. Types'
    BY <1>1, <2>1, <2>2 DEF Types, StreamLabel, test
  <2>4. TagsApart' /\ Started
    BY <1>1, <2>1 DEF TagsApart, Started, test
  <2>5. StreamsWithin'
    BY <1>1, <2>1, <2>2 DEF Types, StreamsWithin, Gone
  <2> QED BY <1>1, <2>3, <2>4, <2>5, RowsKept
<1>3. CASE ~(i[t] <= NUM_STREAMS)
  <2>1. PICK l \in {"rf_insert", "wait"} : Goto(t, l) /\ UNCHANGED <<spc, i>>
    BY <1>3 DEF StartStream
  <2>2. Types' /\ TagsApart' /\ StreamsWithin' /\ Started
    BY <1>1, <2>1, TestGoesOn DEF TestLabel, Types
  <2> QED BY <1>1, <2>2, RowsKept
<1> QED BY <1>2, <1>3

LEMMA RfInsertInv ==
  ASSUME IInv, NEW t \in Test, RfInsert(t)
  PROVE  IInv'
<1> USE DEF IInv
<1>1. /\ pc[t] = "rf_insert" /\ Goto(t, "rf") /\ UNCHANGED <<test, spc, i>>
  BY DEF RfInsert, stream
<1>2. Types' /\ TagsApart' /\ StreamsWithin' /\ Started
  BY <1>1, TestGoesOn DEF TestLabel, Types
<1>3. \/ UNCHANGED time_statistics
      \/ time_statistics' = time_statistics \cup {Row(TAG[t], NULL, RF(t), 1, RfBy(t))}
  BY DEF RfInsert, Insert
<1>4. OwnRows'
  BY <1>1, <1>2, <1>3, RowsKept, RowAdded
<1> QED BY <1>2, <1>4

LEMMA RfRunInv ==
  ASSUME IInv, NEW t \in Test, RfRun(t)
  PROVE  IInv'
<1>1. PICK l \in {"rf_update", "failed"} : pc[t] = "rf" /\ Goto(t, l)
  BY DEF RfRun
<1>2. UNCHANGED <<test, spc, i, time_statistics>>
  BY DEF RfRun, stream
<1>3. i' \in [Test -> Nat \ {0}]
  BY <1>2 DEF IInv, Types
<1>4. Types' /\ TagsApart' /\ StreamsWithin' /\ Started
  BY <1>1, <1>2, <1>3, TestGoesOn DEF TestLabel
<1> QED BY <1>2, <1>4, RowsKept DEF IInv

LEMMA RfUpdateInv ==
  ASSUME IInv, NEW t \in Test, RfUpdate(t)
  PROVE  IInv'
<1> USE DEF IInv
<1>1. PICK l \in {"rf_insert", "wait"} :
        pc[t] = "rf_update" /\ Goto(t, l) /\ UNCHANGED <<test, spc, i>>
  BY DEF RfUpdate, stream
<1>2. Types' /\ TagsApart' /\ StreamsWithin' /\ Started
  BY <1>1, TestGoesOn DEF TestLabel, Types
<1>3. \/ UNCHANGED time_statistics
      \/ time_statistics' = Ending(TAG[t], NULL, RF(t), 1, RfBy(t))
  BY DEF RfUpdate
<1>4. OwnRows'
  BY <1>1, <1>2, <1>3, RowsKept, RowEnded
<1> QED BY <1>2, <1>4

LEMMA WaitInv ==
  ASSUME IInv, NEW t \in Test, Wait(t)
  PROVE  IInv'
<1> USE DEF IInv
<1>1. /\ pc[t] = "wait" /\ Goto(t, "report") /\ \A s \in Stream : Gone(t, s)
      /\ UNCHANGED <<test, spc, i, time_statistics>>
  BY DEF Wait, stream
<1>2. Types' /\ TagsApart' /\ StreamsWithin' /\ Started
  BY <1>1, TestGoesOn DEF TestLabel, Types
<1> QED BY <1>1, <1>2, RowsKept

LEMMA ReportInv ==
  ASSUME IInv, NEW t \in Test, Report(t)
  PROVE  IInv'
<1> USE DEF IInv
<1>1. /\ pc[t] = "report" /\ Goto(t, "done")
      /\ UNCHANGED <<test, spc, i, time_statistics>>
  BY DEF Report, stream
<1>2. \A s \in Stream : Gone(t, s)
  BY <1>1 DEF StreamsWithin
<1>3. Types' /\ TagsApart' /\ StreamsWithin' /\ Started
  BY <1>1, <1>2, TestGoesOn DEF TestLabel, Types
<1> QED BY <1>1, <1>3, RowsKept

LEMMA InterruptInv ==
  ASSUME IInv, NEW t \in Test, Interrupt(t)
  PROVE  IInv'
<1> USE DEF IInv
<1>1. /\ pc[t] \notin {"idle", "done"} /\ Goto(t, "failed")
      /\ UNCHANGED <<test, spc, i, time_statistics>>
  BY DEF Interrupt, Ended, stream
<1>2. Types' /\ TagsApart' /\ StreamsWithin' /\ Started
  BY <1>1, TestGoesOn DEF TestLabel, Types
<1> QED BY <1>1, <1>2, RowsKept

LEMMA BatchInsertInv ==
  ASSUME IInv, NEW t \in Test, NEW s \in Stream, BatchInsert(t, s)
  PROVE  IInv'
<1> USE DEF IInv
<1>1. /\ ~Gone(t, s) /\ StreamGoto(t, s, "update") /\ UNCHANGED <<test, pc, i>>
  BY DEF BatchInsert, Gone
<1>2. Types' /\ TagsApart' /\ StreamsWithin' /\ Started /\ pc[t] \notin {"idle", "done"}
  BY <1>1, StreamGoesOn DEF StreamLabel
<1>3. \/ UNCHANGED time_statistics
      \/ time_statistics' =
           time_statistics \cup {Row(TAG[t], s, q[t][s], k[t][s], <<t, s, q[t][s], k[t][s]>>)}
  BY DEF BatchInsert, Insert, By
<1>4. OwnRows'
  BY <1>2, <1>3, RowsKept, RowAdded
<1> QED BY <1>2, <1>4

LEMMA BatchUpdateInv ==
  ASSUME IInv, NEW t \in Test, NEW s \in Stream, BatchUpdate(t, s)
  PROVE  IInv'
<1> USE DEF IInv
<1>1. PICK l \in {"insert", "check", "failed"} :
        ~Gone(t, s) /\ StreamGoto(t, s, l) /\ UNCHANGED <<test, pc, i>>
  BY DEF BatchUpdate, Gone
<1>2. Types' /\ TagsApart' /\ StreamsWithin' /\ Started /\ pc[t] \notin {"idle", "done"}
  BY <1>1, StreamGoesOn DEF StreamLabel
<1>3. \/ UNCHANGED time_statistics
      \/ time_statistics' =
           Ending(TAG[t], s, q[t][s], k[t][s], <<t, s, q[t][s], k[t][s]>>)
  BY DEF BatchUpdate, By
<1>4. OwnRows'
  BY <1>2, <1>3, RowsKept, RowEnded
<1> QED BY <1>2, <1>4

\* The other actions of a stream leave the table alone.
LEMMA StreamOnlyGoes ==
  ASSUME IInv, NEW t \in Test, NEW s \in Stream,
         Check(t, s) \/ StreamStopDb(t, s) \/ StreamStartDb(t, s)
  PROVE  IInv'
<1> USE DEF IInv
<1>1. PICK l \in StreamLabel : ~Gone(t, s) /\ StreamGoto(t, s, l)
  <2>1. CASE Check(t, s)
    BY <2>1 DEF Check, NextQuery, Gone, StreamLabel
  <2>2. CASE StreamStopDb(t, s)
    BY <2>2 DEF StreamStopDb, Gone, StreamLabel
  <2>3. CASE StreamStartDb(t, s)
    BY <2>3 DEF StreamStartDb, NextQuery, Gone, StreamLabel
  <2> QED BY <2>1, <2>2, <2>3
<1>2. UNCHANGED <<test, pc, i, time_statistics>>
  BY DEF Check, StreamStopDb, StreamStartDb
<1>3. Types' /\ TagsApart' /\ StreamsWithin' /\ Started
  BY <1>1, <1>2, StreamGoesOn
<1> QED BY <1>2, <1>3, RowsKept

LEMMA StutterInv ==
  ASSUME IInv, UNCHANGED vars
  PROVE  IInv'
BY DEF IInv, Types, TagsApart, StreamsWithin, Gone, OwnRows, OwnRow, Owned, vars, test, stream

LEMMA NextInv == IInv /\ [Next]_vars => IInv'
<1> SUFFICES ASSUME IInv, [Next]_vars PROVE IInv'
  OBVIOUS
<1>1. ASSUME NEW t \in Test, Start(t) PROVE IInv'
  BY <1>1, StartInv
<1>2. ASSUME NEW t \in Test, TestStep(t) PROVE IInv'
  BY <1>2, StopDbInv, StartDbInv, OptimizeInv, StartStreamInv, RfInsertInv, RfRunInv,
     RfUpdateInv, WaitInv, ReportInv DEF TestStep
<1>3. ASSUME NEW t \in Test, Interrupt(t) PROVE IInv'
  BY <1>3, InterruptInv
<1>4. ASSUME NEW t \in Test, NEW s \in Stream, StreamStep(t, s) PROVE IInv'
  BY <1>4, BatchInsertInv, BatchUpdateInv, StreamOnlyGoes DEF StreamStep
<1>5. ASSUME UNCHANGED vars PROVE IInv'
  BY <1>5, StutterInv
<1> QED BY <1>1, <1>2, <1>3, <1>4, <1>5 DEF Next, Timeout, Over

-----------------------------------------------------------------------------
(***************************************************************************)
(* The theorems.                                                           *)
(***************************************************************************)

LEMMA Invariance == Spec => []IInv
<1>1. Init => IInv
  BY InitInv
<1>2. IInv /\ [Next]_vars => IInv'
  BY NextInv
<1> QED BY <1>1, <1>2, PTL DEF Spec

\* The end of a row is set by the batch that inserted it (run_throughput_stream.sh:157-160),
\* for every number of tests and streams, however they leave and start.
THEOREM EndsAreOwn == Spec => []OwnEnd
<1>1. IInv => OwnEnd
  BY DEF IInv, OwnRows, OwnRow, OwnEnd
<1> QED BY <1>1, Invariance, PTL

\* A step changes rows of one tag only: that of a test that was started and has no results yet.
OneTag ==
  \E t \in Test : /\ pc[t] \notin {"idle", "done"}
                  /\ {r \in time_statistics' : r.tag # TAG[t]} =
                     {r \in time_statistics : r.tag # TAG[t]}

LEMMA AddedOneTag ==
  ASSUME NEW t \in Test, pc[t] \notin {"idle", "done"}, NEW s, NEW x, NEW n, NEW by,
         time_statistics' = time_statistics \cup {Row(TAG[t], s, x, n, by)}
  PROVE  OneTag
BY DEF OneTag, Row

LEMMA EndedOneTag ==
  ASSUME OwnRows, NEW t \in Test, pc[t] \notin {"idle", "done"}, NEW s, NEW x, NEW n, NEW by,
         time_statistics' = Ending(TAG[t], s, x, n, by)
  PROVE  OneTag
<1>1. \A r \in time_statistics : r.tag = TAG[t] => [r EXCEPT !.e_time = by].tag = TAG[t]
  <2> SUFFICES ASSUME NEW r \in time_statistics, r.tag = TAG[t]
               PROVE [r EXCEPT !.e_time = by].tag = TAG[t]
    OBVIOUS
  <2>1. r = [tag |-> r.tag, stream |-> r.stream, task |-> r.task, run |-> r.run,
             by |-> r.by, e_time |-> r.e_time]
    BY DEF OwnRows, OwnRow
  <2> QED BY <2>1
<1>2. {r \in time_statistics' : r.tag # TAG[t]} = {r \in time_statistics : r.tag # TAG[t]}
  <2>1. ASSUME NEW r \in time_statistics', r.tag # TAG[t] PROVE r \in time_statistics
    BY <1>1, <2>1 DEF Ending
  <2>2. ASSUME NEW r \in time_statistics, r.tag # TAG[t] PROVE r \in time_statistics'
    BY <2>2 DEF Ending
  <2> QED BY <2>1, <2>2
<1> QED BY <1>2 DEF OneTag

LEMMA StepOneTag ==
  ASSUME IInv, [Next]_vars
  PROVE  UNCHANGED time_statistics \/ OneTag
<1> USE DEF IInv
<1>1. ASSUME NEW t \in Test, Start(t) \/ TestStep(t) \/ Interrupt(t)
      PROVE  UNCHANGED time_statistics \/ OneTag
  <2>1. CASE RfInsert(t)
    <3>1. pc[t] = "rf_insert"
      BY <2>1 DEF RfInsert
    <3>2. \/ UNCHANGED time_statistics
          \/ time_statistics' = time_statistics \cup {Row(TAG[t], NULL, RF(t), 1, RfBy(t))}
      BY <2>1 DEF RfInsert, Insert
    <3> QED BY <3>1, <3>2, AddedOneTag
  <2>2. CASE RfUpdate(t)
    <3>1. pc[t] = "rf_update"
      BY <2>2 DEF RfUpdate
    <3>2. \/ UNCHANGED time_statistics
          \/ time_statistics' = Ending(TAG[t], NULL, RF(t), 1, RfBy(t))
      BY <2>2 DEF RfUpdate
    <3> QED BY <3>1, <3>2, EndedOneTag
  <2>3. CASE ~RfInsert(t) /\ ~RfUpdate(t)
    BY <1>1, <2>3 DEF TestStep, Start, StopDb, StartDb, Optimize, StartStream, RfRun, Wait,
                      Report, Interrupt
  <2> QED BY <2>1, <2>2, <2>3
<1>2. ASSUME NEW t \in Test, NEW s \in Stream, StreamStep(t, s)
      PROVE  UNCHANGED time_statistics \/ OneTag
  <2>1. ~Gone(t, s)
    BY <1>2 DEF StreamStep, BatchInsert, BatchUpdate, Check, StreamStopDb, StreamStartDb, Gone
  <2>2. pc[t] \notin {"idle", "done"}
    BY <2>1 DEF StreamsWithin
  <2>3. CASE BatchInsert(t, s)
    <3>1. \/ UNCHANGED time_statistics
          \/ time_statistics' =
               time_statistics \cup {Row(TAG[t], s, q[t][s], k[t][s], By(t, s))}
      BY <2>3 DEF BatchInsert, Insert
    <3> QED BY <2>2, <3>1, AddedOneTag
  <2>4. CASE BatchUpdate(t, s)
    <3>1. \/ UNCHANGED time_statistics
          \/ time_statistics' = Ending(TAG[t], s, q[t][s], k[t][s], By(t, s))
      BY <2>4 DEF BatchUpdate
    <3> QED BY <2>2, <3>1, EndedOneTag
  <2>5. CASE Check(t, s) \/ StreamStopDb(t, s) \/ StreamStartDb(t, s)
    BY <2>5 DEF Check, StreamStopDb, StreamStartDb
  <2> QED BY <1>2, <2>3, <2>4, <2>5 DEF StreamStep
<1>3. CASE UNCHANGED vars
  BY <1>3 DEF vars
<1> QED BY <1>1, <1>2, <1>3 DEF Next, Timeout, Over

\* Once a test has written its results nobody changes its rows (throughput_test.sh:325-398:
\* wait, then the report), for every number of tests and streams.
THEOREM ResultsStay == Spec => ReportFinal
<1>1. IInv /\ [Next]_vars =>
        [\A t \in Test :
           pc[t] = "done" => {r \in time_statistics' : r.tag = TAG[t]} =
                             {r \in time_statistics : r.tag = TAG[t]}]_vars
  <2> SUFFICES ASSUME IInv, [Next]_vars, NEW t \in Test, pc[t] = "done"
               PROVE  {r \in time_statistics' : r.tag = TAG[t]} =
                      {r \in time_statistics : r.tag = TAG[t]}
    OBVIOUS
  <2>1. CASE UNCHANGED time_statistics
    BY <2>1
  <2>2. CASE OneTag
    <3>1. PICK u \in Test : /\ pc[u] \notin {"idle", "done"}
                            /\ {r \in time_statistics' : r.tag # TAG[u]} =
                               {r \in time_statistics : r.tag # TAG[u]}
      BY <2>2 DEF OneTag
    <3>2. TAG[t] # TAG[u]
      BY <3>1 DEF IInv, TagsApart
    <3> QED BY <3>1, <3>2
  <2> QED BY <2>1, <2>2, StepOneTag
<1> QED BY <1>1, Invariance, PTL DEF Spec, ReportFinal

-----------------------------------------------------------------------------
(***************************************************************************)
(* The types.  A test that was started has options; it counts the refresh  *)
(* functions only in their loop, which begins at none.                     *)
(***************************************************************************)
TypeInv ==
  /\ TypeOK
  /\ \A t \in Test :
       /\ pc[t] # "idle" => t \in DOMAIN opt
       /\ pc[t] \in {"idle", "stop", "start", "optimize", "streams"} => rf[t] = 0
       /\ pc[t] \in {"rf_insert", "rf", "rf_update"} => rf[t] < 2 * NUM_STREAMS

LEMMA InitTypeInv == Init => TypeInv
BY ThroughputAssumption DEF Init, TypeInv, TypeOK, Test, Stream, Query, Run

\* A command line is one of Command.
LEMMA OptTypes ==
  ASSUME TypeInv, NEW t \in Test, pc[t] # "idle"
  PROVE  t \in DOMAIN opt /\ opt[t] \in Command
<1>1. PICK n \in 1..Tests : opt \in [1..n -> Command]
  BY ThroughputAssumption DEF TypeInv, TypeOK
<1> QED
  BY <1>1 DEF TypeInv

\* What the server does.
LEMMA ServerTypes ==
  ASSUME TypeInv, NEW ok \in BOOLEAN, Try(ok)
  PROVE  db' \in BOOLEAN /\ fails' \in 0..MaxFails
BY ThroughputAssumption DEF TypeInv, TypeOK, Try, Fail

LEMMA FailTypes ==
  ASSUME TypeInv, Fail
  PROVE  fails' \in 0..MaxFails
BY ThroughputAssumption DEF TypeInv, TypeOK, Fail

\* What a batch does to the table.
RowTypes == \A r \in time_statistics : r.run \in Run /\ r.stream \in Stream \cup {NULL}

LEMMA EndingTypes ==
  ASSUME IInv, TypeInv, NEW tag, NEW s, NEW x, NEW n, NEW by,
         time_statistics' = Ending(tag, s, x, n, by)
  PROVE  RowTypes'
<1> SUFFICES ASSUME NEW r \in time_statistics'
             PROVE  r.run \in Run /\ r.stream \in Stream \cup {NULL}
  BY DEF RowTypes
<1>1. PICK o \in time_statistics : r = o \/ r = [o EXCEPT !.e_time = by]
  BY DEF Ending
<1>2. OwnRow(o) /\ o.run \in Run /\ o.stream \in Stream \cup {NULL}
  BY DEF IInv, OwnRows, TypeInv, TypeOK
<1>3. [o EXCEPT !.e_time = by].run = o.run /\ [o EXCEPT !.e_time = by].stream = o.stream
  BY <1>2 DEF OwnRow
<1> QED
  BY <1>1, <1>2, <1>3

LEMMA InsertTypes ==
  ASSUME TypeInv, NEW tag, NEW s \in Stream \cup {NULL}, NEW x, NEW n \in Run, NEW by,
         Insert(Row(tag, s, x, n, by))
  PROVE  RowTypes' /\ db' \in BOOLEAN /\ fails' \in 0..MaxFails
<1>1. PICK ok \in BOOLEAN : Try(ok) /\ time_statistics' =
        IF ok THEN time_statistics \cup {Row(tag, s, x, n, by)} ELSE time_statistics
  BY DEF Insert
<1>2. RowTypes'
  BY <1>1 DEF RowTypes, TypeInv, TypeOK, Row
<1> QED
  BY <1>1, <1>2, ServerTypes

LEMMA FirstRun == 1 \in Run
BY ThroughputAssumption DEF Run

\* A step of a test that leaves its streams and its loops alone.
LEMMA TestTypes ==
  ASSUME TypeInv, NEW t \in Test, NEW l \in TestLabel, pc' = [pc EXCEPT ![t] = l],
         UNCHANGED <<opt, i, rf, stream>>, run_number' \in Nat, TAG' \in [Test -> Nat],
         timeout' \in [Test -> BOOLEAN], db' \in BOOLEAN, fails' \in 0..MaxFails, RowTypes',
         t \in DOMAIN opt,
         l \in {"idle", "stop", "start", "optimize", "streams"} => rf[t] = 0,
         l \in {"rf_insert", "rf", "rf_update"} => rf[t] < 2 * NUM_STREAMS
  PROVE  TypeInv'
<1> USE DEF TypeInv
<1>1. TypeOK'
  BY DEF TypeOK, TestLabel, stream, RowTypes
<1> QED
  BY <1>1 DEF TypeOK

LEMMA StartTypes ==
  ASSUME TypeInv, NEW t \in Test, Start(t)
  PROVE  TypeInv'
<1> DEFINE l == IF opt[t].restart THEN "stop" ELSE "optimize"
<1>1. /\ l \in TestLabel /\ l \in {"stop", "optimize"} /\ pc' = [pc EXCEPT ![t] = l]
      /\ t \in DOMAIN opt /\ rf[t] = 0
  BY DEF Start, Goto, TestLabel, TypeInv
<1>2. /\ run_number' \in Nat /\ TAG' \in [Test -> Nat] /\ RowTypes'
      /\ UNCHANGED <<opt, i, rf, timeout, stream, db, fails>>
  BY DEF Start, TypeInv, TypeOK, RowTypes, server
<1> HIDE DEF l
<1> QED
  BY <1>1, <1>2, TestTypes DEF TypeInv, TypeOK

LEMMA StopStartTypes ==
  ASSUME TypeInv, NEW t \in Test, StopDb(t) \/ StartDb(t)
  PROVE  TypeInv'
<1>1. /\ \E l \in {"start", "optimize", "failed"} : pc' = [pc EXCEPT ![t] = l]
      /\ pc[t] \in {"stop", "start"}
      /\ UNCHANGED <<opt, i, rf, timeout, stream, run_number, TAG, time_statistics>>
      /\ db' \in BOOLEAN /\ (fails' = fails \/ Fail)
  BY DEF StopDb, StartDb, Goto, test, TypeInv, TypeOK
<1>2. t \in DOMAIN opt /\ rf[t] = 0
  BY <1>1 DEF TypeInv
<1>3. fails' \in 0..MaxFails /\ RowTypes' /\ timeout' \in [Test -> BOOLEAN]
      /\ run_number' \in Nat /\ TAG' \in [Test -> Nat]
  BY <1>1, FailTypes DEF TypeInv, TypeOK, RowTypes
<1> QED
  BY <1>1, <1>2, <1>3, TestTypes DEF TestLabel

LEMMA OptimizeTypes ==
  ASSUME TypeInv, NEW t \in Test, Optimize(t)
  PROVE  TypeInv'
<1>1. PICK ok \in BOOLEAN :
        /\ Try(ok)
        /\ pc' = [pc EXCEPT ![t] = IF ok THEN "streams" ELSE "failed"]
        /\ timeout' = [timeout EXCEPT ![t] = ok /\ opt[t].timeout]
  BY DEF Optimize, Goto
<1>2. /\ pc[t] = "optimize"
      /\ UNCHANGED <<opt, i, rf, stream, run_number, TAG, time_statistics>>
  BY DEF Optimize, test
<1>3. t \in DOMAIN opt /\ opt[t].timeout \in BOOLEAN /\ rf[t] = 0
  BY <1>2, OptTypes DEF TypeInv, Command
<1>4. timeout' \in [Test -> BOOLEAN] /\ RowTypes' /\ run_number' \in Nat /\ TAG' \in [Test -> Nat]
  BY <1>1, <1>2, <1>3 DEF TypeInv, TypeOK, RowTypes
<1>5. db' \in BOOLEAN /\ fails' \in 0..MaxFails
  BY <1>1, ServerTypes
<1>6. PICK l \in {"streams", "failed"} : pc' = [pc EXCEPT ![t] = l]
  BY <1>1
<1> QED
  BY <1>2, <1>3, <1>4, <1>5, <1>6, TestTypes DEF TestLabel

\* A step that leaves the tests alone.
LEMMA StreamTypes ==
  ASSUME TypeInv, UNCHANGED <<run_number, opt, TAG, pc, rf, timeout>>,
         i' \in [Test -> 1..(NUM_STREAMS + 1)],
         spc' \in [Test -> [Stream -> StreamLabel]], q' \in [Test -> [Stream -> Query]],
         k' \in [Test -> [Stream -> Run]], printed' \in [Test -> [Stream -> SUBSET Query]],
         db' \in BOOLEAN, fails' \in 0..MaxFails, RowTypes'
  PROVE  TypeInv'
BY DEF TypeInv, TypeOK, StreamLabel, RowTypes

LEMMA StartStreamTypes ==
  ASSUME TypeInv, NEW t \in Test, StartStream(t)
  PROVE  TypeInv'
<1>1. /\ pc[t] = "streams" /\ UNCHANGED <<run_number, opt, TAG, rf, timeout, q, k, printed, db, fails>>
      /\ UNCHANGED time_statistics
  BY DEF StartStream, test, server
<1>2. CASE i[t] <= NUM_STREAMS
  <2> DEFINE n == i[t]
  <2>1. n \in 1..(NUM_STREAMS + 1) /\ NUM_STREAMS \in Nat
    BY ThroughputAssumption DEF TypeInv, TypeOK
  <2>2. n \in Stream /\ n + 1 \in 1..(NUM_STREAMS + 1)
    BY <1>2, <2>1 DEF Stream
  <2>3. spc' = [spc EXCEPT ![t][n] = "insert"] /\ i' = [i EXCEPT ![t] = n + 1] /\ pc' = pc
    BY <1>2 DEF StartStream
  <2> HIDE DEF n
  <2>4. spc' \in [Test -> [Stream -> StreamLabel]] /\ i' \in [Test -> 1..(NUM_STREAMS + 1)]
    BY <2>2, <2>3 DEF TypeInv, TypeOK, StreamLabel
  <2> QED
    BY <1>1, <2>3, <2>4, StreamTypes DEF TypeInv, TypeOK, RowTypes
<1>3. CASE ~(i[t] <= NUM_STREAMS)
  <2>1. PICK l \in {"rf_insert", "wait"} : pc' = [pc EXCEPT ![t] = l]
    BY <1>3 DEF StartStream, Goto
  <2>2. UNCHANGED <<spc, i>>
    BY <1>3 DEF StartStream
  <2>3. rf[t] = 0 /\ 0 < 2 * NUM_STREAMS /\ t \in DOMAIN opt
    BY <1>1, ThroughputAssumption DEF TypeInv
  <2>4. RowTypes' /\ timeout' \in [Test -> BOOLEAN] /\ run_number' \in Nat /\ TAG' \in [Test -> Nat]
        /\ db' \in BOOLEAN /\ fails' \in 0..MaxFails
    BY <1>1 DEF TypeInv, TypeOK, RowTypes
  <2> QED
    BY <1>1, <2>1, <2>2, <2>3, <2>4, TestTypes DEF TestLabel, stream
<1> QED
  BY <1>2, <1>3

LEMMA RfInsertTypes ==
  ASSUME TypeInv, NEW t \in Test, RfInsert(t)
  PROVE  TypeInv'
<1>1. RowTypes' /\ db' \in BOOLEAN /\ fails' \in 0..MaxFails
  BY InsertTypes, FirstRun DEF RfInsert
<1>2. /\ pc[t] = "rf_insert" /\ pc' = [pc EXCEPT ![t] = "rf"]
      /\ UNCHANGED <<run_number, opt, TAG, i, rf, timeout, stream>>
  BY DEF RfInsert, Goto, test
<1> QED
  BY <1>1, <1>2, TestTypes DEF TestLabel, TypeInv, TypeOK

LEMMA RfRunTypes ==
  ASSUME TypeInv, NEW t \in Test, RfRun(t)
  PROVE  TypeInv'
<1>1. PICK ok \in BOOLEAN :
        Try(ok) /\ pc' = [pc EXCEPT ![t] = IF ok THEN "rf_update" ELSE "failed"]
  BY DEF RfRun, Goto
<1>2. PICK l \in {"rf_update", "failed"} : pc' = [pc EXCEPT ![t] = l]
  BY <1>1
<1>3. pc[t] = "rf" /\ UNCHANGED <<run_number, opt, TAG, i, rf, timeout, stream, time_statistics>>
  BY DEF RfRun, test
<1>4. db' \in BOOLEAN /\ fails' \in 0..MaxFails
  BY <1>1, ServerTypes
<1> QED
  BY <1>2, <1>3, <1>4, TestTypes DEF TestLabel, TypeInv, TypeOK, RowTypes

LEMMA RfUpdateTypes ==
  ASSUME IInv, TypeInv, NEW t \in Test, RfUpdate(t)
  PROVE  TypeInv'
<1>1. PICK ok \in BOOLEAN :
        /\ Try(ok)
        /\ time_statistics' = IF ok THEN Ending(TAG[t], NULL, RF(t), 1, RfBy(t))
                                    ELSE time_statistics
  BY DEF RfUpdate
<1>2. RowTypes' /\ db' \in BOOLEAN /\ fails' \in 0..MaxFails
  BY <1>1, EndingTypes, ServerTypes DEF TypeInv, TypeOK, RowTypes
<1>3. /\ pc[t] = "rf_update" /\ rf' = [rf EXCEPT ![t] = rf[t] + 1]
      /\ pc' = [pc EXCEPT ![t] = IF rf[t] + 1 < 2 * NUM_STREAMS THEN "rf_insert" ELSE "wait"]
      /\ UNCHANGED <<run_number, opt, TAG, i, timeout, stream>>
  BY DEF RfUpdate, Goto, test
<1>4. rf[t] \in Nat /\ rf[t] < 2 * NUM_STREAMS /\ NUM_STREAMS \in Nat /\ t \in DOMAIN opt
  BY <1>3, ThroughputAssumption DEF TypeInv, TypeOK
<1>5. rf' \in [Test -> 0..(2 * NUM_STREAMS)]
  BY <1>3, <1>4 DEF TypeInv, TypeOK
<1>6. pc' \in [Test -> TestLabel]
  BY <1>3 DEF TypeInv, TypeOK, TestLabel
<1>7. TypeOK'
  BY <1>2, <1>3, <1>5, <1>6 DEF TypeInv, TypeOK, RowTypes, TestLabel, stream
<1>8. ASSUME NEW u \in Test
      PROVE  /\ pc'[u] # "idle" => u \in DOMAIN opt'
             /\ pc'[u] \in {"idle", "stop", "start", "optimize", "streams"} => rf'[u] = 0
             /\ pc'[u] \in {"rf_insert", "rf", "rf_update"} => rf'[u] < 2 * NUM_STREAMS
  BY <1>3, <1>4 DEF TypeInv, TypeOK
<1> QED
  BY <1>7, <1>8 DEF TypeInv

LEMMA LeavingTypes ==
  ASSUME TypeInv, NEW t \in Test, Wait(t) \/ Report(t) \/ Interrupt(t)
  PROVE  TypeInv'
<1>1. /\ \E l \in {"report", "done", "failed"} : pc' = [pc EXCEPT ![t] = l]
      /\ pc[t] # "idle"
      /\ UNCHANGED <<opt, i, rf, stream, run_number, TAG, time_statistics, db>>
      /\ fails' = fails \/ Fail
      /\ timeout' = timeout \/ timeout' = [timeout EXCEPT ![t] = FALSE]
  BY DEF Wait, Report, Interrupt, Goto, test, server
<1>2. t \in DOMAIN opt
  BY <1>1 DEF TypeInv
<1>3. fails' \in 0..MaxFails /\ RowTypes' /\ timeout' \in [Test -> BOOLEAN]
      /\ run_number' \in Nat /\ TAG' \in [Test -> Nat] /\ db' \in BOOLEAN
  BY <1>1, FailTypes DEF TypeInv, TypeOK, RowTypes
<1> QED
  BY <1>1, <1>2, <1>3, TestTypes DEF TestLabel

LEMMA BatchInsertTypes ==
  ASSUME TypeInv, NEW t \in Test, NEW s \in Stream, BatchInsert(t, s)
  PROVE  TypeInv'
<1>1. k[t][s] \in Run
  BY DEF TypeInv, TypeOK
<1>2. RowTypes' /\ db' \in BOOLEAN /\ fails' \in 0..MaxFails
  BY <1>1, InsertTypes DEF BatchInsert
<1>3. /\ spc' = [spc EXCEPT ![t][s] = "update"]
      /\ UNCHANGED <<run_number, opt, TAG, pc, i, rf, timeout, q, k, printed>>
  BY DEF BatchInsert, StreamGoto, test
<1>4. spc' \in [Test -> [Stream -> StreamLabel]]
  BY <1>3 DEF TypeInv, TypeOK, StreamLabel
<1> QED
  BY <1>2, <1>3, <1>4, StreamTypes DEF TypeInv, TypeOK

LEMMA BatchUpdateTypes ==
  ASSUME IInv, TypeInv, NEW t \in Test, NEW s \in Stream, BatchUpdate(t, s)
  PROVE  TypeInv'
<1>1. PICK ok \in BOOLEAN :
        /\ Try(ok)
        /\ time_statistics' = IF ok THEN Ending(TAG[t], s, q[t][s], k[t][s], By(t, s))
                                    ELSE time_statistics
        /\ StreamGoto(t, s, IF k[t][s] < LastRun THEN "insert" ELSE IF ok THEN "check" ELSE "failed")
  BY DEF BatchUpdate
<1>2. RowTypes' /\ db' \in BOOLEAN /\ fails' \in 0..MaxFails
  BY <1>1, EndingTypes, ServerTypes DEF TypeInv, TypeOK, RowTypes
<1>3. PICK l \in StreamLabel : spc' = [spc EXCEPT ![t][s] = l]
  BY <1>1 DEF StreamGoto, StreamLabel
<1>4. spc' \in [Test -> [Stream -> StreamLabel]]
  BY <1>3 DEF TypeInv, TypeOK, StreamLabel
<1>5. PICK n \in Run : k' = [k EXCEPT ![t][s] = n]
  <2>1. k[t][s] \in Run /\ LastRun \in Nat /\ Run = 1..LastRun
    BY ThroughputAssumption DEF TypeInv, TypeOK, Run, LastRun
  <2>2. (IF k[t][s] < LastRun THEN k[t][s] + 1 ELSE 1) \in Run
    BY <2>1, FirstRun
  <2> QED
    BY <2>2 DEF BatchUpdate
<1>6. k' \in [Test -> [Stream -> Run]]
  BY <1>5 DEF TypeInv, TypeOK
<1>7. UNCHANGED <<run_number, opt, TAG, pc, i, rf, timeout, q, printed>>
  BY DEF BatchUpdate, test
<1> QED
  BY <1>2, <1>4, <1>6, <1>7, StreamTypes DEF TypeInv, TypeOK

LEMMA NextQueryTypes ==
  ASSUME TypeInv, NEW t \in Test, NEW s \in Stream, NextQuery(t, s)
  PROVE  q' \in [Test -> [Stream -> Query]] /\ spc' \in [Test -> [Stream -> StreamLabel]]
<1>1. PICK n \in Query : q' = [q EXCEPT ![t][s] = n]
  <2>1. q[t][s] \in Query /\ Queries \in Nat /\ Query = 1..Queries
    BY ThroughputAssumption DEF TypeInv, TypeOK, Query
  <2>2. (IF q[t][s] < Queries THEN q[t][s] + 1 ELSE q[t][s]) \in Query
    BY <2>1
  <2> QED
    BY <2>2 DEF NextQuery
<1>2. PICK l \in StreamLabel : spc' = [spc EXCEPT ![t][s] = l]
  BY DEF NextQuery, StreamGoto, StreamLabel
<1> QED
  BY <1>1, <1>2 DEF TypeInv, TypeOK, StreamLabel

LEMMA CheckTypes ==
  ASSUME TypeInv, NEW t \in Test, NEW s \in Stream, Check(t, s)
  PROVE  TypeInv'
<1>1. PICK ok \in BOOLEAN :
        /\ Try(ok)
        /\ printed' = [printed EXCEPT ![t][s] =
                         IF ok /\ Durations(t, s) # {} THEN @ ELSE @ \cup {q[t][s]}]
  BY DEF Check
<1>2. db' \in BOOLEAN /\ fails' \in 0..MaxFails
  BY <1>1, ServerTypes
<1>3. q[t][s] \in Query /\ printed[t][s] \subseteq Query
  BY DEF TypeInv, TypeOK
<1>4. PICK S \in SUBSET Query : printed' = [printed EXCEPT ![t][s] = S]
  BY <1>1, <1>3
<1>5. printed' \in [Test -> [Stream -> SUBSET Query]]
  BY <1>4 DEF TypeInv, TypeOK
<1>6. q' \in [Test -> [Stream -> Query]] /\ spc' \in [Test -> [Stream -> StreamLabel]]
  <2>1. CASE opt[t].qrst
    <3>1. spc' = [spc EXCEPT ![t][s] = "stop"] /\ UNCHANGED q
      BY <2>1 DEF Check, StreamGoto
    <3>2. PICK l \in StreamLabel : spc' = [spc EXCEPT ![t][s] = l]
      BY <3>1 DEF StreamLabel
    <3>3. spc \in [Test -> [Stream -> StreamLabel]] /\ q \in [Test -> [Stream -> Query]]
      BY DEF TypeInv, TypeOK, StreamLabel
    <3> QED
      BY <3>1, <3>2, <3>3
  <2>2. CASE ~opt[t].qrst
    BY <2>2, NextQueryTypes DEF Check
  <2> QED
    BY <2>1, <2>2
<1>7. UNCHANGED <<run_number, opt, TAG, pc, i, rf, timeout, k, time_statistics>>
  BY DEF Check, test
<1> QED
  BY <1>2, <1>5, <1>6, <1>7, StreamTypes DEF TypeInv, TypeOK, RowTypes

LEMMA StreamDbTypes ==
  ASSUME TypeInv, NEW t \in Test, NEW s \in Stream, StreamStopDb(t, s) \/ StreamStartDb(t, s)
  PROVE  TypeInv'
<1>1. /\ db' \in BOOLEAN /\ (fails' = fails \/ Fail)
      /\ UNCHANGED <<run_number, opt, TAG, pc, i, rf, timeout, k, printed, time_statistics>>
  BY DEF StreamStopDb, StreamStartDb, test, TypeInv, TypeOK
<1>2. q' \in [Test -> [Stream -> Query]] /\ spc' \in [Test -> [Stream -> StreamLabel]]
  <2>1. CASE StreamStopDb(t, s)
    <3>1. PICK l \in {"start", "failed"} : spc' = [spc EXCEPT ![t][s] = l]
      BY <2>1 DEF StreamStopDb, StreamGoto
    <3>2. UNCHANGED q
      BY <2>1 DEF StreamStopDb
    <3> QED
      BY <3>1, <3>2 DEF TypeInv, TypeOK, StreamLabel
  <2>2. CASE StreamStartDb(t, s)
    BY <2>2, NextQueryTypes DEF StreamStartDb
  <2> QED
    BY <2>1, <2>2
<1>3. fails' \in 0..MaxFails
  BY <1>1, FailTypes DEF TypeInv, TypeOK
<1> QED
  BY <1>1, <1>2, <1>3, StreamTypes DEF TypeInv, TypeOK, RowTypes

LEMMA StillTypes ==
  ASSUME TypeInv, UNCHANGED vars
  PROVE  TypeInv'
BY DEF TypeInv, TypeOK, vars, test, stream, server

LEMMA NextTypes == IInv /\ TypeInv /\ [Next]_vars => TypeInv'
<1> SUFFICES ASSUME IInv, TypeInv, [Next]_vars PROVE TypeInv'
  OBVIOUS
<1>1. ASSUME NEW t \in Test, Start(t) \/ TestStep(t) \/ Interrupt(t) PROVE TypeInv'
  BY <1>1, StartTypes, StopStartTypes, OptimizeTypes, StartStreamTypes, RfInsertTypes,
     RfRunTypes, RfUpdateTypes, LeavingTypes DEF TestStep
<1>2. ASSUME NEW t \in Test, NEW s \in Stream, StreamStep(t, s) PROVE TypeInv'
  BY <1>2, BatchInsertTypes, BatchUpdateTypes, CheckTypes, StreamDbTypes DEF StreamStep
<1>3. ASSUME UNCHANGED vars PROVE TypeInv'
  BY <1>3, StillTypes
<1> QED
  BY <1>1, <1>2, <1>3 DEF Next, Timeout, Over

\* The variables keep their types: no stream is started beyond -n, no refresh function beyond
\* two for each stream, and no run or query beyond the last (the loops of throughput_test.sh
\* and run_throughput_stream.sh).
THEOREM TypesKept == Spec => []TypeOK
<1>1. Init => IInv /\ TypeInv
  BY InitInv, InitTypeInv
<1>2. IInv /\ TypeInv /\ [Next]_vars => IInv' /\ TypeInv'
  BY NextInv, NextTypes
<1>3. TypeInv => TypeOK
  BY DEF TypeInv
<1> QED
  BY <1>1, <1>2, <1>3, PTL DEF Spec

-----------------------------------------------------------------------------
\* A stream that ends well has accounted for each of its queries, when each is run once.

\* A query that is reported as failed, or has a row with its end.
Answered(t, s, x) ==
  \/ x \in printed[t][s]
  \/ \E r \in time_statistics :
       r.tag = TAG[t] /\ r.stream = s /\ r.task = x /\ r.run > N_OPTMZ /\ r.e_time # NoTime

\* What is true of a stream: the queries that it has passed are answered, and while it looks up
\* the duration of a query, the rows it can find have their end.
Mine(t, s) ==
  /\ pc[t] = "idle" => spc[t][s] = "none" /\ q[t][s] = 1
  /\ \A x \in Query : x < q[t][s] => Answered(t, s, x)
  /\ spc[t][s] \in {"stop", "start", "done"} => Answered(t, s, q[t][s])
  /\ spc[t][s] = "done" => q[t][s] = Queries
  /\ spc[t][s] = "check" => \A r \in Durations(t, s) : r.e_time # NoTime

Bounds ==
  /\ q \in [Test -> [Stream -> Query]]
  /\ k \in [Test -> [Stream -> Run]]
  /\ printed \in [Test -> [Stream -> SUBSET Query]]
  /\ \A r \in time_statistics : r.run \in Run

Account == Bounds /\ \A t \in Test, s \in Stream : Mine(t, s)

-----------------------------------------------------------------------------
LEMMA Numbers ==
  /\ N_OPTMZ \in Nat /\ N_RUN \in Nat /\ N_RUN > 0 /\ Queries \in Nat /\ Queries > 0
  /\ Run = 1..LastRun /\ LastRun \in Nat /\ 1 \in Run /\ 1 \in Query /\ Query \subseteq Nat
  /\ NULL \notin Stream
BY ThroughputAssumption DEF Run, LastRun, Query, Stream, NULL

LEMMA InitAccount == Init => Account
<1> SUFFICES ASSUME Init PROVE Account
  OBVIOUS
<1>1. Bounds
  BY Numbers DEF Init, Bounds
<1>2. ASSUME NEW t \in Test, NEW s \in Stream PROVE Mine(t, s)
  BY Numbers DEF Init, Mine, Query
<1> QED
  BY <1>1, <1>2 DEF Account

\* The row is the other one, with no end taken from it.
Kept(o, r) ==
  /\ r.tag = o.tag /\ r.stream = o.stream /\ r.task = o.task /\ r.run = o.run
  /\ o.e_time # NoTime => r.e_time # NoTime

\* A step of a stream on the table: rows stay, with their ends, and the new ones are its own.
TableStep(t, s) ==
  /\ \A o \in time_statistics : \E r \in time_statistics' : Kept(o, r)
  /\ \A r \in time_statistics' :
       \/ \E o \in time_statistics : Kept(o, r)
       \/ r.tag = TAG[t] /\ r.stream = s /\ r.run \in Run

LEMMA TableSame == ASSUME NEW t, NEW s, UNCHANGED time_statistics PROVE TableStep(t, s)
BY DEF TableStep, Kept

LEMMA TableAdded ==
  ASSUME NEW t, NEW s, NEW x, NEW n \in Run, NEW by,
         time_statistics' = time_statistics \cup {Row(TAG[t], s, x, n, by)}
  PROVE  TableStep(t, s)
BY DEF TableStep, Kept, Row

LEMMA EndOfRow ==
  ASSUME NEW o, OwnRow(o), NEW by, by # NoTime
  PROVE  Kept(o, [o EXCEPT !.e_time = by]) /\ [o EXCEPT !.e_time = by].e_time = by
<1>1. o = [tag |-> o.tag, stream |-> o.stream, task |-> o.task, run |-> o.run,
           by |-> o.by, e_time |-> o.e_time]
  BY DEF OwnRow
<1>2. [o EXCEPT !.e_time = by] = [tag |-> o.tag, stream |-> o.stream, task |-> o.task,
                                  run |-> o.run, by |-> o.by, e_time |-> by]
  BY <1>1
<1> HIDE DEF NoTime
<1> QED
  BY <1>2 DEF Kept

LEMMA TableEnded ==
  ASSUME OwnRows, NEW t, NEW s, NEW x, NEW n, NEW by, by # NoTime,
         time_statistics' = Ending(TAG[t], s, x, n, by)
  PROVE  TableStep(t, s)
<1> DEFINE Ours(o) == o.tag = TAG[t] /\ o.stream = s /\ o.task = x /\ o.run = n
           New(o) == IF Ours(o) THEN [o EXCEPT !.e_time = by] ELSE o
<1>1. ASSUME NEW o \in time_statistics PROVE Kept(o, New(o))
  <2>1. OwnRow(o)
    BY DEF OwnRows
  <2>2. Kept(o, o) /\ Kept(o, [o EXCEPT !.e_time = by])
    BY <2>1, EndOfRow DEF Kept
  <2> QED
    BY <2>2
<1>2. time_statistics' = {New(o) : o \in time_statistics}
  BY DEF Ending
<1> HIDE DEF New
<1> QED
  BY <1>1, <1>2 DEF TableStep

LEMMA AnsweredStays ==
  ASSUME NEW t, NEW s, TableStep(t, s), NEW u \in Test, NEW v \in Stream, NEW x,
         TAG'[u] = TAG[u], printed[u][v] \subseteq printed'[u][v], Answered(u, v, x)
  PROVE  Answered(u, v, x)'
<1> HIDE DEF NoTime
<1> QED
  BY DEF Answered, TableStep, Kept

LEMMA RunsStay ==
  ASSUME NEW t, NEW s, TableStep(t, s), \A r \in time_statistics : r.run \in Run
  PROVE  \A r \in time_statistics' : r.run \in Run
BY DEF TableStep, Kept

\* The by of a row, which has parts, is not the time that is none.
LEMMA ByIsTime == ASSUME NEW a, NEW b, NEW c, NEW d PROVE <<a, b, c, d>> # NoTime
BY DEF NoTime

\* The other streams: nothing of theirs changes but the table.
LEMMA OtherStreams ==
  ASSUME IInv, Account, Started, NEW t \in Test, pc[t] # "idle", NEW s \in Stream \cup {NULL},
         TableStep(t, s), NEW u \in Test, NEW v \in Stream, <<u, v>> # <<t, s>>,
         TAG'[u] = TAG[u], TAG'[t] = TAG[t], spc'[u][v] = spc[u][v], q'[u][v] = q[u][v],
         printed'[u][v] = printed[u][v]
  PROVE  Mine(u, v)'
<1>1. Mine(u, v)
  BY DEF Account
<1>2. \A x \in Query : Answered(u, v, x) => Answered(u, v, x)'
  BY AnsweredStays
<1>3. q[u][v] \in Query
  BY DEF Account, Bounds
<1>4. pc'[u] = "idle" => pc[u] = "idle"
  BY DEF Started
<1>5. ASSUME spc[u][v] = "check", NEW r \in Durations(u, v)' PROVE r.e_time # NoTime
  <2>1. r \in time_statistics' /\ r.tag = TAG[u] /\ r.stream = v /\ r.task = q[u][v] /\ r.run > N_OPTMZ
    BY <1>5 DEF Durations
  <2>2. pc[u] # "idle"
    BY <1>1, <1>5 DEF Mine
  <2>3. ~(r.tag = TAG[t] /\ r.stream = s)
    BY <2>1, <2>2 DEF IInv, TagsApart
  <2>4. PICK o \in time_statistics : Kept(o, r)
    BY <2>1, <2>3 DEF TableStep
  <2>5. o \in Durations(u, v)
    BY <2>1, <2>4 DEF Durations, Kept
  <2> QED
    BY <1>1, <1>5, <2>4, <2>5 DEF Mine, Kept
<1> HIDE DEF NoTime
<1>6. Answered(u, v, q[u][v]) => Answered(u, v, q[u][v])'
  BY <1>2, <1>3, AnsweredStays
<1>7. /\ pc'[u] = "idle" => spc'[u][v] = "none" /\ q'[u][v] = 1
      /\ \A x \in Query : x < q'[u][v] => Answered(u, v, x)'
      /\ spc'[u][v] = "done" => q'[u][v] = Queries
      /\ spc'[u][v] = "check" => \A r \in Durations(u, v)' : r.e_time # NoTime
  BY <1>1, <1>2, <1>4, <1>5 DEF Mine
<1>8. spc'[u][v] \in {"stop", "start", "done"} => Answered(u, v, q[u][v])'
  BY <1>1, <1>6 DEF Mine
<1> QED
  BY <1>7, <1>8 DEF Mine

\* A test that goes on, with its refresh stream or without, leaves its streams as they are.
LEMMA TestAccount ==
  ASSUME IInv, Account, Started, NEW t \in Test, pc[t] # "idle",
         TableStep(t, NULL), UNCHANGED <<TAG, stream>>
  PROVE  Account'
<1>1. Bounds'
  BY RunsStay DEF Account, Bounds, stream
<1>2. ASSUME NEW u \in Test, NEW v \in Stream PROVE Mine(u, v)'
  <2>1. <<u, v>> # <<t, NULL>>
    BY Numbers
  <2> QED
    BY <2>1, OtherStreams DEF stream
<1> QED
  BY <1>1, <1>2 DEF Account

\* A test that starts has done nothing yet, and takes its tag.
LEMMA StartAccount ==
  ASSUME IInv, Account, NEW t \in Test, Start(t)
  PROVE  Account'
<1>1. pc[t] = "idle" /\ UNCHANGED <<spc, q, k, printed, time_statistics>>
      /\ \A u \in Test : u # t => TAG'[u] = TAG[u] /\ pc'[u] = pc[u]
  BY DEF Start, stream, IInv, Types, Goto
<1>2. Bounds'
  BY <1>1 DEF Account, Bounds
<1>3. ASSUME NEW u \in Test, NEW v \in Stream PROVE Mine(u, v)'
  <2>1. Mine(u, v)
    BY DEF Account
  <2>2. CASE u = t
    <3>1. spc'[u][v] = "none" /\ q'[u][v] = 1
      BY <1>1, <2>1, <2>2 DEF Mine
    <3> QED
      BY <3>1 DEF Mine, Query
  <2>3. CASE u # t
    <3>1. \A x : Answered(u, v, x) => Answered(u, v, x)'
      BY <1>1, <2>3 DEF Answered
    <3>2. Durations(u, v)' = Durations(u, v)
      BY <1>1, <2>3 DEF Durations
    <3>3. Answered(u, v, q[u][v]) => Answered(u, v, q[u][v])'
      BY <1>1, <2>3 DEF Answered
    <3> HIDE DEF NoTime
    <3> QED
      BY <1>1, <2>1, <2>3, <3>1, <3>2, <3>3 DEF Mine
  <2> QED
    BY <2>2, <2>3
<1> QED
  BY <1>2, <1>3 DEF Account

\* The step of a stream: what is left to show is what is true of that stream.
LEMMA StreamAccount ==
  ASSUME IInv, Account, Started, NEW t \in Test, NEW s \in Stream, pc[t] # "idle",
         TableStep(t, s), UNCHANGED <<pc, TAG>>,
         NEW l, spc' = [spc EXCEPT ![t][s] = l],
         q' \in [Test -> [Stream -> Query]], k' \in [Test -> [Stream -> Run]],
         printed' \in [Test -> [Stream -> SUBSET Query]],
         \A u \in Test, v \in Stream : <<u, v>> # <<t, s>> =>
           q'[u][v] = q[u][v] /\ printed'[u][v] = printed[u][v],
         Mine(t, s)'
  PROVE  Account'
<1>1. Bounds'
  BY RunsStay DEF Account, Bounds
<1>2. ASSUME NEW u \in Test, NEW v \in Stream, <<u, v>> # <<t, s>> PROVE Mine(u, v)'
  <2>1. spc'[u][v] = spc[u][v]
    BY <1>2 DEF IInv, Types
  <2> QED
    BY <1>2, <2>1, OtherStreams
<1> QED
  BY <1>1, <1>2 DEF Account

\* What a stream has answered before stays so while it is at the same query.
LEMMA PassedStays ==
  ASSUME Account, NEW t \in Test, NEW s \in Stream, NEW r, TableStep(t, r), TAG'[t] = TAG[t],
         printed[t][s] \subseteq printed'[t][s], q'[t][s] = q[t][s]
  PROVE  /\ \A x \in Query : x < q'[t][s] => Answered(t, s, x)'
         /\ \A x : Answered(t, s, x) => Answered(t, s, x)'
<1>1. \A x : Answered(t, s, x) => Answered(t, s, x)'
  BY AnsweredStays
<1> QED
  BY <1>1 DEF Account, Mine

\* Steps to a place where a stream is in the middle of a query, or has failed.
LEMMA BetweenAccount ==
  ASSUME IInv, Account, Started, NEW t \in Test, NEW s \in Stream, pc[t] # "idle",
         TableStep(t, s), UNCHANGED <<pc, TAG, q, printed>>,
         NEW l \in {"insert", "update", "failed"}, spc' = [spc EXCEPT ![t][s] = l],
         k' \in [Test -> [Stream -> Run]]
  PROVE  Account'
<1>1. spc'[t][s] = l
  BY DEF IInv, Types
<1>2. \A x \in Query : x < q'[t][s] => Answered(t, s, x)'
  BY PassedStays
<1>3. Mine(t, s)'
  BY <1>1, <1>2 DEF Mine
<1> QED
  BY <1>3, StreamAccount DEF Account, Bounds

\* A stream that is started begins with its first query.
LEMMA StartStreamAccount ==
  ASSUME IInv, Account, NEW t \in Test, StartStream(t), Started
  PROVE  Account'
<1>1. pc[t] = "streams" /\ UNCHANGED <<TAG, q, k, printed, time_statistics>>
  BY DEF StartStream, test
<1>2. CASE i[t] <= NUM_STREAMS
  <2> DEFINE n == i[t]
  <2>3. n \in Nat \ {0} /\ n <= NUM_STREAMS
    BY <1>2 DEF IInv, Types
  <2>4. n \in Stream
    BY <2>3, ThroughputAssumption DEF Stream
  <2>5. spc' = [spc EXCEPT ![t][n] = "insert"] /\ UNCHANGED pc
    BY <1>2 DEF StartStream
  <2>1. PICK s \in Stream : spc' = [spc EXCEPT ![t][s] = "insert"] /\ UNCHANGED pc
    BY <2>4, <2>5
  <2>2. TableStep(t, s) /\ k' \in [Test -> [Stream -> Run]]
    BY <1>1, TableSame DEF Account, Bounds
  <2> QED
    BY <1>1, <2>1, <2>2, BetweenAccount
<1>3. CASE ~(i[t] <= NUM_STREAMS)
  BY <1>1, <1>3, TableSame, TestAccount DEF StartStream, stream
<1> QED
  BY <1>2, <1>3

\* A stream that is not over belongs to a test that was started.
LEMMA StreamOfTest ==
  ASSUME Account, NEW t \in Test, NEW s \in Stream, spc[t][s] # "none"
  PROVE  pc[t] # "idle"
BY DEF Account, Mine

LEMMA BatchInsertAccount ==
  ASSUME IInv, Account, Started, NEW t \in Test, NEW s \in Stream, BatchInsert(t, s)
  PROVE  Account'
<1>1. spc[t][s] = "insert" /\ spc' = [spc EXCEPT ![t][s] = "update"]
      /\ UNCHANGED <<pc, TAG, q, k, printed>>
  BY DEF BatchInsert, StreamGoto, test
<1>2. k[t][s] \in Run /\ k' \in [Test -> [Stream -> Run]]
  BY <1>1 DEF Account, Bounds
<1>3. \/ UNCHANGED time_statistics
      \/ time_statistics' =
           time_statistics \cup {Row(TAG[t], s, q[t][s], k[t][s], By(t, s))}
  BY DEF BatchInsert, Insert
<1>4. TableStep(t, s)
  BY <1>2, <1>3, TableSame, TableAdded
<1> QED
  BY <1>1, <1>2, <1>4, StreamOfTest, BetweenAccount

\* When each query is run once, the last update of a batch ends all rows that Check looks for.
LEMMA BatchUpdateAccount ==
  ASSUME IInv, Account, Started, N_RUN = 1, NEW t \in Test, NEW s \in Stream, BatchUpdate(t, s)
  PROVE  Account'
<1>1. spc[t][s] = "update" /\ UNCHANGED <<pc, TAG, q, printed>>
  BY DEF BatchUpdate, test
<1>2. By(t, s) # NoTime
  BY ByIsTime DEF By
<1>3. \/ UNCHANGED time_statistics
      \/ time_statistics' = Ending(TAG[t], s, q[t][s], k[t][s], By(t, s))
  BY DEF BatchUpdate
<1>4. TableStep(t, s)
  BY <1>2, <1>3, TableSame, TableEnded DEF IInv
<1>5. pc[t] # "idle"
  BY <1>1, StreamOfTest
<1>6. k[t][s] \in Run /\ k' \in [Test -> [Stream -> Run]]
  BY Numbers DEF BatchUpdate, Account, Bounds
<1>7. CASE \E l \in {"insert", "failed"} : StreamGoto(t, s, l)
  BY <1>1, <1>4, <1>5, <1>6, <1>7, BetweenAccount DEF StreamGoto
<1>8. CASE /\ StreamGoto(t, s, "check") /\ k[t][s] >= LastRun
           /\ time_statistics' = Ending(TAG[t], s, q[t][s], k[t][s], By(t, s))
  <2>1. spc' = [spc EXCEPT ![t][s] = "check"] /\ spc'[t][s] = "check"
    BY <1>8 DEF StreamGoto, IInv, Types
  <2>2. k[t][s] = LastRun /\ LastRun = N_OPTMZ + 1
    BY <1>6, <1>8, Numbers DEF LastRun
  <2>3. ASSUME NEW r \in Durations(t, s)' PROVE r.e_time # NoTime
    <3>1. r \in time_statistics' /\ r.tag = TAG[t] /\ r.stream = s /\ r.task = q[t][s] /\ r.run > N_OPTMZ
      BY <1>1, <2>3 DEF Durations
    <3>2. r.run \in Run
      BY <1>4, <3>1, RunsStay DEF Account, Bounds
    <3>3. r.run = k[t][s]
      BY <2>2, <3>1, <3>2, Numbers
    <3>4. PICK o \in time_statistics :
            r = IF o.tag = TAG[t] /\ o.stream = s /\ o.task = q[t][s] /\ o.run = k[t][s]
                  THEN [o EXCEPT !.e_time = By(t, s)] ELSE o
      BY <1>8, <3>1 DEF Ending
    <3>5. OwnRow(o)
      BY DEF IInv, OwnRows
    <3>6. r = [o EXCEPT !.e_time = By(t, s)]
      BY <3>1, <3>3, <3>4
    <3> QED
      BY <1>2, <3>5, <3>6, EndOfRow
  <2>4. \A x \in Query : x < q'[t][s] => Answered(t, s, x)'
    BY <1>1, <1>4, PassedStays
  <2>5. Mine(t, s)'
    BY <1>1, <1>5, <2>1, <2>3, <2>4 DEF Mine
  <2> QED
    BY <1>1, <1>4, <1>5, <1>6, <2>1, <2>5, StreamAccount DEF Account, Bounds
<1> QED
  BY <1>6, <1>7, <1>8, Numbers DEF BatchUpdate

LEMMA LastOrNot == ASSUME NEW n \in Query, NEW x \in Query, x <= n PROVE x < n \/ x = n
BY Numbers

LEMMA LastQuery == ASSUME NEW n \in Query, ~(n < Queries) PROVE n = Queries
BY Numbers DEF Query

\* A query that is answered is passed.
LEMMA NextQueryAccount ==
  ASSUME IInv, Account, Started, NEW t \in Test, NEW s \in Stream, pc[t] # "idle",
         TableStep(t, s), UNCHANGED <<pc, TAG, k>>, NextQuery(t, s),
         printed' \in [Test -> [Stream -> SUBSET Query]],
         \A u \in Test, v \in Stream : <<u, v>> # <<t, s>> => printed'[u][v] = printed[u][v],
         \A x \in Query : x <= q[t][s] => Answered(t, s, x)'
  PROVE  Account'
<1>1. PICK l \in {"insert", "done"} :
        /\ spc' = [spc EXCEPT ![t][s] = l]
        /\ l = IF q[t][s] < Queries THEN "insert" ELSE "done"
  BY DEF NextQuery, StreamGoto
<1>2. spc'[t][s] = l
  BY <1>1 DEF IInv, Types
<1>3. q \in [Test -> [Stream -> Query]] /\ k \in [Test -> [Stream -> Run]]
      /\ q[t][s] \in 1..Queries /\ Queries \in Nat
  BY Numbers DEF Account, Bounds, Query
<1>4. q'[t][s] = (IF q[t][s] < Queries THEN q[t][s] + 1 ELSE q[t][s]) /\ q'[t][s] \in Query
  BY <1>3 DEF NextQuery, Query
<1>5. /\ q' \in [Test -> [Stream -> Query]]
      /\ \A u \in Test, v \in Stream : <<u, v>> # <<t, s>> => q'[u][v] = q[u][v]
  BY <1>3, <1>4 DEF NextQuery
<1>6. \A x \in Query : x < q'[t][s] => Answered(t, s, x)'
  BY <1>3, <1>4 DEF Query
<1>7. l = "done" => q'[t][s] = q[t][s] /\ q[t][s] = Queries
  <2>1. l = "done" => ~(q[t][s] < Queries)
    BY <1>1
  <2>2. ~(q[t][s] < Queries) => q'[t][s] = q[t][s]
    BY <1>4
  <2>3. q[t][s] \in Query
    BY <1>3 DEF Query
  <2>4. ~(q[t][s] < Queries) => q[t][s] = Queries
    BY <2>3, LastQuery
  <2> QED
    BY <2>1, <2>2, <2>4
<1>8. \A x \in Query : x = q[t][s] => Answered(t, s, x)'
  BY <1>3 DEF Query
<1>9. l = "done" => Answered(t, s, q[t][s])'
  <2>1. ASSUME NEW x \in Query, Answered(t, s, x)', x = q'[t][s] PROVE Answered(t, s, q[t][s])'
    BY <2>1
  <2> QED
    BY <1>4, <1>7, <1>8, <2>1
<1>10. Mine(t, s)'
  BY <1>2, <1>6, <1>7, <1>9 DEF Mine
<1> QED
  BY <1>1, <1>3, <1>5, <1>10, StreamAccount

\* A stream that has looked up the duration of its query has a row with an end, or has reported
\* the query; it stays with the query when it restarts the server.
LEMMA CheckAccount ==
  ASSUME IInv, Account, Started, NEW t \in Test, NEW s \in Stream, Check(t, s)
  PROVE  Account'
<1>1. spc[t][s] = "check" /\ UNCHANGED <<pc, TAG, k, time_statistics>>
  BY DEF Check, test
<1>2. TableStep(t, s)
  BY <1>1, TableSame
<1>3. pc[t] # "idle"
  BY <1>1, StreamOfTest
<1>4. /\ printed' \in [Test -> [Stream -> SUBSET Query]]
      /\ \A u \in Test, v \in Stream : <<u, v>> # <<t, s>> => printed'[u][v] = printed[u][v]
      /\ printed[t][s] \subseteq printed'[t][s]
      /\ Durations(t, s) # {} \/ q[t][s] \in printed'[t][s]
  BY DEF Check, Account, Bounds
<1>5. \A r \in Durations(t, s) : r.e_time # NoTime
  BY <1>1 DEF Account, Mine
<1>6. \A x : Answered(t, s, x) => Answered(t, s, x)'
  BY <1>1, <1>2, <1>4, AnsweredStays
<1>7. \A x \in Query : x <= q[t][s] => Answered(t, s, x)'
  <2> SUFFICES ASSUME NEW x \in Query, x <= q[t][s] PROVE Answered(t, s, x)'
    OBVIOUS
  <2>1. q[t][s] \in Query /\ Query \subseteq Nat
    BY Numbers DEF Account, Bounds
  <2>2. CASE x < q[t][s]
    <3>1. Answered(t, s, x)
      BY <2>2 DEF Account, Mine
    <3> QED
      BY <1>6, <3>1
  <2>3. CASE x = q[t][s] /\ q[t][s] \in printed'[t][s]
    BY <2>3 DEF Answered
  <2>4. CASE x = q[t][s] /\ Durations(t, s) # {}
    <3>1. PICK r \in Durations(t, s) : r.e_time # NoTime
      BY <1>5, <2>4
    <3>2. Answered(t, s, x)
      BY <2>4, <3>1 DEF Answered, Durations
    <3> QED
      BY <1>6, <3>2
  <2>5. x < q[t][s] \/ x = q[t][s]
    BY <2>1, LastOrNot
  <2> QED
    BY <1>4, <2>2, <2>3, <2>4, <2>5
<1>8. CASE opt[t].qrst
  <2>1. spc' = [spc EXCEPT ![t][s] = "stop"] /\ q' = q
    BY <1>8 DEF Check, StreamGoto
  <2>2. spc'[t][s] = "stop"
    BY <2>1 DEF IInv, Types
  <2>3. q[t][s] \in Query /\ Query \subseteq Nat
    BY Numbers DEF Account, Bounds
  <2>4. Mine(t, s)'
    <3>1. \A x \in Query : x < q'[t][s] => Answered(t, s, x)'
      BY <1>7, <2>1, <2>3
    <3>2. ASSUME NEW x \in Query, Answered(t, s, x)', x = q'[t][s] PROVE Answered(t, s, q[t][s])'
      BY <3>2
    <3>3. Answered(t, s, q[t][s])'
      BY <1>7, <2>1, <2>3, <3>2
    <3> QED
      BY <1>1, <1>3, <2>2, <3>1, <3>3 DEF Mine
  <2> QED
    BY <1>1, <1>2, <1>3, <1>4, <2>1, <2>4, StreamAccount DEF Account, Bounds
<1>9. CASE ~opt[t].qrst
  <2>1. NextQuery(t, s)
    BY <1>9 DEF Check
  <2> QED
    BY <1>1, <1>2, <1>3, <1>4, <1>7, <2>1, NextQueryAccount
<1> QED
  BY <1>8, <1>9

\* The server is restarted when a query is passed.
LEMMA RestartAccount ==
  ASSUME IInv, Account, Started, NEW t \in Test, NEW s \in Stream,
         StreamStopDb(t, s) \/ StreamStartDb(t, s)
  PROVE  Account'
<1>1. spc[t][s] \in {"stop", "start"} /\ UNCHANGED <<pc, TAG, k, printed, time_statistics>>
  BY DEF StreamStopDb, StreamStartDb, test
<1>2. TableStep(t, s)
  BY <1>1, TableSame
<1>3. pc[t] # "idle"
  BY <1>1, StreamOfTest
<1>4. \A x : Answered(t, s, x) => Answered(t, s, x)'
  BY <1>1, <1>2, AnsweredStays
<1>5. Mine(t, s) /\ Bounds
  BY DEF Account
<1>6. CASE StreamStopDb(t, s)
  <2>1. PICK l \in {"start", "failed"} : spc' = [spc EXCEPT ![t][s] = l] /\ q' = q
    BY <1>6 DEF StreamStopDb, StreamGoto
  <2>2. spc'[t][s] = l
    BY <2>1 DEF IInv, Types
  <2>3. Answered(t, s, q[t][s])'
    <3>1. Answered(t, s, q[t][s])
      BY <1>1, <1>5 DEF Mine
    <3> QED
      BY <1>1, <2>1, <3>1 DEF Answered
  <2>4. Mine(t, s)'
    BY <1>3, <1>1, <1>4, <1>5, <2>1, <2>2, <2>3 DEF Mine
  <2> QED
    BY <1>1, <1>2, <1>3, <1>5, <2>1, <2>4, StreamAccount DEF Bounds
<1>7. CASE StreamStartDb(t, s)
  <2>1. spc[t][s] = "start" /\ NextQuery(t, s)
    BY <1>7 DEF StreamStartDb
  <2>2. \A x \in Query : x <= q[t][s] => Answered(t, s, x)'
    <3>1. Answered(t, s, q[t][s])
      BY <1>5, <2>1 DEF Mine
    <3>2. q[t][s] \in Query /\ Query \subseteq Nat
      BY <1>5, Numbers DEF Bounds
    <3> SUFFICES ASSUME NEW x \in Query, x <= q[t][s] PROVE Answered(t, s, x)
      BY <1>4
    <3>3. x < q[t][s] \/ x = q[t][s]
      BY <3>2
    <3> QED
      BY <1>5, <3>1, <3>3 DEF Mine
  <2> QED
    BY <1>1, <1>2, <1>3, <1>5, <2>1, <2>2, NextQueryAccount DEF Bounds
<1> QED
  BY <1>6, <1>7

\* The actions of a test that leave the table and the streams alone, and the refresh stream.
LEMMA TestStepAccount ==
  ASSUME IInv, Account, Started, NEW t \in Test, TestStep(t) \/ Interrupt(t)
  PROVE  Account'
<1>1. pc[t] # "idle"
  BY DEF TestStep, StopDb, StartDb, Optimize, StartStream, RfInsert, RfRun, RfUpdate, Wait,
         Report, Interrupt
<1>2. CASE StartStream(t)
  BY <1>2, StartStreamAccount
<1>3. CASE RfInsert(t)
  <2>1. \/ UNCHANGED time_statistics
        \/ time_statistics' = time_statistics \cup {Row(TAG[t], NULL, RF(t), 1, RfBy(t))}
    BY <1>3 DEF RfInsert, Insert
  <2>2. TableStep(t, NULL)
    BY <2>1, Numbers, TableSame, TableAdded
  <2> QED
    BY <1>1, <1>3, <2>2, TestAccount DEF RfInsert, test
<1>4. CASE RfUpdate(t)
  <2>1. \/ UNCHANGED time_statistics
        \/ time_statistics' = Ending(TAG[t], NULL, RF(t), 1, RfBy(t))
    BY <1>4 DEF RfUpdate
  <2>2. RfBy(t) # NoTime
    BY ByIsTime DEF RfBy
  <2>3. TableStep(t, NULL)
    BY <2>1, <2>2, TableSame, TableEnded DEF IInv
  <2> QED
    BY <1>1, <1>4, <2>3, TestAccount DEF RfUpdate, test
<1>5. CASE StopDb(t) \/ StartDb(t) \/ Optimize(t) \/ RfRun(t) \/ Wait(t) \/ Report(t) \/ Interrupt(t)
  <2>1. UNCHANGED <<TAG, stream, time_statistics>>
    BY <1>5 DEF StopDb, StartDb, Optimize, RfRun, Wait, Report, Interrupt, test
  <2> QED
    BY <1>1, <2>1, TableSame, TestAccount
<1> QED
  BY <1>2, <1>3, <1>4, <1>5 DEF TestStep

\* No step takes a test's tag from it.
LEMMA NextStarted == ASSUME IInv, [Next]_vars PROVE Started
<1>1. ASSUME NEW t \in Test, Start(t) PROVE Started
  BY <1>1 DEF Start, Goto, Started, IInv, Types
<1>2. ASSUME NEW t \in Test, TestStep(t) \/ Interrupt(t) PROVE Started
  <2>1. TAG' = TAG /\ \E l \in TestLabel \ {"idle"} : pc' = [pc EXCEPT ![t] = l] \/ UNCHANGED pc
    BY <1>2 DEF TestStep, StopDb, StartDb, Optimize, StartStream, RfInsert, RfRun, RfUpdate,
                Wait, Report, Interrupt, Goto, test, TestLabel
  <2> QED
    BY <2>1 DEF Started, IInv, Types
<1>3. ASSUME NEW t \in Test, NEW s \in Stream, StreamStep(t, s) PROVE Started
  BY <1>3 DEF StreamStep, BatchInsert, BatchUpdate, Check, StreamStopDb, StreamStartDb, test, Started
<1>4. CASE UNCHANGED vars
  BY <1>4 DEF vars, test, Started
<1> QED
  BY <1>1, <1>2, <1>3, <1>4 DEF Next, Timeout, Over

LEMMA NextAccount ==
  ASSUME IInv, Account, N_RUN = 1, [Next]_vars
  PROVE  Account'
<1>1. Started
  BY NextStarted
<1>2. ASSUME NEW t \in Test, Start(t) PROVE Account'
  BY <1>2, StartAccount
<1>3. ASSUME NEW t \in Test, TestStep(t) \/ Interrupt(t) PROVE Account'
  BY <1>1, <1>3, TestStepAccount
<1>4. ASSUME NEW t \in Test, NEW s \in Stream, StreamStep(t, s) PROVE Account'
  BY <1>1, <1>4, BatchInsertAccount, BatchUpdateAccount, CheckAccount, RestartAccount DEF StreamStep
<1>5. CASE UNCHANGED vars
  BY <1>5 DEF vars, test, stream, Account, Bounds, Mine, Answered, Durations
<1> QED
  BY <1>2, <1>3, <1>4, <1>5 DEF Next, Timeout, Over

-----------------------------------------------------------------------------
\* A stream that ends well has for each of its queries a row with an end, or has reported it
\* (run_throughput_stream.sh:160-190), if each query is run once (-qnr 1, the default).
THEOREM NoneForgotten ==
  ASSUME N_RUN = 1
  PROVE  Spec => []Accounted
<1>1. Init => IInv /\ Account
  BY InitInv, InitAccount
<1>2. IInv /\ Account /\ [Next]_vars => (IInv /\ Account)'
  BY NextInv, NextAccount
<1>3. Account => Accounted
  <2> SUFFICES ASSUME Account, NEW t \in Test, NEW s \in Stream, spc[t][s] = "done",
                      NEW x \in Query \ printed[t][s]
               PROVE  Answered(t, s, x)
    BY DEF Accounted, Answered
  <2>1. Mine(t, s) /\ q[t][s] = Queries
    BY DEF Account, Mine
  <2>2. x < Queries \/ x = Queries
    BY Numbers DEF Query
  <2>3. Answered(t, s, Queries)
    BY <2>1 DEF Mine
  <2> QED
    BY <2>1, <2>2, <2>3 DEF Mine
<1> QED
  BY <1>1, <1>2, <1>3, PTL DEF Spec
=============================================================================
