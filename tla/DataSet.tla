------------------------------- MODULE DataSet -------------------------------
(***************************************************************************)
(* What dbgen promises, whatever the number of its processes: a file set   *)
(* that only ever holds rows of the one data set the scale factor defines, *)
(* each of them once, and all of them when the run ends well.  A run that  *)
(* does not end well may be taken up again; one that has is over.          *)
(***************************************************************************)
EXTENDS Naturals

CONSTANT Table      \* the tables there are

VARIABLES
  want,             \* how many rows of each table were asked for
  copies,           \* copies[t][i]: how often row i of t is in the files
  status            \* "generating", "complete" or "incomplete"

vars == <<want, copies, status>>

TypeOK ==
  /\ want \in [Table -> Nat]
  /\ \A t \in Table : copies[t] \in [1..want[t] -> {0, 1}]
  /\ status \in {"generating", "complete", "incomplete"}

Init ==
  /\ want \in [Table -> Nat]
  /\ copies = [t \in Table |-> [i \in 1..want[t] |-> 0]]
  /\ status = "generating"

\* Rows of one table appear.
Produce(t) ==
  /\ copies[t]' \in [1..want[t] -> {0, 1}]
  /\ \A i \in 1..want[t] : copies[t][i] <= copies[t]'[i]

\* A file of the table is opened again, and is empty for a while.
Reopen(t) ==
  /\ copies[t]' \in [1..want[t] -> {0, 1}]
  /\ \A i \in 1..want[t] : copies[t][i] >= copies[t]'[i]

Work ==
  /\ status = "generating"
  /\ \E t \in Table : /\ Produce(t) \/ Reopen(t)
                      /\ copies' = [copies EXCEPT ![t] = copies[t]']
  /\ UNCHANGED <<want, status>>

Finish ==
  /\ status = "generating"
  /\ copies = [t \in Table |-> [i \in 1..want[t] |-> 1]]
  /\ status' = "complete"
  /\ UNCHANGED <<want, copies>>

Fail ==
  /\ status = "generating"
  /\ status' = "incomplete"
  /\ UNCHANGED <<want, copies>>

Resume ==
  /\ status = "incomplete"
  /\ status' = "generating"
  /\ UNCHANGED <<want, copies>>

Next == Work \/ Finish \/ Fail \/ Resume

Spec == Init /\ [][Next]_vars
=============================================================================
