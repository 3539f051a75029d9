---------------------------- MODULE MCThroughput ----------------------------
(***************************************************************************)
(* Small instances of Throughput for TLC.                                  *)
(***************************************************************************)
EXTENDS Throughput

Opt(restart, qrst, refresh, time) ==
  [restart |-> restart, qrst |-> qrst, refresh |-> refresh, timeout |-> time]

\* Two tests, the second with a restart of the server; the refresh stream; restarts between
\* batches; a timeout, which only an interrupt ends.
MCPlans == {<<Opt(FALSE, FALSE, FALSE, FALSE), Opt(TRUE, FALSE, FALSE, FALSE)>>,
            <<Opt(FALSE, FALSE, TRUE, FALSE)>>, <<Opt(TRUE, TRUE, FALSE, FALSE)>>,
            <<Opt(FALSE, FALSE, FALSE, TRUE)>>}

WithTimeout == {<<Opt(TRUE, FALSE, FALSE, TRUE)>>}
Restarting  == {<<Opt(TRUE, TRUE, FALSE, FALSE)>>}
=============================================================================
