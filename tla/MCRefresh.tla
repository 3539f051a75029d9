----------------------------- MODULE MCRefresh -----------------------------
(***************************************************************************)
(* Small instances of Refresh for TLC.                                     *)
(***************************************************************************)
EXTENDS Refresh
=============================================================================
