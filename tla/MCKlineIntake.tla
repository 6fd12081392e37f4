---------------------------- MODULE MCKlineIntake ----------------------------
(***************************************************************************)
(* Kline intake with the constants of its configurations: a window that    *)
(* evicts, a response shorter and longer than the history, lost minutes.   *)
(***************************************************************************)
EXTENDS KlineIntake
=============================================================================
