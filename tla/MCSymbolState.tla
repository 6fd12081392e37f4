---------------------------- MODULE MCSymbolState ----------------------------
(***************************************************************************)
(* The packet of one focus symbol with the constants of its configurations *)
(* (a threshold of three ticks, events up to one tick late, candles that   *)
(* close up to two ticks ahead).                                           *)
(***************************************************************************)
EXTENDS SymbolState
=============================================================================
