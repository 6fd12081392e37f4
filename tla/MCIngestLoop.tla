---------------------------- MODULE MCIngestLoop ----------------------------
(***************************************************************************)
(* Two focus symbols, and as many connections as the configuration says,   *)
(* in front of a channel that is soon full.                                *)
(***************************************************************************)
EXTENDS IngestLoop

MCFocus == <<"BTC", "ETH">>
=============================================================================
