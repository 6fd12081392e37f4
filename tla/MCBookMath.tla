----------------------------- MODULE MCBookMath -----------------------------
(***************************************************************************)
(* All books of up to five price levels and one or two units on a level.   *)
(***************************************************************************)
EXTENDS BookMath

MCPrices == 4..8
=============================================================================
