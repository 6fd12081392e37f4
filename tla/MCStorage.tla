------------------------------ MODULE MCStorage ------------------------------
(***************************************************************************)
(* The storage path with the constants of its configurations: a channel of *)
(* two packets, batches of three rows, three packets to the minute.        *)
(***************************************************************************)
EXTENDS Storage
=============================================================================
