--------------------------- MODULE MCTokenBucket ---------------------------
(***************************************************************************)
(* Three threads on a bucket of four tokens, which they take and refill by *)
(* one or three.                                                           *)
(***************************************************************************)
EXTENDS TokenBucket
=============================================================================
