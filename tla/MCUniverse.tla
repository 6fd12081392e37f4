----------------------------- MODULE MCUniverse -----------------------------
(***************************************************************************)
(* Constants of the TLC runs of Universe.                                  *)
(***************************************************************************)
EXTENDS Universe

\* Four entries for three places: 2 is listed twice, 4 is cut off, and the
\* pins 2 and 3 leave one place to the ranking.
TooManyPins == <<2, 2, 3, 4>>
=============================================================================
