----------------------------- MODULE MCDepthSync -----------------------------
(***************************************************************************)
(* Constants of the TLC runs of DepthSync.                                 *)
(***************************************************************************)
EXTENDS DepthSync

\* One focus symbol, or two fetched in order.
OneFocus == <<"BTC">>
TwoFocus == <<"BTC", "ETH">>

\* A snapshot covers both levels, or only the one the limit reaches.
FullReach == {{"bid", "ask"}}
LimitedReach == {{"bid", "ask"}, {"bid"}}
OneLevelReach == {{"bid"}}
=============================================================================
