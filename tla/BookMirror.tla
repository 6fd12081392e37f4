----------------------------- MODULE BookMirror -----------------------------
(***************************************************************************)
(* What a local depth book promises, whatever the transport does: at every *)
(* moment it is an exact copy of the exchange's book as it was after some  *)
(* update, over the levels it has seen.  A copy that keeps track advances  *)
(* and never goes back; one that has lost track stands still and says so,  *)
(* and a snapshot is asked for.  Snapshots are asked for one at a time, at *)
(* start and as long as some copy has lost track, and only the answer to   *)
(* such a request replaces a copy.                                         *)
(***************************************************************************)
EXTENDS OrderBook

CONSTANTS
  Symbols,
  SnapshotLag  \* how many updates behind the request a snapshot may be

VARIABLES
  log,      \* log[s]: the updates the exchange has made to the book of s
  at,       \* at[s]: how many of them the copy reflects
  reach,    \* reach[s]: the levels the copy covers
  copy,     \* copy[s]: the copy
  trust,    \* trust[s]: "none" (no copy yet), "ok", or "gap" (lost track)
  requests  \* the snapshot asked for: none, or a symbol and its version then

vars == <<log, at, reach, copy, trust, requests>>

copyVars == <<at, reach, copy>>

\* A snapshot of the present book of s is asked for.
AskFor(s) == requests' = {[sym |-> s, asked |-> Len(log[s])]}

Ask == \E s \in Symbols : AskFor(s)

Rest == requests' = {}

Broken(trusts) == \E s \in Symbols : trusts[s] = "gap"

\* The first symbol is asked for at start.
Init ==
  /\ log = [s \in Symbols |-> <<>>]
  /\ at = [s \in Symbols |-> 0]
  /\ reach = [s \in Symbols |-> {}]
  /\ copy = [s \in Symbols |-> [l \in Levels |-> Absent]]
  /\ trust = [s \in Symbols |-> "none"]
  /\ \E s \in Symbols : requests = {[sym |-> s, asked |-> 0]}

ExchangeUpdates(s) ==
  /\ \E u \in Update : log' = [log EXCEPT ![s] = Append(@, u)]
  /\ UNCHANGED <<copyVars, trust, requests>>

MoveTo(s, v, levels) ==
  /\ at' = [at EXCEPT ![s] = v]
  /\ reach' = [reach EXCEPT ![s] = levels]
  /\ copy' = [copy EXCEPT ![s] = View(log[s], v, levels)]
  /\ UNCHANGED log

\* A copy in track moves on and forgets no level; if another is broken, a
\* snapshot is asked for at once.
Advance(s) ==
  /\ requests = {}
  /\ trust[s] = "ok"
  /\ \E v \in (at[s] + 1)..Len(log[s]), levels \in SUBSET Levels :
       reach[s] \subseteq levels /\ MoveTo(s, v, levels)
  /\ IF Broken(trust) THEN Ask ELSE Rest
  /\ UNCHANGED trust

\* Only a copy the exchange is ahead of can lose track.
LoseTrack(s) ==
  /\ requests = {}
  /\ trust[s] = "ok"
  /\ at[s] < Len(log[s])
  /\ trust' = [trust EXCEPT ![s] = "gap"]
  /\ Ask
  /\ UNCHANGED <<log, copyVars>>

\* Nothing is asked for, and some copy is still broken.
Retry ==
  /\ requests = {}
  /\ Broken(trust)
  /\ Ask
  /\ UNCHANGED <<log, copyVars, trust>>

\* The answer to a request is the only way back, or out of a lost track.
AdoptSnapshot ==
  /\ \E r \in requests, levels \in SUBSET Levels :
       \E v \in {w \in 0..Len(log[r.sym]) : r.asked - SnapshotLag <= w} :
         /\ MoveTo(r.sym, v, levels)
         /\ trust' = [trust EXCEPT ![r.sym] = "ok"]
  /\ Ask \/ Rest

\* The request fails.
GiveUp ==
  /\ requests # {}
  /\ Rest
  /\ UNCHANGED <<log, copyVars, trust>>

Next ==
  \/ \E s \in Symbols : ExchangeUpdates(s) \/ Advance(s) \/ LoseTrack(s)
  \/ Retry
  \/ AdoptSnapshot
  \/ GiveUp

Spec == Init /\ [][Next]_vars
=============================================================================
