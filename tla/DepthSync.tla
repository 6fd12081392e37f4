------------------------------ MODULE DepthSync ------------------------------
(***************************************************************************)
(* Synchronising the full books of the focus symbols: the diff-depth       *)
(* websocket stream, the runtime's payload queue, the REST depth snapshots *)
(* fetched at start and after every gap, and the sequence trust that       *)
(* SymbolState publishes (crates/app/src/runtime.rs,                       *)
(* crates/state/src/{book_full,symbol_state}.rs).                          *)
(*                                                                         *)
(* The exchange is external: it updates books, publishes on the stream one *)
(* depth event per batch of updates, and answers snapshot requests with a  *)
(* recent version of the book.                                             *)
(***************************************************************************)
EXTENDS OrderBook

CONSTANTS
  Symbols,
  Focus,          \* universe.always_focus, in the order the runtime walks it
  SnapshotReach,  \* the sets of levels a limited snapshot may cover
  MaxVersion,     \* bound: updates per symbol
  QueueCap,       \* bound: depth payloads waiting in the runtime's channel
  SnapshotLag     \* how many updates behind the request a snapshot may be

ASSUME FocusAssumption == Focus \in Seq(Symbols) /\ Focus # <<>>
ASSUME ReachAssumption == SnapshotReach \subseteq SUBSET Levels
ASSUME BoundAssumption ==
  MaxVersion \in Nat /\ QueueCap \in Nat /\ SnapshotLag \in Nat

VARIABLES
  log,        \* log[s]: updates the exchange made to the book of s
  sent,       \* sent[s]: last update id published on the diff stream
  lost,       \* lost[s]: events no connection carried, by last id (history)
  connected,  \* the depth websocket is up
  queue,      \* depth payloads in the runtime's mpsc channel
  book,       \* book[s]: SymbolState.full_book
  reach,      \* reach[s]: levels book[s] is authoritative for (history)
  trust,      \* trust[s]: quality.book_seq_ok: None, Some(true), Some(false)
  fetching,   \* 0: the select loop; i: awaiting the snapshot of Focus[i]
  asked       \* updates of that symbol when its snapshot was requested

vars == <<log, sent, lost, connected, queue, book, reach, trust, fetching, asked>>

exchangeVars == <<log, sent, lost>>
engineVars == <<book, reach, trust, fetching, asked>>

\* A depthUpdate payload: update ids first..final, after the event that ended
\* with prev.  The levels it carries are those of the exchange's updates.
Event == [sym : Symbols, first : 1..MaxVersion, final : 1..MaxVersion,
          prev : 0..MaxVersion]

Trust == {"none", "ok", "gap"}

TypeOK ==
  /\ log \in [Symbols -> Seq(Update)]
  /\ \A s \in Symbols : Len(log[s]) <= MaxVersion
  /\ sent \in [Symbols -> 0..MaxVersion]
  /\ lost \in [Symbols -> SUBSET (1..MaxVersion)]
  /\ connected \in BOOLEAN
  /\ queue \in Seq(Event)
  /\ book \in [Symbols -> BookType(MaxVersion)]
  /\ reach \in [Symbols -> SUBSET Levels]
  /\ trust \in [Symbols -> Trust]
  /\ fetching \in 0..Len(Focus)
  /\ asked \in 0..MaxVersion

-----------------------------------------------------------------------------
\* The engine task starts inside bootstrap_focus_depths, awaiting the first
\* snapshot; the websocket tasks have been spawned but are not connected yet.
Init ==
  /\ log = [s \in Symbols |-> <<>>]
  /\ sent = [s \in Symbols |-> 0]
  /\ lost = [s \in Symbols |-> {}]
  /\ connected = FALSE
  /\ queue = <<>>
  /\ book = [s \in Symbols |-> NoBook]
  /\ reach = [s \in Symbols |-> {}]
  /\ trust = [s \in Symbols |-> "none"]
  /\ fetching = 1
  /\ asked = 0

-----------------------------------------------------------------------------
(***************************************************************************)
(* The exchange and the websocket task.                                    *)
(***************************************************************************)
ExchangeUpdates(s) ==
  /\ Len(log[s]) < MaxVersion
  /\ \E u \in Update :
       /\ u.qty # QtyAt(log[s], Len(log[s]), u.level)
       /\ log' = [log EXCEPT ![s] = Append(@, u)]
  /\ UNCHANGED <<sent, lost, connected, queue, engineVars>>

\* The diff stream batches the updates since its last event.
NextEvent(s) ==
  [sym |-> s, first |-> sent[s] + 1, final |-> Len(log[s]), prev |-> sent[s]]

\* stream_text_messages forwards the frame; tx.send waits for room, and the
\* event then waits in the socket, which is a later Publish.
PublishDelivered(s) ==
  /\ connected
  /\ sent[s] < Len(log[s])
  /\ Len(queue) < QueueCap
  /\ queue' = Append(queue, NextEvent(s))
  /\ sent' = [sent EXCEPT ![s] = Len(log[s])]
  /\ UNCHANGED <<log, lost, connected, engineVars>>

\* No connection is up: the event is never replayed.
PublishLost(s) ==
  /\ ~connected
  /\ sent[s] < Len(log[s])
  /\ lost' = [lost EXCEPT ![s] = @ \cup {Len(log[s])}]
  /\ sent' = [sent EXCEPT ![s] = Len(log[s])]
  /\ UNCHANGED <<log, connected, queue, engineVars>>

\* Frames in flight on a broken connection are lost: as if it had broken
\* before they were published.
Disconnect ==
  /\ connected
  /\ connected' = FALSE
  /\ UNCHANGED <<exchangeVars, queue, engineVars>>

Reconnect ==
  /\ ~connected
  /\ connected' = TRUE
  /\ UNCHANGED <<exchangeVars, queue, engineVars>>

-----------------------------------------------------------------------------
(***************************************************************************)
(* The engine task.                                                        *)
(***************************************************************************)
\* resync_focus_depths / bootstrap_focus_depths awaits the snapshot of
\* Focus[i]; i = 0 leaves for the select loop.
Fetch(i) ==
  /\ fetching' = i
  /\ asked' = IF i = 0 THEN 0 ELSE Len(log[Focus[i]])

\* Mutant: a book that was never bootstrapped counts as needing a resync.
ResyncCheckUntrusted(trusts) ==
  IF \E s \in Symbols : trusts[s] # "ok" THEN Fetch(1) ELSE Fetch(0)

\* full_book_resync_needed > 0 after a payload.
ResyncCheck(trusts) ==
  IF \E s \in Symbols : trusts[s] = "gap" THEN Fetch(1) ELSE Fetch(0)

\* apply_full_depth_delta of the head of the queue, then the resync check.
HandleDepth ==
  /\ fetching = 0
  /\ queue # <<>>
  /\ queue' = Tail(queue)
  /\ LET m == Head(queue)
         s == m.sym
     IN \/ /\ ~book[s].present
           /\ ResyncCheck(trust)
           /\ UNCHANGED <<book, reach, trust>>
        \/ /\ book[s].present
           /\ book' = [book EXCEPT ![s] = ApplyDelta(book[s], log[s], m)]
           /\ reach' = [reach EXCEPT ![s] =
                          IF IsStale(book[s], m) \/ Gaps(book[s], m) THEN @
                          ELSE @ \cup Touched(log[s], m.first, m.final)]
           /\ trust' = [trust EXCEPT ![s] =
                          IF Gaps(book[s], m) THEN "gap" ELSE "ok"]
           /\ ResyncCheck(trust')
  /\ UNCHANGED <<exchangeVars, connected>>

\* A payload of another stream changes no book, but the resync check follows
\* it as well.
HandleOther ==
  /\ fetching = 0
  /\ \E s \in Symbols : trust[s] = "gap"
  /\ Fetch(1)
  /\ UNCHANGED <<exchangeVars, connected, queue, book, reach, trust>>

\* Mutant: the resync stops after the symbol it was started for.
SnapshotArrivesAlone(i) ==
  /\ fetching = i
  /\ LET s == Focus[i] IN
       \E v \in Max({0, asked - SnapshotLag})..Len(log[s]), levels \in SnapshotReach :
         /\ book' = [book EXCEPT ![s] = FromSnapshot(v, View(log[s], v, levels))]
         /\ reach' = [reach EXCEPT ![s] = levels]
         /\ trust' = [trust EXCEPT ![s] = "ok"]
  /\ Fetch(IF trust[Focus[1]] = "none" THEN (i + 1) % (Len(Focus) + 1) ELSE 0)
  /\ UNCHANGED <<exchangeVars, connected, queue>>

\* bootstrap_depth_snapshot: the answer for Focus[i] holds the book at
\* version v, cut to the levels the request's limit reaches.
SnapshotArrives(i) ==
  /\ fetching = i
  /\ LET s == Focus[i] IN
       \E v \in Max({0, asked - SnapshotLag})..Len(log[s]), levels \in SnapshotReach :
         /\ book' = [book EXCEPT ![s] = FromSnapshot(v, View(log[s], v, levels))]
         /\ reach' = [reach EXCEPT ![s] = levels]
         /\ trust' = [trust EXCEPT ![s] = "ok"]
  /\ Fetch(IF i = Len(Focus) THEN 0 ELSE i + 1)
  /\ UNCHANGED <<exchangeVars, connected, queue>>

\* A request or its parsing fails: `?` leaves the loop, the symbols after
\* Focus[fetching] are not fetched.
SnapshotFails ==
  /\ fetching # 0
  /\ Fetch(0)
  /\ UNCHANGED <<exchangeVars, connected, queue, book, reach, trust>>

-----------------------------------------------------------------------------
Exchange == \E s \in Symbols :
  ExchangeUpdates(s) \/ PublishDelivered(s) \/ PublishLost(s)

Engine ==
  \/ HandleDepth
  \/ HandleOther
  \/ \E i \in 1..Len(Focus) : SnapshotArrives(i)
  \/ SnapshotFails

Next == Exchange \/ Disconnect \/ Reconnect \/ Engine

Spec == Init /\ [][Next]_vars

\* The engine task is scheduled, other streams keep delivering payloads, and
\* a snapshot that is requested again and again is answered in the end.
Fairness ==
  /\ WF_vars(HandleDepth)
  /\ WF_vars(HandleOther)
  /\ \A i \in 1..Len(Focus) : SF_vars(SnapshotArrives(i))

FairSpec == Spec /\ Fairness

-----------------------------------------------------------------------------
(***************************************************************************)
(* Properties.                                                             *)
(***************************************************************************)
\* A local book is never a mixture: over the levels it covers it equals the
\* exchange's book exactly as it was after update book.last, in every
\* interleaving of stream, queue, disconnects and snapshots.  Rejected and
\* stale deltas leave no trace (FullBook::apply_delta, reset_from_snapshot).
BookIntegrity ==
  \A s \in Symbols : book[s].present =>
    /\ book[s].last <= Len(log[s])
    /\ book[s].qty = View(log[s], book[s].last, reach[s])

\* SymbolState.quality.book_seq_ok and FullBook.seq_ok are two records of the
\* same fact, written at different places (a stale delta returns Ok and sets
\* the first without setting the second); they never disagree.
TrustAgreement ==
  \A s \in Symbols :
    /\ book[s].present => (trust[s] = "ok" <=> book[s].seqOk)
    /\ trust[s] = "none" <=> ~book[s].present

\* A trusted book reports a gap only if the event before the refused one was
\* lost after the book's last update: the pu = u check has no false alarm.
\* The only other gap is that of a book still waiting for its bridge (a
\* snapshot puts a healthy book back into that state too): nothing was lost,
\* and the refused delta starts right after the snapshot, or after it by no
\* more than a snapshot lags behind its request.
GapMeansLoss ==
  [][\A s \in Symbols : (trust[s] = "ok" /\ trust'[s] = "gap") =>
       LET prev == Head(queue).prev IN
         \/ prev \in lost[s] /\ book[s].last < prev
         \/ ~book[s].boot /\ prev \in book[s].last..(book[s].last + SnapshotLag)]_vars

\* Once a gap is marked, no delta brings the trust back: only a snapshot does,
\* which also leaves the book waiting for a bridging delta.
GapHeldUntilSnapshot ==
  [][\A s \in Symbols :
       (trust[s] = "gap" /\ trust'[s] # "gap") =>
         \E i \in 1..Len(Focus) :
           fetching = i /\ Focus[i] = s /\ ~book'[s].boot]_vars

\* Every gap is repaired in the end: each payload retries the resync, and the
\* resync walks every focus symbol although any request may fail.
GapHeals == \A s \in Symbols : trust[s] = "gap" ~> trust[s] = "ok"

\* The books are mirrors (BookMirror): a trusted copy only moves forward, one
\* that lost track stands still, and a copy goes back only by a snapshot that
\* was asked for at start or because some book had lost track, no older than
\* snapshots may be.
Mirror == INSTANCE BookMirror WITH
  at <- [s \in Symbols |-> book[s].last],
  copy <- [s \in Symbols |-> book[s].qty],
  requests <- IF fetching = 0 THEN {}
              ELSE {[sym |-> Focus[fetching], asked |-> asked]}

BooksAreMirrors == Mirror!Spec

\* docs/AI_AUDIT_HANDOFF.md:216: the first delta after a snapshot is the one
\* with first_update_id <= last_update_id and final_update_id >=
\* last_update_id.  Such a delta bridges the snapshot.
FirstDeltaBridges ==
  [][\A s \in Symbols :
       ( /\ fetching = 0 /\ queue # <<>> /\ queue' = Tail(queue)
         /\ Head(queue).sym = s /\ book[s].present /\ ~book[s].boot
         /\ Head(queue).first <= book[s].last
         /\ Head(queue).final >= book[s].last )
       => book'[s].boot]_vars
=============================================================================
