------------------------------- MODULE Storage -------------------------------
(***************************************************************************)
(* Persisting packets: the engine's non-blocking sink, the bounded channel *)
(* and the ClickHouse writer task with its batches and its one-row-a-      *)
(* minute filter for features_1m (crates/storage/src/{sink,writer,batcher, *)
(* rows}.rs, crates/app/src/main.rs).  ClickHouse is external: an insert   *)
(* succeeds, fails, or fails after its rows were stored.                   *)
(***************************************************************************)
EXTENDS Integers, Sequences, FiniteSets, SequencesExt

CONSTANTS
  Symbols,
  QueueCap,     \* capacity of the channel
  BatchRows,    \* storage.batch_rows
  PerMinute,    \* bound: packets that fit in a minute
  MaxTime,      \* bound: packets emitted
  MaxRestarts   \* bound: crashes of the process

ASSUME SizeAssumption ==
  /\ QueueCap \in Nat \ {0} /\ PerMinute \in Nat \ {0}
  /\ BatchRows \in Nat \ {0}   \* validate_config
  /\ MaxTime \in Nat /\ MaxRestarts \in Nat

VARIABLES
  now,       \* the clock, in packets emitted; it does not go back
  born,      \* the clock when the present process started (history)
  life,      \* how often the process was restarted
  closed,    \* the engine task is gone and its sender dropped
  queue,     \* the channel
  pending,   \* PendingRows.latest_packets and features_1m
  seen,      \* FeatureMinuteDedupe: symbol -> minute last let through, or -1
  phase,     \* the writer: selecting, inserting, or done
  batch,     \* the rows flush_pending has drained
  table,     \* rows stored in latest_packets and in features_1m
  untold,    \* packets dropped by the sink or in a failed insert (history)
  unsaved    \* features_1m rows of failed inserts (history)

vars == <<now, born, life, closed, queue, pending, seen, phase, batch, table, untold, unsaved>>

\* A packet of symbol sym built at time ts in the life-th process.
Packet == [sym : Symbols, ts : 1..MaxTime, life : 0..MaxRestarts]

Minute(p) == p.ts \div PerMinute

Rows == [latest : Seq(Packet), features : Seq(Packet)]

NoRows == [latest |-> <<>>, features |-> <<>>]

Elements(rows) == {rows[i] : i \in 1..Len(rows)}

RowCount(rows) == Len(rows.latest) + Len(rows.features)

\* The channel and the rows waiting for a flush stay bounded, however slow the
\* inserts are.
TypeOK ==
  /\ now \in 0..MaxTime /\ born \in 0..now /\ life \in 0..MaxRestarts /\ closed \in BOOLEAN
  /\ queue \in Seq(Packet) /\ Len(queue) <= QueueCap
  /\ RowCount(pending) < BatchRows
  /\ pending \in Rows /\ batch \in Rows
  /\ seen \in [Symbols -> -1..MaxTime]
  /\ phase \in {"select", "latest", "features", "done"}
  /\ table \in [latest : SUBSET Packet, features : SUBSET Packet]
  /\ untold \subseteq Packet /\ unsaved \subseteq Packet

Init ==
  /\ now = 0 /\ born = 0 /\ life = 0 /\ closed = FALSE
  /\ queue = <<>>
  /\ pending = NoRows
  /\ seen = [s \in Symbols |-> -1]
  /\ phase = "select"
  /\ batch = NoRows
  /\ table = [latest |-> {}, features |-> {}]
  /\ untold = {} /\ unsaved = {}

-----------------------------------------------------------------------------
\* Mutant: the channel has no capacity.
EmitUnbounded(s) ==
  /\ ~closed
  /\ now < MaxTime
  /\ now' = now + 1
  /\ queue' = Append(queue, [sym |-> s, ts |-> now + 1, life |-> life])
  /\ UNCHANGED <<born, life, closed, pending, seen, phase, batch, table, untold, unsaved>>

\* persist_packet of a packet just cached: try_send, dropped when full.
Emit(s) ==
  /\ ~closed
  /\ now < MaxTime
  /\ now' = now + 1
  /\ LET p == [sym |-> s, ts |-> now + 1, life |-> life] IN
       \/ /\ Len(queue) < QueueCap
          /\ queue' = Append(queue, p)
          /\ untold' = untold
       \/ /\ Len(queue) = QueueCap
          /\ queue' = queue
          /\ untold' = untold \cup {p}
  /\ UNCHANGED <<born, life, closed, pending, seen, phase, batch, table, unsaved>>

\* The engine task ends and drops its sink (its own channel stays open, so
\* only by a panic).
EngineEnds ==
  /\ ~closed
  /\ closed' = TRUE
  /\ UNCHANGED <<now, born, life, queue, pending, seen, phase, batch, table, untold, unsaved>>

-----------------------------------------------------------------------------
(***************************************************************************)
(* The writer task.                                                        *)
(***************************************************************************)
\* Mutant: the filter compares packets, not minutes.
ShouldWriteAlways(p) == TRUE

\* FeatureMinuteDedupe::should_write.
ShouldWrite(p) == seen[p.sym] # Minute(p)

\* PendingRows::push_packet.
Pushed(p) ==
  [latest |-> Append(pending.latest, p),
   features |-> IF ShouldWrite(p) THEN Append(pending.features, p)
                ELSE pending.features]

\* BatchConfig::should_flush.
ShouldFlush(rows) ==
  RowCount(rows) >= BatchRows

\* Mutant: a batch that is flushed leaves the packet that filled it behind.
FlushForgetsLast(rows) ==
  /\ pending' = NoRows
  /\ batch' = IF RowCount(rows) = 0 THEN rows
              ELSE [rows EXCEPT !.latest = Front(@)]
  /\ phase' = IF RowCount(rows) = 0 THEN "select" ELSE "latest"

\* flush_pending drains the rows before the first await.
Flush(rows) ==
  /\ pending' = NoRows
  /\ batch' = rows
  /\ phase' = IF RowCount(rows) = 0 THEN "select" ELSE "latest"

Receive ==
  /\ phase = "select"
  /\ queue # <<>>
  /\ queue' = Tail(queue)
  /\ LET p == Head(queue) IN
       /\ seen' = [seen EXCEPT ![p.sym] = Minute(p)]
       /\ IF ShouldFlush(Pushed(p))
            THEN Flush(Pushed(p))
            ELSE pending' = Pushed(p) /\ UNCHANGED <<phase, batch>>
  /\ UNCHANGED <<now, born, life, closed, table, untold, unsaved>>

\* Mutant: the interval flushes full batches only.
FlushTickFullOnly ==
  /\ phase = "select"
  /\ ShouldFlush(pending)
  /\ Flush(pending)
  /\ UNCHANGED <<now, born, life, closed, queue, seen, table, untold, unsaved>>

\* flush_interval ticks.
FlushTick ==
  /\ phase = "select"
  /\ RowCount(pending) > 0
  /\ Flush(pending)
  /\ UNCHANGED <<now, born, life, closed, queue, seen, table, untold, unsaved>>

\* recv returns None: one last flush, then the task ends.
ReceiveClosed ==
  /\ phase = "select"
  /\ closed /\ queue = <<>>
  /\ IF RowCount(pending) > 0 THEN Flush(pending)
     ELSE phase' = "done" /\ UNCHANGED <<pending, batch>>
  /\ UNCHANGED <<now, born, life, closed, queue, seen, table, untold, unsaved>>

\* The rows an insert may leave in its table: all of them when it succeeds,
\* none or all when it fails.
Inserted(rows) == {{}, Elements(rows)}

\* insert_latest_packets; a failure is logged and the rows are gone.
InsertLatest ==
  /\ phase = "latest"
  /\ \E stored \in Inserted(batch.latest) :
       /\ table' = [table EXCEPT !.latest = @ \cup stored]
       /\ untold' = untold \cup (Elements(batch.latest) \ stored)
  /\ batch' = [batch EXCEPT !.latest = <<>>]
  /\ phase' = "features"
  /\ UNCHANGED <<now, born, life, closed, queue, pending, seen, unsaved>>

\* insert_features_1m, also after the first insert failed; the writer selects
\* again.
InsertFeatures ==
  /\ phase = "features"
  /\ \E stored \in Inserted(batch.features) :
       /\ table' = [table EXCEPT !.features = @ \cup stored]
       /\ unsaved' = unsaved \cup (Elements(batch.features) \ stored)
  /\ batch' = NoRows
  /\ phase' = "select"
  /\ UNCHANGED <<now, born, life, closed, queue, pending, seen, untold>>

-----------------------------------------------------------------------------
\* The process is killed and started again: the tables are what is left.  An
\* insert it was killed in counts as one that ended before.
Restart ==
  /\ life < MaxRestarts
  /\ life' = life + 1
  /\ born' = now
  /\ closed' = FALSE
  /\ queue' = <<>>
  /\ pending' = NoRows
  /\ seen' = [s \in Symbols |-> -1]
  /\ phase' = "select"
  /\ batch' = NoRows
  /\ UNCHANGED <<now, table, untold, unsaved>>

Writer == Receive \/ FlushTick \/ ReceiveClosed \/ InsertLatest \/ InsertFeatures

Next == (\E s \in Symbols : Emit(s)) \/ EngineEnds \/ Writer \/ Restart

Spec == Init /\ [][Next]_vars

\* The writer task is scheduled, its interval ticks, and inserts return.
FairSpec ==
  /\ Spec
  /\ WF_vars(Receive) /\ WF_vars(FlushTick) /\ WF_vars(ReceiveClosed)
  /\ WF_vars(InsertLatest) /\ WF_vars(InsertFeatures)

-----------------------------------------------------------------------------
(***************************************************************************)
(* Properties.                                                             *)
(***************************************************************************)
\* Every packet the present process built is in exactly one place: queued,
\* pending, being inserted, stored, or reported lost.
Accounted ==
  LET places == <<Elements(queue), Elements(pending.latest),
                  Elements(batch.latest), table.latest, untold>>
  IN /\ \A i, j \in 1..5 : i < j => places[i] \cap places[j] = {}
     /\ {p.ts : p \in {q \in UNION Elements(places) : q.life = life}} = (born + 1)..now

\* The rows of features_1m, stored, on their way, or lost in an insert.
FeatureRows ==
  Elements(pending.features) \cup Elements(batch.features) \cup table.features \cup unsaved

SameRow(p, q) == p.sym = q.sym /\ p.life = q.life /\ Minute(p) = Minute(q)

\* One process makes one row of features_1m for every symbol and minute of
\* which it stores a packet: never two, whatever is batched, dropped or
\* retried around it; and none is missing but for its failed insert, although
\* the filter lets a minute pass before its row is stored.
OneRowPerProcess ==
  /\ \A p, q \in FeatureRows : p # q => ~SameRow(p, q)
  /\ \A p \in table.latest :
       p.life = life => \E q \in FeatureRows : SameRow(p, q)

\* Every packet the channel accepted is inserted or reported in the end,
\* unless the process dies.
AcceptedIsTried ==
  \A t \in 1..MaxTime :
    (\E p \in Elements(queue) : p.ts = t)
      ~> ((\E p \in table.latest \cup untold : p.ts = t) \/ life > 0)
=============================================================================
