----------------------------- MODULE IngestLoop -----------------------------
(***************************************************************************)
(* The tasks of start_ingestion_tasks_with_storage                         *)
(* (crates/app/src/runtime.rs): one reader task per websocket URL, which   *)
(* reconnects for ever, and the engine task, which walks the focus symbols *)
(* through five REST bootstraps and then selects between the payloads of a *)
(* bounded channel and its ticks.  What a payload does to the engine is in *)
(* the other modules; here it matters that it may open a gap.              *)
(***************************************************************************)
EXTENDS Integers, Sequences, SequencesExt

CONSTANTS
  Focus,      \* universe.always_focus, a sequence of symbols
  Conns,      \* the websocket URLs
  QueueCap,   \* capacity of the channel (4096)
  MaxFrames   \* bound: frames read per connection

ASSUME IngestAssumption ==
  /\ Focus \in Seq(ToSet(Focus)) /\ Focus # <<>>
  /\ QueueCap \in Nat \ {0} /\ MaxFrames \in Nat

VARIABLES
  conn,      \* what the reader task of a URL does
  read,      \* frames it has read, the one it holds included
  queue,     \* the channel: <<connection, frame>>
  applied,   \* frames of the connection the engine has applied
  call,      \* the REST pass the engine is in, or "loop"
  at,        \* the symbol of the pass it waits for
  booted,    \* the bootstrap passes are over
  booked,    \* symbols with a full book
  gaps,      \* symbols with book_seq_ok = Some(false)
  failed     \* did the last depth pass fail? (history)

readers == <<conn, read>>
engine == <<applied, call, at, booted, booked, gaps, failed>>
vars == <<readers, queue, engine>>

Passes == {"klines", "depth", "funding", "premium", "oi"}

Symbols == ToSet(Focus)

TypeOK ==
  /\ conn \in [Conns -> {"connecting", "reading", "sending", "sleeping"}]
  /\ read \in [Conns -> 0..MaxFrames]
  /\ queue \in Seq(Conns \X (1..MaxFrames)) /\ Len(queue) <= QueueCap
  /\ applied \in [Conns -> 0..MaxFrames]
  /\ call \in Passes \cup {"loop"}
  /\ at \in 1..Len(Focus)
  /\ booted \in BOOLEAN /\ failed \in BOOLEAN
  /\ booked \subseteq Symbols /\ gaps \subseteq booked

Init ==
  /\ conn = [c \in Conns |-> "connecting"]
  /\ read = [c \in Conns |-> 0]
  /\ queue = <<>>
  /\ applied = [c \in Conns |-> 0]
  /\ call = "klines"
  /\ at = 1
  /\ booted = FALSE
  /\ booked = {}
  /\ gaps = {}
  /\ failed = FALSE

-----------------------------------------------------------------------------
(***************************************************************************)
(* A reader task: stream_text_messages inside an endless loop.             *)
(***************************************************************************)
Open(c) ==
  /\ conn[c] = "connecting"
  /\ conn' = [conn EXCEPT ![c] = "reading"]
  /\ UNCHANGED <<read, queue, engine>>

\* However a connection ends, the task sleeps two seconds and tries again.
OpenFails(c) ==
  /\ conn[c] = "connecting"
  /\ conn' = [conn EXCEPT ![c] = "sleeping"]
  /\ UNCHANGED <<read, queue, engine>>

\* The next message of the connection is a text frame.
ReadFrame(c) ==
  /\ conn[c] = "reading"
  /\ read[c] < MaxFrames
  /\ read' = [read EXCEPT ![c] = @ + 1]
  /\ conn' = [conn EXCEPT ![c] = "sending"]
  /\ UNCHANGED <<queue, engine>>

\* Mutant: what does not fit in the channel is dropped.
SendDropping(c) ==
  /\ conn[c] = "sending"
  /\ queue' = IF Len(queue) < QueueCap THEN Append(queue, <<c, read[c]>>) ELSE queue
  /\ conn' = [conn EXCEPT ![c] = "reading"]
  /\ UNCHANGED <<read, engine>>

\* tx.send waits for room, and the task reads nothing meanwhile.
Send(c) ==
  /\ conn[c] = "sending"
  /\ Len(queue) < QueueCap
  /\ queue' = Append(queue, <<c, read[c]>>)
  /\ conn' = [conn EXCEPT ![c] = "reading"]
  /\ UNCHANGED <<read, engine>>

\* The connection is closed or fails.
ConnectionEnds(c) ==
  /\ conn[c] = "reading"
  /\ conn' = [conn EXCEPT ![c] = "sleeping"]
  /\ UNCHANGED <<read, queue, engine>>

WakeUp(c) ==
  /\ conn[c] = "sleeping"
  /\ conn' = [conn EXCEPT ![c] = "connecting"]
  /\ UNCHANGED <<read, queue, engine>>

-----------------------------------------------------------------------------
(***************************************************************************)
(* The engine task.                                                        *)
(***************************************************************************)
\* Mutant: a depth pass is repeated until no gap is left.
AfterPassHealed ==
  IF booted THEN (IF gaps # {} THEN "depth" ELSE "loop")
  ELSE [klines |-> "depth", depth |-> "funding", funding |-> "premium",
        premium |-> "oi", oi |-> "loop"][call]

\* Where the task is once a pass is over.
AfterPass ==
  IF booted THEN "loop"
  ELSE [klines |-> "depth", depth |-> "funding", funding |-> "premium",
        premium |-> "oi", oi |-> "loop"][call]

PassEnds ==
  /\ call' = AfterPass
  /\ at' = 1
  /\ booted' = (booted \/ AfterPass = "loop")

\* Mutant: a resync is over with the first symbol.
RestOkOnce ==
  /\ call # "loop"
  /\ booked' = IF call = "depth" THEN booked \cup {Focus[at]} ELSE booked
  /\ gaps' = IF call = "depth" THEN gaps \ {Focus[at]} ELSE gaps
  /\ failed' = IF call = "depth" THEN FALSE ELSE failed
  /\ IF at < Len(Focus) /\ ~booted
       THEN at' = at + 1 /\ UNCHANGED <<call, booted>>
       ELSE PassEnds
  /\ UNCHANGED <<readers, queue, applied>>

\* The request for the symbol is answered and its answer applied; a depth
\* snapshot ends its gap.
RestOk ==
  /\ call # "loop"
  /\ booked' = IF call = "depth" THEN booked \cup {Focus[at]} ELSE booked
  /\ gaps' = IF call = "depth" THEN gaps \ {Focus[at]} ELSE gaps
  /\ IF at < Len(Focus)
       THEN /\ at' = at + 1
            /\ UNCHANGED <<call, booted, failed>>
       ELSE /\ PassEnds
            /\ failed' = (call # "depth" /\ failed)
  /\ UNCHANGED <<readers, queue, applied>>

\* Mutant: a failure sends the bootstrap back to its first pass.
RestFailsRestart ==
  /\ call # "loop"
  /\ IF booted THEN PassEnds ELSE call' = "klines" /\ at' = 1 /\ UNCHANGED booted
  /\ failed' = (call = "depth" \/ failed)
  /\ UNCHANGED <<readers, queue, applied, booked, gaps>>

\* The request or its parsing fails: the pass is over for every symbol left.
RestFails ==
  /\ call # "loop"
  /\ PassEnds
  /\ failed' = (call = "depth" \/ failed)
  /\ UNCHANGED <<readers, queue, applied, booked, gaps>>

\* One payload is applied; then, whatever became of it, full_book_resync_needed
\* is looked at.
Payload ==
  /\ call = "loop"
  /\ queue # <<>>
  /\ queue' = Tail(queue)
  /\ applied' = [applied EXCEPT ![Head(queue)[1]] = Head(queue)[2]]
  /\ gaps' \in {gaps} \cup {gaps \cup {s} : s \in booked}
  /\ call' = IF gaps' # {} THEN "depth" ELSE "loop"
  /\ UNCHANGED <<readers, at, booted, booked, failed>>

OiTick ==
  /\ call = "loop"
  /\ call' = "oi"
  /\ UNCHANGED <<readers, queue, applied, at, booted, booked, gaps, failed>>

Rest == RestOk \/ RestFails

Next ==
  \/ \E c \in Conns :
       Open(c) \/ OpenFails(c) \/ ReadFrame(c) \/ Send(c) \/ ConnectionEnds(c) \/ WakeUp(c)
  \/ Rest \/ Payload \/ OiTick

Spec == Init /\ [][Next]_vars

\* Requests are answered or fail; select! draws its branch at random, so that
\* payloads are not shut out for ever; a reader gets its place in the channel.
FairSpec ==
  /\ Spec
  /\ WF_vars(Rest)
  /\ SF_vars(Payload)
  /\ \A c \in Conns : SF_vars(Send(c)) /\ WF_vars(WakeUp(c))

-----------------------------------------------------------------------------
(***************************************************************************)
(* Properties.                                                             *)
(***************************************************************************)
\* Places of the frames of c in the channel.
Queued(c) == {i \in 1..Len(queue) : queue[i][1] = c}

\* Frames c has handed over to the channel.
Sent(c) == IF conn[c] = "sending" THEN read[c] - 1 ELSE read[c]

\* Between a socket and the engine no frame is dropped, doubled or overtaken
\* by a later one of its connection, over reconnects and with the channel
\* full: the channel holds what was sent and not yet applied, in order.
FramesInOrder ==
  \A c \in Conns :
    /\ applied[c] <= Sent(c)
    /\ {queue[i][2] : i \in Queued(c)} = (applied[c] + 1)..Sent(c)
    /\ \A i, j \in Queued(c) : i < j => queue[i][2] < queue[j][2]

\* The loop leaves a gap open only when the snapshot pass it started for it
\* has failed.
OpenGapMeansFailure == (call = "loop" /\ gaps # {}) => failed

\* Every frame that was read is applied in the end: REST passes and a full
\* channel delay it only.
FramesApplied ==
  \A c \in Conns, n \in 1..MaxFrames : (read[c] = n) ~> (applied[c] >= n)

\* However many bootstrap requests fail, the engine gets to its loop.
BootEnds == <>booted
=============================================================================
