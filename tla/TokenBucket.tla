----------------------------- MODULE TokenBucket -----------------------------
(***************************************************************************)
(* TokenBucket (crates/binance/src/rate_limiter.rs) as threads run it: an  *)
(* atomic counter changed by fetch_update, a load followed by compare-and- *)
(* exchange attempts, each of which may also fail without a cause.         *)
(***************************************************************************)
EXTENDS Integers

CONSTANTS
  Clients,   \* threads with a reference to the bucket
  Capacity,  \* TokenBucket.capacity
  Amounts    \* arguments of try_take and refill

ASSUME BucketAssumption == Capacity \in Nat /\ Amounts \subseteq Nat

VARIABLES
  tokens,    \* the atomic
  answer,    \* what the last call of a client returned, or "pending"
  op,        \* the call a client is in: its kind and argument
  seen       \* the value it goes by, or NotSeen before the load

vars == <<tokens, answer, op, seen>>

Abstract == INSTANCE Bucket

NotSeen == -1

Op == Abstract!Op

NoOp == Abstract!NoOp

TypeOK ==
  /\ tokens \in 0..Capacity
  /\ answer \in [Clients -> {"idle", "pending", "yes", "no"}]
  /\ op \in [Clients -> Op \cup {NoOp}]
  /\ seen \in [Clients -> {NotSeen} \cup 0..Capacity]

Init ==
  /\ tokens = Capacity
  /\ answer = [c \in Clients |-> "idle"]
  /\ op = [c \in Clients |-> NoOp]
  /\ seen = [c \in Clients |-> NotSeen]

\* The closure given to fetch_update has an update for this value.
Allows(o, available) == o.kind = "take" => available >= o.n

\* Mutant: the capacity is not looked at.
UpdatedUncapped(o, available) ==
  IF o.kind = "take" THEN available - o.n ELSE available + o.n

\* The update.  saturating_add saturates above every capacity.
Updated(o, available) ==
  IF o.kind = "take" THEN available - o.n ELSE Abstract!Least(available + o.n, Capacity)

\* try_take(n) and refill(n) are called.
Call(c) ==
  /\ answer[c] # "pending"
  /\ answer' = [answer EXCEPT ![c] = "pending"]
  /\ \E o \in Op : op' = [op EXCEPT ![c] = o]
  /\ seen' = [seen EXCEPT ![c] = NotSeen]
  /\ UNCHANGED tokens

\* A value has been read, by the load or by a failed exchange: the closure
\* allows another attempt or the call returns false.
Decide(c) ==
  IF Allows(op[c], tokens)
    THEN seen' = [seen EXCEPT ![c] = tokens] /\ UNCHANGED answer
    ELSE answer' = [answer EXCEPT ![c] = "no"] /\ UNCHANGED seen

Load(c) ==
  /\ answer[c] = "pending"
  /\ seen[c] = NotSeen
  /\ Decide(c)
  /\ UNCHANGED <<tokens, op>>

\* Mutant: the counter is stored without a comparison.
ExchangeBlind(c) ==
  /\ answer[c] = "pending"
  /\ seen[c] # NotSeen
  /\ tokens' = Updated(op[c], seen[c])
  /\ answer' = [answer EXCEPT ![c] = "yes"]
  /\ UNCHANGED <<op, seen>>

Exchange(c) ==
  /\ answer[c] = "pending"
  /\ seen[c] # NotSeen
  /\ tokens = seen[c]
  /\ tokens' = Updated(op[c], seen[c])
  /\ answer' = [answer EXCEPT ![c] = "yes"]
  /\ UNCHANGED <<op, seen>>

\* compare_exchange_weak fails, with or without another value there.
ExchangeFails(c) ==
  /\ answer[c] = "pending"
  /\ seen[c] # NotSeen
  /\ Decide(c)
  /\ UNCHANGED <<tokens, op>>

Next == \E c \in Clients : Call(c) \/ Load(c) \/ Exchange(c) \/ ExchangeFails(c)

Spec == Init /\ [][Next]_vars

-----------------------------------------------------------------------------
\* A pending call has an operation, and goes by a value that allows it.
Engaged ==
  \A c \in Clients :
    answer[c] = "pending" =>
      /\ op[c] \in Op
      /\ seen[c] # NotSeen => Allows(op[c], seen[c])

\* The inductive invariant behind AtomicBucket.
IInv == TypeOK /\ Engaged

\* No interleaving of loads and exchanges shows: every call takes effect at
\* once and with its own amount, refusals included, no refill is refused, and
\* no token is given out twice or lost.
AtomicBucket == Abstract!Spec
=============================================================================
