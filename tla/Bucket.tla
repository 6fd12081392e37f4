------------------------------- MODULE Bucket -------------------------------
(***************************************************************************)
(* What TokenBucket (crates/binance/src/rate_limiter.rs) promises to the   *)
(* threads that share one: a counter between zero and the capacity, taken  *)
(* from and refilled atomically between a call and its return.             *)
(***************************************************************************)
EXTENDS Integers

CONSTANTS
  Clients,   \* threads with a reference to the bucket
  Capacity,  \* TokenBucket.capacity
  Amounts    \* arguments of try_take and refill

VARIABLES
  tokens,    \* what the bucket holds
  answer,    \* what the last call of a client returned, or "pending"
  op         \* the last call of a client: its kind and amount

Op == [kind : {"take", "refill"}, n : Amounts]

NoOp == [kind |-> "none"]

Least(a, b) == IF a <= b THEN a ELSE b

Init ==
  /\ tokens = Capacity
  /\ answer = [c \in Clients |-> "idle"]
  /\ op = [c \in Clients |-> NoOp]

Ask(c) ==
  /\ answer[c] # "pending"
  /\ answer' = [answer EXCEPT ![c] = "pending"]
  /\ \E o \in Op : op' = [op EXCEPT ![c] = o]
  /\ UNCHANGED tokens

\* A call of this kind returns, having done what was asked of it.
Return(c, kind, a) ==
  /\ answer[c] = "pending"
  /\ op[c].kind = kind
  /\ answer' = [answer EXCEPT ![c] = a]
  /\ UNCHANGED op

Take(c) ==
  /\ Return(c, "take", "yes")
  /\ tokens >= op[c].n
  /\ tokens' = tokens - op[c].n

\* A refusal is right at the moment it is decided; a refill is never refused.
Refuse(c) ==
  /\ Return(c, "take", "no")
  /\ tokens < op[c].n
  /\ UNCHANGED tokens

Refill(c) ==
  /\ Return(c, "refill", "yes")
  /\ tokens' = Least(tokens + op[c].n, Capacity)

Next == \E c \in Clients : Ask(c) \/ Take(c) \/ Refuse(c) \/ Refill(c)

Spec == Init /\ [][Next]_<<tokens, answer, op>>
=============================================================================
