-------------------------- MODULE TokenBucketProofs --------------------------
(***************************************************************************)
(* TokenBucket implements Bucket, for any threads, capacity and amounts.   *)
(***************************************************************************)
EXTENDS TokenBucket, TLAPS

\* What an update leaves in the bucket fits it, and is what the abstract
\* bucket computes.
LEMMA UpdatedFits ==
  ASSUME NEW o \in Op, NEW available \in 0..Capacity, Allows(o, available)
  PROVE  /\ o.n \in Amounts /\ o.n \in Nat
         /\ Updated(o, available) \in 0..Capacity
         /\ o.kind = "take" =>
              available >= o.n /\ Updated(o, available) = available - o.n
         /\ o.kind # "take" =>
              Updated(o, available) = Abstract!Least(available + o.n, Capacity)
<1>1. o.kind \in {"take", "refill"} /\ o.n \in Amounts /\ o.n \in Nat
  BY BucketAssumption DEF Op, Abstract!Op
<1>2. CASE o.kind = "take"
  <2>1. available >= o.n
    BY <1>2 DEF Allows
  <2> QED
    BY <1>1, <1>2, <2>1, BucketAssumption DEF Updated
<1>3. CASE o.kind # "take"
  BY <1>1, <1>3, BucketAssumption DEF Updated, Abstract!Least
<1> QED
  BY <1>2, <1>3

\* A value that does not allow the call is below what it takes.
LEMMA NotAllowed ==
  ASSUME NEW o \in Op, NEW available \in 0..Capacity, ~Allows(o, available)
  PROVE  o.kind = "take" /\ available < o.n
<1>1. o.n \in Nat
  BY BucketAssumption DEF Op, Abstract!Op
<1>2. o.kind = "take" /\ ~(available >= o.n)
  BY DEF Allows
<1> QED
  BY <1>1, <1>2

LEMMA Initially == Init => IInv
BY BucketAssumption DEF Init, IInv, TypeOK, Engaged, NotSeen

\* The decision taken on a value just read keeps the invariant.
LEMMA DecideKeeps ==
  ASSUME IInv, NEW c \in Clients, answer[c] = "pending", Decide(c),
         UNCHANGED <<tokens, op>>
  PROVE  IInv'
<1> USE DEF IInv, TypeOK, Engaged
<1>1. CASE Allows(op[c], tokens)
  BY <1>1 DEF Decide, Allows
<1>2. CASE ~Allows(op[c], tokens)
  BY <1>2 DEF Decide, Allows
<1> QED
  BY <1>1, <1>2

LEMMA Step == IInv /\ [Next]_vars => IInv'
<1> SUFFICES ASSUME IInv, [Next]_vars PROVE IInv'
  OBVIOUS
<1>1. ASSUME NEW c \in Clients, Call(c) PROVE IInv'
  BY <1>1 DEF Call, IInv, TypeOK, Engaged, NotSeen
<1>2. ASSUME NEW c \in Clients, Load(c) \/ ExchangeFails(c) PROVE IInv'
  BY <1>2, DecideKeeps DEF Load, ExchangeFails
<1>3. ASSUME NEW c \in Clients, Exchange(c) PROVE IInv'
  <2>1. op[c] \in Op /\ Allows(op[c], seen[c]) /\ seen[c] \in 0..Capacity
    BY <1>3 DEF Exchange, IInv, TypeOK, Engaged
  <2>2. tokens' \in 0..Capacity
    BY <1>3, <2>1, UpdatedFits DEF Exchange
  <2> QED
    BY <1>3, <2>2 DEF Exchange, IInv, TypeOK, Engaged, Allows
<1>4. CASE UNCHANGED vars
  BY <1>4 DEF vars, IInv, TypeOK, Engaged, Allows
<1> QED
  BY <1>1, <1>2, <1>3, <1>4 DEF Next

\* The bucket never holds more than its capacity, nor a negative number.
THEOREM TypeCorrect == Spec => []TypeOK
<1>1. IInv => TypeOK
  BY DEF IInv
<1> QED
  BY <1>1, Initially, Step, PTL DEF Spec

\* A decision is a refusal of the abstract bucket, or no step of it.
LEMMA DecideRefines ==
  ASSUME IInv, NEW c \in Clients, answer[c] = "pending", Decide(c),
         UNCHANGED <<tokens, op>>
  PROVE  Abstract!Next \/ UNCHANGED <<tokens, answer, op>>
<1>1. CASE Allows(op[c], tokens)
  BY <1>1 DEF Decide
<1>2. CASE ~Allows(op[c], tokens)
  <2>1. op[c].kind = "take" /\ tokens < op[c].n
    BY <1>2, NotAllowed DEF IInv, TypeOK, Engaged
  <2>2. Abstract!Refuse(c)
    BY <1>2, <2>1 DEF Decide, Abstract!Refuse, Abstract!Return
  <2> QED
    BY <2>2 DEF Abstract!Next
<1> QED
  BY <1>1, <1>2

LEMMA StepRefines == IInv /\ [Next]_vars => [Abstract!Next]_<<tokens, answer, op>>
<1> SUFFICES ASSUME IInv, [Next]_vars
             PROVE  Abstract!Next \/ UNCHANGED <<tokens, answer, op>>
  OBVIOUS
<1>1. ASSUME NEW c \in Clients, Call(c) PROVE Abstract!Next
  BY <1>1 DEF Call, Op, Abstract!Next, Abstract!Ask
<1>2. ASSUME NEW c \in Clients, Load(c) \/ ExchangeFails(c)
      PROVE  Abstract!Next \/ UNCHANGED <<tokens, answer, op>>
  BY <1>2, DecideRefines DEF Load, ExchangeFails
<1>3. ASSUME NEW c \in Clients, Exchange(c) PROVE Abstract!Next
  <2>1. /\ op[c] \in Op /\ Allows(op[c], tokens) /\ tokens \in 0..Capacity
        /\ tokens' = Updated(op[c], tokens)
    BY <1>3 DEF Exchange, IInv, TypeOK, Engaged
  <2>2. op[c].kind \in {"take", "refill"}
    BY <2>1 DEF Op, Abstract!Op
  <2>3. Abstract!Return(c, op[c].kind, "yes")
    BY <1>3 DEF Exchange, Abstract!Return
  <2>4. CASE op[c].kind = "take"
    <3>1. tokens >= op[c].n /\ tokens' = tokens - op[c].n
      BY <2>1, <2>4, UpdatedFits
    <3>2. Abstract!Take(c)
      BY <2>3, <2>4, <3>1 DEF Abstract!Take
    <3> QED
      BY <3>2 DEF Abstract!Next
  <2>5. CASE op[c].kind = "refill"
    <3>1. tokens' = Abstract!Least(tokens + op[c].n, Capacity)
      BY <2>1, <2>5, UpdatedFits
    <3>2. Abstract!Refill(c)
      BY <2>3, <2>5, <3>1 DEF Abstract!Refill
    <3> QED
      BY <3>2 DEF Abstract!Next
  <2> QED
    BY <2>2, <2>4, <2>5
<1>4. CASE UNCHANGED vars
  BY <1>4 DEF vars
<1> QED
  BY <1>1, <1>2, <1>3, <1>4 DEF Next

\* Every behaviour of the compare-and-exchange loops is one of the atomic
\* bucket.
THEOREM Refinement == Spec => AtomicBucket
<1>1. Init => Abstract!Init
  BY DEF Init, NoOp, Abstract!Init
<1> QED
  BY <1>1, Initially, Step, StepRefines, PTL DEF Spec, AtomicBucket, Abstract!Spec
=============================================================================
