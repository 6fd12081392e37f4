------------------------------ MODULE OrderBook ------------------------------
(***************************************************************************)
(* The data of a depth book: the updates an exchange makes to price        *)
(* levels, and the local copy that crates/state/src/book_full.rs keeps.    *)
(*                                                                         *)
(* A level stands for a side and a price key (book_full.rs keeps one       *)
(* BTreeMap per side, keyed by the price in units of 1e-8).  Update ids    *)
(* are renumbered 1, 2, 3, ... per symbol: the code only compares them, so *)
(* any order-preserving renumbering is the same book.                      *)
(***************************************************************************)
EXTENDS Integers, Sequences, FiniteSetsExt

CONSTANTS
  Levels,   \* the price levels of a book, bids and asks together
  Qty,      \* the quantities a level can be set to; 0 deletes it
  Absent    \* a level that is not a key of the local map

ASSUME QtyAssumption == Qty \subseteq Nat /\ 0 \in Qty
ASSUME AbsentAssumption == Absent \notin Nat

\* One change the matching engine makes to the book: a level and its new
\* absolute quantity.
Update == [level : Levels, qty : Qty]

Held == Qty \cup {Absent}

\* What the local map holds for a level of quantity q (apply_levels removes
\* the key of a level whose quantity is zero).
Hold(q) == IF q = 0 THEN Absent ELSE q

\* The updates of the first v that touch level l.
Touches(updates, v, l) == {w \in 1..v : updates[w].level = l}

\* The quantity of level l in the exchange's book after v updates.
QtyAt(updates, v, l) ==
  IF Touches(updates, v, l) = {} THEN 0
  ELSE updates[Max(Touches(updates, v, l))].qty

\* The exchange's book after v updates as far as the levels in reach go.
View(updates, v, reach) ==
  [l \in Levels |-> IF l \in reach THEN Hold(QtyAt(updates, v, l)) ELSE Absent]

\* The levels touched by the updates first..final.
Touched(updates, first, final) == {updates[w].level : w \in first..final}

-----------------------------------------------------------------------------
(***************************************************************************)
(* FullBook.  "present" is Option<FullBook> of SymbolState: the fields of  *)
(* an absent book are those of NoBook.                                     *)
(***************************************************************************)
BookType(maxVersion) ==
  [present : BOOLEAN, last : 0..maxVersion, seqOk : BOOLEAN, boot : BOOLEAN,
   qty : [Levels -> Held]]

NoBook ==
  [present |-> FALSE, last |-> 0, seqOk |-> FALSE, boot |-> FALSE,
   qty |-> [l \in Levels |-> Absent]]

\* Mutant: the snapshot's id is taken to be the next one expected.
FromSnapshotNextId(lastUpdateId, qty) ==
  [present |-> TRUE, last |-> lastUpdateId + 1, seqOk |-> TRUE, boot |-> FALSE,
   qty |-> qty]

\* Mutant: the reset leaves seq_ok for the first delta to set.
FromSnapshotUntrusted(lastUpdateId, qty) ==
  [present |-> TRUE, last |-> lastUpdateId, seqOk |-> FALSE, boot |-> FALSE,
   qty |-> qty]

\* from_snapshot and reset_from_snapshot: trusted, and waiting for the delta
\* that bridges the snapshot.
FromSnapshot(lastUpdateId, qty) ==
  [present |-> TRUE, last |-> lastUpdateId, seqOk |-> TRUE, boot |-> FALSE,
   qty |-> qty]

\* A delta carries update ids first..final and the id its predecessor on the
\* stream ended with.
IsStale(book, delta) == delta.final <= book.last

\* Mutant: a streaming book accepts any later delta.
SequenceOkAnyLater(book, delta) ==
  IF book.boot THEN TRUE
  ELSE delta.first <= book.last /\ delta.final >= book.last

SequenceOk(book, delta) ==
  IF book.boot
    THEN delta.prev = book.last
    ELSE delta.first <= book.last /\ delta.final >= book.last

\* apply_levels: absolute quantities, zero removes the key.
ApplyLevels(qty, updates, delta) ==
  [l \in Levels |->
     IF l \in Touched(updates, delta.first, delta.final)
       THEN Hold(QtyAt(updates, delta.final, l))
       ELSE qty[l]]

\* apply_delta returns Err(SequenceGap).
Gaps(book, delta) == ~IsStale(book, delta) /\ ~SequenceOk(book, delta)

\* Mutant: the book remembers the first id of the delta instead of the last.
ApplyDeltaFirstId(book, updates, delta) ==
  IF IsStale(book, delta) THEN book
  ELSE IF SequenceOk(book, delta)
    THEN [book EXCEPT !.qty = ApplyLevels(book.qty, updates, delta),
                      !.last = delta.first, !.seqOk = TRUE, !.boot = TRUE]
    ELSE [book EXCEPT !.seqOk = FALSE]

\* Mutant: a rejected delta moves last_update_id on.
ApplyDeltaSkipsAhead(book, updates, delta) ==
  IF IsStale(book, delta) THEN book
  ELSE IF SequenceOk(book, delta)
    THEN [book EXCEPT !.qty = ApplyLevels(book.qty, updates, delta),
                      !.last = delta.final, !.seqOk = TRUE, !.boot = TRUE]
    ELSE [book EXCEPT !.last = delta.final, !.seqOk = FALSE, !.boot = TRUE]

\* The book after apply_delta, whichever way it returns.
ApplyDelta(book, updates, delta) ==
  IF IsStale(book, delta) THEN book
  ELSE IF SequenceOk(book, delta)
    THEN [present |-> TRUE, last |-> delta.final, seqOk |-> TRUE, boot |-> TRUE,
          qty |-> ApplyLevels(book.qty, updates, delta)]
    ELSE [present |-> TRUE, last |-> book.last, seqOk |-> FALSE,
          boot |-> book.boot, qty |-> book.qty]
=============================================================================
