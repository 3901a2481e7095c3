---------------------------- MODULE ChangeStream ----------------------------
(***************************************************************************)
(* The change stream as the sink sees it, and the pure operators of        *)
(* internal/sink over a batch of it.  A message is identified by its       *)
(* position <<partition, offset>>; offsets count from 1 and offset 0 in    *)
(* the offset table stands for "no row".  A batch is a set of positions:   *)
(* a reader never returns the same message twice, and the order in which   *)
(* Poll collects them is the order Before on positions.                    *)
(***************************************************************************)
EXTENDS Fence, ErrorClasses, Sequences, FiniteSets, FiniteSetsExt

CONSTANTS
  Keys,        \* row keys, table name included
  Vals,        \* row images
  Partitions,  \* partitions, in the order the consumer reads them
  MaxLSN,      \* the ceiling of a source LSN (2^63 - 1: it is stored in a BIGINT)
  MaxPartition, \* the ceiling of a partition number (an int32)
  MaxOffset,   \* the ceiling of an offset (an int64)
  Logs         \* the contents the stream may have

(***************************************************************************)
(* kind   what Decode makes of the message: a row write, a tombstone write,*)
(*        nothing to apply (a compaction tombstone or a snapshot           *)
(*        watermark), or a permanent decode error.                         *)
(* fault  the class of the error the target answers to this record with    *)
(*        until its cause is repaired; "none" for a record it accepts.  A  *)
(*        refusal whose text looks transient is retried like an outage.    *)
(***************************************************************************)
Kinds == {"upsert", "delete", "skip", "undecodable"}
Faults == {"none"} \cup {Classify(err) : err \in Refusals}

Message == [kind : Kinds, key : Keys, lsn : 0..MaxLSN, val : Vals, fault : Faults]

ASSUME StreamAssumption ==
  /\ MaxPartition \in Nat
  /\ MaxOffset \in Nat
  /\ Partitions \subseteq 0..MaxPartition
  /\ MaxLSN \in Nat
  /\ NullImage \in Vals
  /\ NoRow \notin Row(Vals)
  /\ \A l \in Logs :
       /\ l \in [Partitions -> Seq(Message)]
       /\ \A p \in Partitions : Len(l[p]) <= MaxOffset

Positions(log) == UNION {{<<p, o>> : o \in 1..Len(log[p])} : p \in Partitions}

At(log, x) == log[x[1]][x[2]]

IsRow(log, x) == At(log, x).kind \in {"upsert", "delete"}

\* The records the target refuses from the start.
Faulty(log) == {x \in Positions(log) : IsRow(log, x) /\ At(log, x).fault # "none"}

Before(x, y) == x[1] < y[1] \/ (x[1] = y[1] /\ x[2] < y[2])

First(S) == CHOOSE x \in S : \A y \in S : y = x \/ Before(x, y)

-----------------------------------------------------------------------------
(***************************************************************************)
(* Batches.                                                                *)
(***************************************************************************)

\* x survives y: a newer LSN, or the same LSN and a later offset, or the same
\* of both and a later arrival.
Supersedes(log, x, y) ==
  \/ At(log, x).lsn > At(log, y).lsn
  \/ /\ At(log, x).lsn = At(log, y).lsn
     /\ x[2] > y[2] \/ (x[2] = y[2] /\ x[1] >= y[1])

\* MUTANT: the oldest event of a row survives.
CoalesceOldest(log, S) ==
  {x \in S : \A y \in S : At(log, y).key = At(log, x).key => Supersedes(log, y, x)}

\* One event per row, the newest by LSN.
Coalesce(log, S) ==
  {x \in S : \A y \in S : At(log, y).key = At(log, x).key => Supersedes(log, x, y)}

\* MUTANT: a write without the fence.
WriteRowUnfenced(row, m) ==
  [lsn |-> m.lsn, deleted |-> m.kind = "delete", val |-> m.val]

\* The row a record leaves behind.
WriteRow(row, m) ==
  IF m.kind = "delete" THEN FencedDelete(row, m.lsn)
                       ELSE FencedUpsert(row, m.lsn, m.val)

\* The table after the transaction that writes batch S.
Write(log, rows, S) ==
  [k \in Keys |->
     LET winners == {x \in Coalesce(log, S) : At(log, x).key = k}
     IN  IF winners = {} THEN rows[k]
         ELSE WriteRow(rows[k], At(log, CHOOSE x \in winners : TRUE))]

\* The transaction fails when the target refuses one of the surviving records.
Rejected(log, faulty, S) == Coalesce(log, S) \cap faulty # {}

\* The error is about a record, and Classify sees that it is.
DataError(log, faulty, S) ==
  \E x \in Coalesce(log, S) \cap faulty : At(log, x).fault # "transient"

\* The two halves a failing batch is bisected into: the first len/2, and the
\* rest.
LowerHalf(S) == {x \in S : Cardinality({y \in S : Before(y, x)}) < Cardinality(S) \div 2}
UpperHalf(S) == S \ LowerHalf(S)

\* MUTANT: the offset after the last one is stored, as Kafka's own commits do.
HighWaterMarksNext(S) ==
  [p \in {x[1] : x \in S} |-> Max({x[2] : x \in {y \in S : y[1] = p}}) + 1]

\* The highest offset of the batch per partition it touches.
HighWaterMarks(S) ==
  [p \in {x[1] : x \in S} |-> Max({x[2] : x \in {y \in S : y[1] = p}})]

\* MUTANT: the last writer wins.
UpsertOffsetUnguarded(offsets, marks) ==
  [p \in Partitions |-> IF p \in DOMAIN marks THEN marks[p] ELSE offsets[p]]

\* The offset table after the marks are recorded: an offset only moves forward.
UpsertOffset(offsets, marks) ==
  [p \in Partitions |->
     IF p \in DOMAIN marks THEN IF offsets[p] <= marks[p] THEN marks[p] ELSE offsets[p]
                           ELSE offsets[p]]

-----------------------------------------------------------------------------
(***************************************************************************)
(* What the source did to a row, and what the target shows of it: the      *)
(* vocabulary of the properties.                                           *)
(***************************************************************************)

ChangesTo(log, k) == {x \in Positions(log) : IsRow(log, x) /\ At(log, x).key = k}

LastChange(log, k) ==
  CHOOSE x \in ChangesTo(log, k) : \A y \in ChangesTo(log, k) : Supersedes(log, x, y)

\* The target has seen the record at x or a newer change to the same row.
Covered(log, rows, x) ==
  LET m == At(log, x) IN rows[m.key] # NoRow /\ rows[m.key].lsn >= m.lsn

\* A reader of the target sees the row as change m left it on the source.
Shows(row, m) ==
  /\ row # NoRow
  /\ row.deleted = (m.kind = "delete")
  /\ ~row.deleted => row.val = m.val

\* Every row is the effect of one of the changes the source made to it.
RowsFromStream(log, rows) ==
  \A k \in Keys : rows[k] # NoRow =>
    \E x \in ChangesTo(log, k) : Shows(rows[k], At(log, x)) /\ rows[k].lsn = At(log, x).lsn

\* Two changes of a row with one LSN are the same change, delivered twice.  A
\* source transaction that changes a row twice breaks this.
LSNsIdentifyChanges ==
  \A l \in Logs : \A k \in Keys : \A x, y \in ChangesTo(l, k) :
    At(l, x).lsn = At(l, y).lsn =>
      At(l, x).kind = At(l, y).kind /\ (At(l, x).kind = "delete" \/ At(l, x).val = At(l, y).val)

\* The row without what only the database sees: the columns of a tombstone.
Visible(row) ==
  IF row = NoRow THEN NoRow
  ELSE IF row.deleted THEN [row EXCEPT !.val = NullImage] ELSE row
=============================================================================
