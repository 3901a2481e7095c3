---------------------------- MODULE StreamProofs ----------------------------
(***************************************************************************)
(* Lemmas about the operators on batches, for every stream.                *)
(***************************************************************************)
EXTENDS ChangeStream, FenceProofs, FiniteSetTheorems

-----------------------------------------------------------------------------
(***************************************************************************)
(* Errors.                                                                 *)
(***************************************************************************)

\* Classify answers with one of the three classes, so a record is faulty with one
\* of them and an outage is misjudged as one of them.
LEMMA ClassesTyped ==
  Faults \subseteq {"none"} \cup Classes /\ Misjudged \subseteq Classes
<1>1. ASSUME NEW err \in Error
      PROVE  Classify(err) \in Classes
  <2>1. err.marked \in {"no", "permanent", "transient"}
    BY DEF Error
  <2>2. classifySQLState(err.state) \in Classes /\ classifyText(err.text) \in Classes
    BY DEF classifySQLState, classifyText, Classes
  <2>. QED
    BY <2>1, <2>2 DEF Classify, Classes
<1>. QED
  BY <1>1, MisjudgedAssumption DEF Faults, Refusals

-----------------------------------------------------------------------------
(***************************************************************************)
(* Positions and messages.                                                 *)
(***************************************************************************)

\* A position names a message of the stream.
LEMMA PositionsTyped ==
  ASSUME NEW l \in Logs, NEW x \in Positions(l)
  PROVE  /\ x = <<x[1], x[2]>>
         /\ x[1] \in Partitions /\ x[1] \in Nat
         /\ x[2] \in Nat /\ x[2] \in 1..Len(l[x[1]])
         /\ Len(l[x[1]]) \in Nat
         /\ At(l, x) \in Message
<1>1. l \in [Partitions -> Seq(Message)] /\ Partitions \subseteq Nat
  BY StreamAssumption
<1>2. PICK p \in Partitions : \E o \in 1..Len(l[p]) : x = <<p, o>>
  BY DEF Positions
<1>. PICK o \in 1..Len(l[p]) : x = <<p, o>>
  BY <1>2
<1>3. l[p] \in Seq(Message) /\ Len(l[p]) \in Nat
  BY <1>1
<1>4. l[p][o] \in Message
  BY <1>3
<1>. QED
  BY <1>1, <1>2, <1>3, <1>4 DEF At

\* A stream has finitely many positions, so what failed in it can be listed.
LEMMA PositionsFinite ==
  ASSUME NEW l \in Logs, NEW S \in SUBSET Positions(l)
  PROVE  IsFiniteSet(S) /\ Cardinality(S) \in Nat
<1>1. MaxPartition \in Nat /\ MaxOffset \in Nat
  BY StreamAssumption
<1>2. IsFiniteSet(0..MaxPartition) /\ IsFiniteSet(0..MaxOffset)
  BY <1>1, FS_Interval
<1>3. IsFiniteSet((0..MaxPartition) \X (0..MaxOffset))
  BY <1>2, FS_Product
<1>4. \A x \in S : x \in (0..MaxPartition) \X (0..MaxOffset)
  <2>. TAKE x \in S
  <2>1. /\ x = <<x[1], x[2]>> /\ x[1] \in Partitions
        /\ x[2] \in 1..Len(l[x[1]]) /\ Len(l[x[1]]) \in Nat
    BY PositionsTyped
  <2>2. x[1] \in 0..MaxPartition /\ x[2] \in 0..MaxOffset
    BY <1>1, <2>1, StreamAssumption
  <2>. QED
    BY <2>1, <2>2
<1>5. IsFiniteSet(S)
  BY <1>3, <1>4, FS_Subset
<1>. QED
  BY <1>5, FS_CardinalityType

\* A non-empty set of positions has a first one.
LEMMA FirstIn ==
  ASSUME NEW l \in Logs, NEW S \in SUBSET Positions(l), S # {}
  PROVE  First(S) \in S
<1> DEFINE P == {x[1] : x \in S}
<1>1. P \in SUBSET Nat /\ P # {}
  BY PositionsTyped
<1>2. PICK p \in P : \A q \in P : p <= q
  BY <1>1, LeastNat
<1> DEFINE O == {x[2] : x \in {y \in S : y[1] = p}}
<1>3. O \in SUBSET Nat /\ O # {}
  BY <1>2, PositionsTyped
<1>4. PICK o \in O : \A q \in O : o <= q
  BY <1>3, LeastNat
<1>5. PICK f \in S : f[1] = p /\ f[2] = o
  BY <1>4
<1>6. \A y \in S : y = f \/ Before(f, y)
  <2>. TAKE y \in S
  <2>1. /\ y = <<y[1], y[2]>> /\ y[1] \in Nat /\ y[2] \in Nat
        /\ f = <<f[1], f[2]>> /\ f[1] \in Nat /\ f[2] \in Nat
    BY PositionsTyped
  <2>2. f[1] <= y[1]
    BY <1>2, <1>5
  <2>3. y[1] = f[1] => f[2] <= y[2]
    BY <1>4, <1>5
  <2>. QED
    BY <2>1, <2>2, <2>3 DEF Before
<1>. QED
  BY <1>5, <1>6 DEF First

-----------------------------------------------------------------------------
(***************************************************************************)
(* Coalescing.                                                             *)
(***************************************************************************)

\* Every record of a batch is superseded by a survivor for the same row.
LEMMA CoalesceCovers ==
  ASSUME NEW l \in Logs, NEW S \in SUBSET Positions(l), NEW x \in S
  PROVE  \E w \in Coalesce(l, S) :
           At(l, w).key = At(l, x).key /\ At(l, w).lsn >= At(l, x).lsn
<1> DEFINE Same == {y \in S : At(l, y).key = At(l, x).key}
           L == {At(l, y).lsn : y \in Same}
<1>1. MaxLSN \in Nat /\ \A y \in S : At(l, y).lsn \in 0..MaxLSN
  BY PositionsTyped, StreamAssumption DEF Message
<1>2. L \in SUBSET (0..MaxLSN) /\ L # {}
  BY <1>1
<1>3. PICK lsn \in L : \A v \in L : lsn >= v
  BY <1>1, <1>2, GreatestNat
<1> DEFINE Top == {y \in Same : At(l, y).lsn = lsn}
           O == {y[2] : y \in Top}
<1>4. MaxOffset \in Nat /\ \A y \in S : y[2] \in 0..MaxOffset
  <2>1. MaxOffset \in Nat /\ \A p \in Partitions : Len(l[p]) <= MaxOffset
    BY StreamAssumption
  <2>2. \A y \in S : /\ y[1] \in Partitions /\ Len(l[y[1]]) \in Nat
                     /\ y[2] \in Nat /\ y[2] \in 1..Len(l[y[1]])
    BY PositionsTyped
  <2>. QED
    BY <2>1, <2>2
<1>5. O \in SUBSET (0..MaxOffset) /\ O # {}
  BY <1>3, <1>4
<1>6. PICK o \in O : \A v \in O : o >= v
  BY <1>4, <1>5, GreatestNat
<1> DEFINE P == {y[1] : y \in {z \in Top : z[2] = o}}
<1>7. MaxPartition \in Nat /\ Partitions \subseteq 0..MaxPartition
  BY StreamAssumption
<1>8. P \in SUBSET (0..MaxPartition) /\ P # {}
  BY <1>6, <1>7, PositionsTyped
<1>9. PICK p \in P : \A v \in P : p >= v
  BY <1>7, <1>8, GreatestNat
<1>10. PICK w \in Top : w[1] = p /\ w[2] = o
  BY <1>9
<1>11. \A y \in Same : Supersedes(l, w, y)
  <2>. TAKE y \in Same
  <2>1. /\ At(l, y).lsn \in Nat /\ At(l, w).lsn \in Nat
        /\ w[1] \in Nat /\ w[2] \in Nat /\ y[1] \in Nat /\ y[2] \in Nat
    BY <1>1, PositionsTyped
  <2>2. At(l, w).lsn >= At(l, y).lsn
    BY <1>3
  <2>3. At(l, w).lsn = At(l, y).lsn => w[2] >= y[2]
    BY <1>6, <1>10
  <2>4. At(l, w).lsn = At(l, y).lsn /\ w[2] = y[2] => w[1] >= y[1]
    BY <1>9, <1>10
  <2>. QED
    BY <2>1, <2>2, <2>3, <2>4 DEF Supersedes
<1>12. w \in Coalesce(l, S)
  BY <1>11 DEF Coalesce
<1>13. At(l, w).lsn >= At(l, x).lsn
  BY <1>3
<1>. QED
  BY <1>12, <1>13

\* At most one record per row survives: a multi-row statement never touches a row
\* twice.
LEMMA CoalesceUnique ==
  ASSUME NEW l \in Logs, NEW S \in SUBSET Positions(l),
         NEW x \in Coalesce(l, S), NEW y \in Coalesce(l, S), At(l, x).key = At(l, y).key
  PROVE  x = y
<1>1. x \in S /\ y \in S /\ Supersedes(l, x, y) /\ Supersedes(l, y, x)
  BY DEF Coalesce
<1>2. /\ x = <<x[1], x[2]>> /\ y = <<y[1], y[2]>>
      /\ x[1] \in Nat /\ x[2] \in Nat /\ y[1] \in Nat /\ y[2] \in Nat
      /\ At(l, x).lsn \in Nat /\ At(l, y).lsn \in Nat
  BY <1>1, PositionsTyped, StreamAssumption DEF Message
<1>. QED
  BY <1>1, <1>2 DEF Supersedes

-----------------------------------------------------------------------------
(***************************************************************************)
(* Writing a batch.                                                        *)
(***************************************************************************)

\* The contents the target table may have.
Tables == [Keys -> Row(Vals) \cup {NoRow}]

\* One fenced write.
LEMMA WriteRowEffect ==
  ASSUME NEW row \in Row(Vals) \cup {NoRow}, NEW m \in Message
  PROVE  LET new == WriteRow(row, m) IN
         /\ new \in Row(Vals) /\ new # NoRow
         /\ new.lsn >= m.lsn
         /\ row # NoRow => new.lsn >= row.lsn
<1>1. m.lsn \in Nat /\ m.val \in Vals /\ NullImage \in Vals /\ NoRow \notin Row(Vals)
  BY StreamAssumption DEF Message
<1>2. \/ WriteRow(row, m) = FencedUpsert(row, m.lsn, m.val)
      \/ WriteRow(row, m) = FencedDelete(row, m.lsn)
  BY DEF WriteRow
<1>3. WriteRow(row, m) \in Row(Vals)
  BY <1>1, <1>2, WritesTyped
<1>4. WriteRow(row, m).lsn >= m.lsn /\ (row # NoRow => WriteRow(row, m).lsn >= row.lsn)
  BY <1>1, <1>2, WritesAdvance
<1>. QED
  BY <1>1, <1>3, <1>4

\* A batch writes each row at most once, with a record of the batch.
LEMMA WriteEffect ==
  ASSUME NEW l \in Logs, NEW rws \in Tables, NEW S \in SUBSET Positions(l), NEW k \in Keys
  PROVE  \/ /\ Write(l, rws, S)[k] = rws[k]
            /\ \A x \in S : At(l, x).key # k
         \/ \E w \in S : /\ At(l, w).key = k
                         /\ Write(l, rws, S)[k] = WriteRow(rws[k], At(l, w))
                         /\ \A x \in S : At(l, x).key = k => At(l, w).lsn >= At(l, x).lsn
<1> DEFINE winners == {x \in Coalesce(l, S) : At(l, x).key = k}
<1>1. Write(l, rws, S)[k] = IF winners = {} THEN rws[k]
                            ELSE WriteRow(rws[k], At(l, CHOOSE x \in winners : TRUE))
  BY DEF Write
<1>2. winners \subseteq S
  BY DEF Coalesce
<1>3. CASE winners = {}
  <2>1. \A x \in S : At(l, x).key # k
    BY <1>3, CoalesceCovers
  <2>. QED
    BY <1>1, <1>3, <2>1
<1>4. CASE winners # {}
  <2>1. PICK w \in winners : w = CHOOSE x \in winners : TRUE
    BY <1>4
  <2>2. \A x \in S : At(l, x).key = k => At(l, w).lsn >= At(l, x).lsn
    <3>. SUFFICES ASSUME NEW x \in S, At(l, x).key = k
                  PROVE  At(l, w).lsn >= At(l, x).lsn
      OBVIOUS
    <3>1. PICK v \in Coalesce(l, S) : At(l, v).key = k /\ At(l, v).lsn >= At(l, x).lsn
      BY CoalesceCovers
    <3>2. v = w
      BY <2>1, <3>1, CoalesceUnique
    <3>. QED
      BY <3>1, <3>2
  <2>. QED
    BY <1>1, <1>2, <1>4, <2>1, <2>2
<1>. QED
  BY <1>3, <1>4

\* After the batch every row is typed, none is older than it was, and every record
\* of the batch is covered.
LEMMA WriteCovers ==
  ASSUME NEW l \in Logs, NEW rws \in Tables, NEW S \in SUBSET Positions(l)
  PROVE  LET new == Write(l, rws, S) IN
         /\ new \in Tables
         /\ \A k \in Keys : rws[k] # NoRow => new[k] # NoRow /\ new[k].lsn >= rws[k].lsn
         /\ \A x \in S : Covered(l, new, x)
<1> DEFINE new == Write(l, rws, S)
<1>1. \A k \in Keys : /\ new[k] \in Row(Vals) \cup {NoRow}
                      /\ rws[k] # NoRow => new[k] # NoRow /\ new[k].lsn >= rws[k].lsn
  <2>. SUFFICES ASSUME NEW k \in Keys
                PROVE  /\ new[k] \in Row(Vals) \cup {NoRow}
                       /\ rws[k] # NoRow => new[k] # NoRow /\ new[k].lsn >= rws[k].lsn
    OBVIOUS
  <2>1. rws[k] \in Row(Vals) \cup {NoRow} /\ (rws[k] # NoRow => rws[k].lsn \in Nat)
    BY DEF Tables, Row
  <2>2. CASE new[k] = rws[k]
    BY <2>1, <2>2
  <2>3. CASE \E w \in S : new[k] = WriteRow(rws[k], At(l, w))
    <3>1. PICK w \in S : new[k] = WriteRow(rws[k], At(l, w))
      BY <2>3
    <3>2. At(l, w) \in Message
      BY PositionsTyped
    <3>. HIDE DEF new
    <3>. QED
      BY <2>1, <3>1, <3>2, WriteRowEffect
  <2>. HIDE DEF new
  <2>4. new[k] = rws[k] \/ \E w \in S : new[k] = WriteRow(rws[k], At(l, w))
    BY WriteEffect DEF new
  <2>. QED
    BY <2>2, <2>3, <2>4
<1>2. \A x \in S : Covered(l, new, x)
  <2>. SUFFICES ASSUME NEW x \in S
                PROVE  new[At(l, x).key] # NoRow /\ new[At(l, x).key].lsn >= At(l, x).lsn
    BY DEF Covered
  <2>1. At(l, x) \in Message /\ At(l, x).key \in Keys /\ At(l, x).lsn \in Nat
    BY PositionsTyped, StreamAssumption DEF Message
  <2>2. PICK w \in S : /\ new[At(l, x).key] = WriteRow(rws[At(l, x).key], At(l, w))
                       /\ At(l, w).lsn >= At(l, x).lsn
    BY <2>1, WriteEffect
  <2>3. At(l, w) \in Message /\ At(l, w).lsn \in Nat
    BY PositionsTyped, StreamAssumption DEF Message
  <2>4. rws[At(l, x).key] \in Row(Vals) \cup {NoRow}
    BY <2>1 DEF Tables
  <2>. HIDE DEF new
  <2>5. /\ new[At(l, x).key] \in Row(Vals) /\ new[At(l, x).key] # NoRow
        /\ new[At(l, x).key].lsn >= At(l, w).lsn
    BY <2>2, <2>3, <2>4, WriteRowEffect
  <2>6. new[At(l, x).key].lsn \in Nat
    BY <2>5 DEF Row
  <2>. QED
    BY <2>1, <2>2, <2>3, <2>5, <2>6
<1>3. new \in Tables
  BY <1>1 DEF Tables, Write
<1>. QED
  BY <1>1, <1>2, <1>3

-----------------------------------------------------------------------------
(***************************************************************************)
(* Offsets.                                                                *)
(***************************************************************************)

\* Recording the marks of a batch takes no offset back, and an offset it moves is
\* that of a record of the batch.
LEMMA OffsetsAdvance ==
  ASSUME NEW l \in Logs, NEW S \in SUBSET Positions(l), NEW off \in [Partitions -> Nat]
  PROVE  LET new == UpsertOffset(off, HighWaterMarks(S)) IN
         /\ new \in [Partitions -> Nat]
         /\ \A p \in Partitions : new[p] >= off[p]
         /\ \A p \in Partitions : new[p] = off[p] \/ <<p, new[p]>> \in S
<1> DEFINE marks == HighWaterMarks(S)
           new == UpsertOffset(off, marks)
<1>1. \A p \in DOMAIN marks : p \in Partitions /\ marks[p] \in Nat /\ <<p, marks[p]>> \in S
  <2>. SUFFICES ASSUME NEW p \in {x[1] : x \in S}
                PROVE  p \in Partitions /\ marks[p] \in Nat /\ <<p, marks[p]>> \in S
    BY DEF HighWaterMarks
  <2> DEFINE T == {x[2] : x \in {y \in S : y[1] = p}}
  <2>1. p \in Partitions /\ Len(l[p]) \in Nat /\ T \in SUBSET (0..Len(l[p])) /\ T # {}
    BY PositionsTyped
  <2>2. Max(T) \in T
    BY <2>1, GreatestNat
  <2>3. marks[p] = Max(T)
    BY DEF HighWaterMarks
  <2>4. PICK y \in S : y[1] = p /\ y[2] = Max(T)
    BY <2>2
  <2>. QED
    BY <2>1, <2>3, <2>4, PositionsTyped
<1>. HIDE DEF marks
<1>2. \A p \in Partitions :
        new[p] = IF p \in DOMAIN marks THEN IF off[p] <= marks[p] THEN marks[p] ELSE off[p]
                                       ELSE off[p]
  BY DEF UpsertOffset
<1>3. new \in [Partitions -> Nat]
  BY <1>1 DEF UpsertOffset
<1>. HIDE DEF new
<1>. QED
  BY <1>1, <1>2, <1>3 DEF new, marks

-----------------------------------------------------------------------------
(***************************************************************************)
(* What the rows show.                                                     *)
(***************************************************************************)

\* A fenced write leaves the row alone or makes it the effect of the change.
LEMMA WriteRowShows ==
  ASSUME NEW row \in Row(Vals) \cup {NoRow}, NEW m \in Message, m.kind \in {"upsert", "delete"}
  PROVE  LET new == WriteRow(row, m) IN
         new = row \/ (Shows(new, m) /\ new.lsn = m.lsn)
<1>1. WriteRow(row, m) \in Row(Vals) /\ WriteRow(row, m) # NoRow
  BY WriteRowEffect
<1>2. CASE row # NoRow /\ ~(row.lsn <= m.lsn)
  BY <1>2 DEF WriteRow, FencedUpsert, FencedDelete, Fenced
<1>3. CASE row = NoRow \/ row.lsn <= m.lsn
  <2>1. CASE m.kind = "upsert"
    <3>1. WriteRow(row, m) = [lsn |-> m.lsn, deleted |-> FALSE, val |-> m.val]
      BY <1>3, <2>1 DEF WriteRow, FencedUpsert, Fenced
    <3>2. LET new == WriteRow(row, m) IN
          new.lsn = m.lsn /\ new.deleted = FALSE /\ new.val = m.val
      BY <3>1
    <3>3. (m.kind = "delete") = FALSE
      BY <2>1
    <3>. QED
      BY <1>1, <3>2, <3>3 DEF Shows
  <2>2. CASE m.kind = "delete"
    <3>1. WriteRow(row, m).lsn = m.lsn /\ WriteRow(row, m).deleted = TRUE
      BY <1>3, <2>2 DEF WriteRow, FencedDelete, Fenced, Row
    <3>. QED
      BY <1>1, <2>2, <3>1 DEF Shows
  <2>. QED
    BY <2>1, <2>2
<1>. QED
  BY <1>2, <1>3

\* Writing row changes keeps every row the effect of a change of its own.
LEMMA WriteFromStream ==
  ASSUME NEW l \in Logs, NEW rws \in Tables, RowsFromStream(l, rws),
         NEW S \in SUBSET Positions(l), \A x \in S : IsRow(l, x)
  PROVE  RowsFromStream(l, Write(l, rws, S))
<1> DEFINE new == Write(l, rws, S)
<1>. HIDE DEF new
<1>. SUFFICES ASSUME NEW k \in Keys, new[k] # NoRow
              PROVE  \E x \in ChangesTo(l, k) :
                       Shows(new[k], At(l, x)) /\ new[k].lsn = At(l, x).lsn
  BY DEF RowsFromStream, new
<1>1. rws[k] \in Row(Vals) \cup {NoRow}
  BY DEF Tables
<1>2. CASE new[k] = rws[k]
  BY <1>2 DEF RowsFromStream
<1>3. CASE \E w \in S : At(l, w).key = k /\ new[k] = WriteRow(rws[k], At(l, w))
  <2>1. PICK w \in S : At(l, w).key = k /\ new[k] = WriteRow(rws[k], At(l, w))
    BY <1>3
  <2>2. At(l, w) \in Message /\ At(l, w).kind \in {"upsert", "delete"} /\ w \in ChangesTo(l, k)
    BY <2>1, PositionsTyped DEF IsRow, ChangesTo
  <2>3. new[k] = rws[k] \/ (Shows(new[k], At(l, w)) /\ new[k].lsn = At(l, w).lsn)
    BY <1>1, <2>1, <2>2, WriteRowShows
  <2>. QED
    BY <1>2, <2>2, <2>3
<1>4. new[k] = rws[k] \/ \E w \in S : At(l, w).key = k /\ new[k] = WriteRow(rws[k], At(l, w))
  BY WriteEffect DEF new
<1>. QED
  BY <1>2, <1>3, <1>4

\* A row that was changed has a last change.
LEMMA LastChangeIs ==
  ASSUME NEW l \in Logs, NEW k \in Keys, ChangesTo(l, k) # {}
  PROVE  /\ LastChange(l, k) \in ChangesTo(l, k)
         /\ \A y \in ChangesTo(l, k) : Supersedes(l, LastChange(l, k), y)
<1> DEFINE C == ChangesTo(l, k)
<1>1. C \in SUBSET Positions(l) /\ \A y \in C : At(l, y).key = k
  BY DEF ChangesTo
<1>2. PICK x \in C : TRUE
  OBVIOUS
<1>3. PICK w \in Coalesce(l, C) : At(l, w).key = At(l, x).key
  BY <1>1, <1>2, CoalesceCovers
<1>4. w \in C /\ \A y \in C : Supersedes(l, w, y)
  BY <1>1, <1>3 DEF Coalesce
<1>. QED
  BY <1>4 DEF LastChange

\* When every row is the effect of one of its changes and every change of k is on
\* the target or superseded there, the row shows the last of them.
LEMMA CoveredShowsLast ==
  ASSUME LSNsIdentifyChanges, NEW l \in Logs, NEW rws \in Tables, RowsFromStream(l, rws),
         NEW k \in Keys, ChangesTo(l, k) # {},
         \A x \in ChangesTo(l, k) : Covered(l, rws, x)
  PROVE  Shows(rws[k], At(l, LastChange(l, k)))
<1>1. PICK last \in ChangesTo(l, k) :
        last = LastChange(l, k) /\ \A y \in ChangesTo(l, k) : Supersedes(l, last, y)
  BY LastChangeIs
<1>2. rws[k] # NoRow /\ rws[k].lsn >= At(l, last).lsn
  BY <1>1 DEF Covered, ChangesTo
<1>3. PICK x \in ChangesTo(l, k) : Shows(rws[k], At(l, x)) /\ rws[k].lsn = At(l, x).lsn
  BY <1>2 DEF RowsFromStream
<1>4. At(l, x).lsn \in Nat /\ At(l, last).lsn \in Nat
  <2>1. x \in Positions(l) /\ last \in Positions(l)
    BY DEF ChangesTo
  <2>2. At(l, x) \in Message /\ At(l, last) \in Message
    BY <2>1, PositionsTyped
  <2>. QED
    BY <2>2, StreamAssumption DEF Message
<1>5. At(l, x).lsn = At(l, last).lsn
  BY <1>1, <1>2, <1>3, <1>4 DEF Supersedes
<1>6. At(l, x).kind = At(l, last).kind /\ (At(l, x).kind = "delete" \/ At(l, x).val = At(l, last).val)
  BY <1>5 DEF LSNsIdentifyChanges
<1>. QED
  BY <1>1, <1>3, <1>6 DEF Shows
=============================================================================
