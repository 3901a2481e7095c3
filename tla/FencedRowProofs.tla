-------------------------- MODULE FencedRowProofs ---------------------------
(***************************************************************************)
(* Proofs about one row under the LSN fence, for every set of columns and  *)
(* values, every history of the source row and every set of extracts.      *)
(***************************************************************************)
EXTENDS FencedRow, FenceProofs

-----------------------------------------------------------------------------
(***************************************************************************)
(* The two engines.                                                        *)
(***************************************************************************)

\* The MySQL statements compute what the Postgres ones compute: after the LSN has
\* been assigned the fence compares the new LSN with itself and still holds.
LEMMA EnginesEquivalent ==
  ASSUME NEW row \in Row(Images) \cup {NoRow}, NEW lsn \in Nat, NEW val \in Images
  PROVE  /\ MySQLFencedUpsert(row, lsn, val) = FencedUpsert(row, lsn, val)
         /\ MySQLFencedDelete(row, lsn) = FencedDelete(row, lsn)
         /\ MySQLMergeStaging(row, lsn, val) = MergeStaging(row, lsn, val)
<1>1. CASE row = NoRow
  BY <1>1 DEF MySQLFencedUpsert, MySQLFencedDelete, MySQLMergeStaging,
              FencedUpsert, FencedDelete, MergeStaging
<1>2. CASE row # NoRow
  <2>. row \in [lsn : Nat, deleted : BOOLEAN, val : [Columns -> Values]]
    BY <1>2 DEF Row, Images
  <2>. val \in [Columns -> Values]
    BY DEF Images
  <2>1. CASE row.lsn <= lsn
    <3>1. SetColumns(row, lsn, val) = [row EXCEPT !.val = val]
      BY <2>1 DEF SetColumns, Fenced
    <3> DEFINE c == [row EXCEPT !.val = val]
               l == [c EXCEPT !.lsn = lsn]
               d == [row EXCEPT !.deleted = TRUE]
    <3>0. c.lsn = row.lsn /\ l.lsn = lsn /\ d.lsn = row.lsn /\ lsn <= lsn
      OBVIOUS
    <3>. HIDE DEF c, l, d
    <3>2. SetLSN(c, lsn) = [c EXCEPT !.lsn = lsn] /\ SetLSN(d, lsn) = [d EXCEPT !.lsn = lsn]
      BY <2>1, <3>0 DEF SetLSN, Fenced
    <3>3. /\ SetDeleted(l, lsn, FALSE) = [l EXCEPT !.deleted = FALSE]
          /\ SetDeleted(row, lsn, TRUE) = [row EXCEPT !.deleted = TRUE]
      BY <2>1, <3>0 DEF SetDeleted, Fenced
    <3>. USE DEF c, l, d
    <3>4. MySQLFencedUpsert(row, lsn, val) = [l EXCEPT !.deleted = FALSE]
      BY <1>2, <3>1, <3>2, <3>3 DEF MySQLFencedUpsert
    <3>5. MySQLFencedUpsert(row, lsn, val) = FencedUpsert(row, lsn, val)
      BY <2>1, <3>4 DEF FencedUpsert, Fenced
    <3>6. MySQLFencedDelete(row, lsn) = [d EXCEPT !.lsn = lsn]
      BY <1>2, <3>2, <3>3 DEF MySQLFencedDelete
    <3>7. MySQLFencedDelete(row, lsn) = FencedDelete(row, lsn)
      BY <1>2, <2>1, <3>6 DEF FencedDelete, Fenced
    <3>8. MySQLMergeStaging(row, lsn, val) = l
      BY <1>2, <3>1, <3>2 DEF MySQLMergeStaging
    <3>9. MySQLMergeStaging(row, lsn, val) = MergeStaging(row, lsn, val)
      BY <1>2, <2>1, <3>8 DEF MergeStaging, Fenced
    <3>. QED
      BY <3>5, <3>7, <3>9
  <2>2. CASE ~(row.lsn <= lsn)
    <3>1. SetColumns(row, lsn, val) = row
      BY <2>2 DEF SetColumns, Fenced
    <3>2. SetLSN(row, lsn) = row
      BY <2>2 DEF SetLSN, Fenced
    <3>3. \A flag : SetDeleted(row, lsn, flag) = row
      BY <2>2 DEF SetDeleted, Fenced
    <3>. QED
      BY <1>2, <2>2, <3>1, <3>2, <3>3
      DEF MySQLFencedUpsert, MySQLFencedDelete, MySQLMergeStaging,
          FencedUpsert, FencedDelete, MergeStaging, Fenced
  <2>. QED
    BY <2>1, <2>2
<1>. QED
  BY <1>1, <1>2

\* A change of the history and an extract LSN are what their assumptions say.
LEMMA InputsTyped ==
  ASSUME TypeOK
  PROVE  /\ \A i \in DOMAIN history : history[i].lsn \in Nat /\ history[i].val \in Images
         /\ \A x \in extracts : x \in Nat
<1>1. history \in Seq(Change) /\ extracts \subseteq Nat
  BY HistoryAssumption, ExtractAssumption DEF TypeOK
<1>2. \A i \in DOMAIN history : history[i] \in Change
  BY <1>1
<1>. QED
  BY <1>1, <1>2 DEF Change

-----------------------------------------------------------------------------
(***************************************************************************)
(* Invariants.                                                             *)
(***************************************************************************)

\* What a step writes: the same fenced write on both engines.
LEMMA StepWrites ==
  ASSUME TypeOK, EnginesAgree, Next
  PROVE  \E lsn \in Nat, val \in Images :
           /\ \/ pg' = FencedUpsert(pg, lsn, val)
              \/ pg' = FencedDelete(pg, lsn)
              \/ pg' = MergeStaging(pg, lsn, val)
           /\ my' = pg'
<1>1. CASE \E i \in DOMAIN history : Deliver(i)
  <2>1. PICK i \in DOMAIN history : Deliver(i)
    BY <1>1
  <2>2. history[i].lsn \in Nat /\ history[i].val \in Images /\ pg \in Row(Images) \cup {NoRow}
    BY InputsTyped DEF TypeOK
  <2>. QED
    BY <2>1, <2>2, EnginesEquivalent DEF Deliver, EnginesAgree
<1>2. CASE \E x \in extracts, i \in DOMAIN history : MergePart(x, i)
  <2>1. PICK x \in extracts, i \in DOMAIN history : MergePart(x, i)
    BY <1>2
  <2>2. x \in Nat /\ history[i].val \in Images /\ pg \in Row(Images) \cup {NoRow}
    BY InputsTyped DEF TypeOK
  <2>. QED
    BY <2>1, <2>2, EnginesEquivalent DEF MergePart, EnginesAgree
<1>. QED
  BY <1>1, <1>2 DEF Next

\* Both engines hold the same well-formed row in every reachable state: the MySQL
\* rendering of the fence (dialect/mysql.go) is equivalent to the Postgres one.
THEOREM EnginesAlwaysAgree == Spec => [](TypeOK /\ EnginesAgree)
<1>1. Init => TypeOK /\ EnginesAgree
  BY DEF Init, TypeOK, EnginesAgree
<1>2. TypeOK /\ EnginesAgree /\ [Next]_vars => TypeOK' /\ EnginesAgree'
  <2>. SUFFICES ASSUME TypeOK, EnginesAgree, [Next]_vars
                PROVE  TypeOK' /\ EnginesAgree'
    OBVIOUS
  <2>1. CASE Next
    <3>1. PICK lsn \in Nat, val \in Images :
             /\ \/ pg' = FencedUpsert(pg, lsn, val)
                \/ pg' = FencedDelete(pg, lsn)
                \/ pg' = MergeStaging(pg, lsn, val)
             /\ my' = pg'
      BY <2>1, StepWrites
    <3>2. pg' \in Row(Images)
      BY <3>1, WritesTyped, ImagesAssumption DEF TypeOK
    <3>3. UNCHANGED <<history, extracts>> /\ arrived' \subseteq DOMAIN history
      BY <2>1 DEF Next, Deliver, MergePart, TypeOK
    <3>. QED
      BY <3>1, <3>2, <3>3 DEF TypeOK, EnginesAgree
  <2>2. CASE UNCHANGED vars
    BY <2>2 DEF vars, TypeOK, EnginesAgree
  <2>. QED
    BY <2>1, <2>2
<1>. QED
  BY <1>1, <1>2, PTL DEF Spec

\* Every write of either engine leaves a complete row: no statement stores a row
\* without its columns, its LSN or its tombstone flag (dialect/postgres.go:48-129).
THEOREM TypeCorrect == Spec => []TypeOK
BY EnginesAlwaysAgree, PTL

\* Whatever arrives in whatever order, the LSN of the row never decreases and the
\* row never disappears.
THEOREM RowMonotone == Spec => RowNeverRegresses
<1>1. TypeOK /\ EnginesAgree /\ [Next]_vars
        => [pg # NoRow => pg' # NoRow /\ pg'.lsn >= pg.lsn]_pg
  <2>. SUFFICES ASSUME TypeOK, EnginesAgree, [Next]_vars, pg' # pg, pg # NoRow
                PROVE  pg' # NoRow /\ pg'.lsn >= pg.lsn
    BY Zenon
  <2>1. Next
    BY DEF vars
  <2>2. PICK lsn \in Nat, val \in Images :
           \/ pg' = FencedUpsert(pg, lsn, val)
           \/ pg' = FencedDelete(pg, lsn)
           \/ pg' = MergeStaging(pg, lsn, val)
    BY <2>1, StepWrites
  <2>3. pg \in Row(Images) /\ pg' \in Row(Images)
    BY <2>2, WritesTyped, ImagesAssumption DEF TypeOK
  <2>4. pg' # NoRow
    BY <2>3, ImagesAssumption
  <2>5. pg'.lsn >= pg.lsn
    BY <2>2, <2>3, WritesAdvance, ImagesAssumption
  <2>. QED
    BY <2>4, <2>5
<1>. QED
  BY <1>1, EnginesAlwaysAgree, PTL DEF Spec, RowNeverRegresses

-----------------------------------------------------------------------------
(***************************************************************************)
(* Convergence of the change stream on its own.                            *)
(***************************************************************************)

\* The row shows the newest of the changes that have arrived.
ShowsNewest ==
  IF arrived = {} THEN pg = NoRow
  ELSE \E i \in arrived :
         /\ Shows(pg, i)
         /\ pg.lsn = history[i].lsn
         /\ \A j \in arrived : history[j].lsn <= history[i].lsn

\* Changes are told apart by their LSNs.
LEMMA LSNsIdentify ==
  ASSUME TypeOK, NEW i \in DOMAIN history, NEW j \in DOMAIN history
  PROVE  /\ history[i].lsn = history[j].lsn => i = j
         /\ j = Len(history) /\ history[j].lsn <= history[i].lsn => i = j
<1>1. /\ history \in Seq(Change)
      /\ \A m, n \in DOMAIN history : m < n => history[m].lsn < history[n].lsn
  BY HistoryAssumption DEF TypeOK
<1>2. i \in Nat /\ j \in Nat /\ i <= Len(history) /\ Len(history) \in Nat
  BY <1>1
<1>3. history[i].lsn \in Nat /\ history[j].lsn \in Nat
  BY InputsTyped
<1>. QED
  BY <1>1, <1>2, <1>3

\* Change i, applied to a row that shows change n or to no row.
LEMMA DeliverShows ==
  ASSUME TypeOK, NEW i \in DOMAIN history, Deliver(i),
         pg = NoRow \/ \E n \in DOMAIN history : Shows(pg, n) /\ pg.lsn = history[n].lsn
  PROVE  IF pg = NoRow \/ pg.lsn <= history[i].lsn
           THEN Shows(pg, i)' /\ pg'.lsn = history[i].lsn
           ELSE pg' = pg
<1> DEFINE c == history[i]
<1>1. c \in Change
  <2>1. history \in Seq(Change)
    BY HistoryAssumption DEF TypeOK
  <2>. QED
    BY <2>1
<1>2. pg' \in Row(Images) /\ pg' # NoRow /\ history' = history
  BY <1>1, WritesTyped, ImagesAssumption DEF Deliver, TypeOK, Change
<1>3. CASE c.op = "delete"
  BY <1>1, <1>2, <1>3 DEF Deliver, FencedDelete, Fenced, Row, Shows, TypeOK
<1>4. CASE c.op # "delete"
  BY <1>1, <1>2, <1>4 DEF Deliver, FencedUpsert, Fenced, Row, Shows, TypeOK
<1>. QED
  BY <1>3, <1>4

\* With the change stream as the only writer, every row of every source history,
\* recreated rows included, ends up showing the last change, in whatever order and
\* however often the changes arrive.
THEOREM ChangesSettle ==
  ASSUME \A h \in Histories : \A S \in ExtractSets(h) : S = {}
  PROVE  Spec => []SettlesOnSource
<1>1. Init => ShowsNewest
  BY DEF Init, ShowsNewest
<1>2. TypeOK /\ ShowsNewest /\ [Next]_vars => ShowsNewest'
  <2>. SUFFICES ASSUME TypeOK, ShowsNewest, [Next]_vars
                PROVE  ShowsNewest'
    OBVIOUS
  <2>1. CASE Next
    <3>1. PICK i \in DOMAIN history : Deliver(i)
      BY <2>1 DEF Next, TypeOK
    <3>2. history' = history /\ arrived' = arrived \cup {i}
      BY <3>1 DEF Deliver
    <3>3. \A j \in DOMAIN history : history[j].lsn \in Nat
      BY InputsTyped
    <3>4. CASE arrived = {}
      <4>1. Shows(pg, i)' /\ pg'.lsn = history[i].lsn
        BY <3>1, <3>4, DeliverShows DEF ShowsNewest
      <4>. QED
        BY <3>2, <3>3, <3>4, <4>1 DEF ShowsNewest
    <3>5. CASE arrived # {}
      <4>1. PICK n \in arrived :
               /\ Shows(pg, n)
               /\ pg.lsn = history[n].lsn
               /\ \A j \in arrived : history[j].lsn <= history[n].lsn
        BY <3>5 DEF ShowsNewest
      <4>2. n \in DOMAIN history /\ arrived \subseteq DOMAIN history /\ pg # NoRow
        BY <4>1 DEF TypeOK, Shows
      <4>3. CASE history[n].lsn <= history[i].lsn
        <5>1. Shows(pg, i)' /\ pg'.lsn = history[i].lsn
          BY <3>1, <4>1, <4>2, <4>3, DeliverShows
        <5>2. \A j \in arrived' : history[j].lsn <= history[i].lsn
          BY <3>2, <3>3, <4>1, <4>2, <4>3
        <5>. QED
          BY <3>2, <5>1, <5>2 DEF ShowsNewest
      <4>4. CASE ~(history[n].lsn <= history[i].lsn)
        <5>1. pg' = pg
          BY <3>1, <4>1, <4>2, <4>4, DeliverShows
        <5>2. \A j \in arrived' : history[j].lsn <= history[n].lsn
          BY <3>2, <3>3, <4>1, <4>2, <4>4
        <5>3. Shows(pg, n)'
          BY <3>2, <4>1, <5>1 DEF Shows
        <5>. QED
          BY <3>2, <4>1, <5>1, <5>2, <5>3 DEF ShowsNewest
      <4>. QED
        BY <4>3, <4>4
    <3>. QED
      BY <3>4, <3>5
  <2>2. CASE UNCHANGED vars
    BY <2>2 DEF vars, ShowsNewest, Shows
  <2>. QED
    BY <2>1, <2>2
<1>3. TypeOK /\ ShowsNewest => SettlesOnSource
  <2>. SUFFICES ASSUME TypeOK, ShowsNewest, history # <<>>, arrived = DOMAIN history
                PROVE  Shows(pg, Len(history))
    BY DEF SettlesOnSource
  <2>1. Len(history) \in DOMAIN history
    BY HistoryAssumption DEF TypeOK
  <2>2. PICK i \in arrived :
           Shows(pg, i) /\ \A j \in arrived : history[j].lsn <= history[i].lsn
    BY <2>1 DEF ShowsNewest
  <2>3. i = Len(history)
    BY <2>1, <2>2, LSNsIdentify
  <2>. QED
    BY <2>2, <2>3
<1>. QED
  BY <1>1, <1>2, <1>3, EnginesAlwaysAgree, PTL DEF Spec
=============================================================================
