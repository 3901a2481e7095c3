--------------------------- MODULE SnapshotProofs ---------------------------
(***************************************************************************)
(* Theorems about the snapshot under either strategy, for any table, any   *)
(* changes, any number of extracts, loads, faults, aborts and restarts.    *)
(***************************************************************************)
EXTENDS Snapshot, FenceProofs, FiniteSetTheorems

-----------------------------------------------------------------------------
(***************************************************************************)
(* What the log says of a row, as functions of the log l and of the keys s *)
(* that had a row before it begins.                                        *)
(***************************************************************************)

LogEntry == [kind : {"upsert", "delete", "low", "high"}, of : Nat]

SnapRow == [key : Keys, ver : Nat]

Img == Nat \cup {NullImage}

ChangeTo(l, k, i) == IsChange(l[i]) /\ l[i].of = k

Changed(l, k) == \E i \in 1 .. Len(l) : ChangeTo(l, k, i)

Ver(l, k, n) == Max({0} \cup {i \in 1 .. n : ChangeTo(l, k, i)})

LiveIn(l, s, k, n) == IF Ver(l, k, n) = 0 THEN k \in s ELSE l[Ver(l, k, n)].kind = "upsert"

\* The row is one that a SELECT has returned at some time.
ReadOnce(l, s, r) ==
  \/ r.ver = 0 /\ r.key \in s
  \/ r.ver \in 1 .. Len(l) /\ l[r.ver] = Entry("upsert", r.key)

\* A row read after lsn from a table that does not see a row created again.
ReadAfter(l, s, r, lsn) ==
  /\ ReadOnce(l, s, r)
  /\ r.ver >= Ver(l, r.key, lsn)
  /\ \A i \in 1 .. lsn : l[i] # Entry("delete", r.key)

\* k was there from the time of lsn until the end of the log.
Lasting(l, s, k, lsn) == \A n \in lsn .. Len(l) : LiveIn(l, s, k, n)

\* Every row that a part's digest stands for was read after the extract began.
PartOK(l, s, p) ==
  /\ p.lsn <= Len(l)
  /\ p.sum # NoFile => \A j \in DOMAIN p.sum : ReadAfter(l, s, p.sum[j], p.lsn)

\* What a row of the target stands for.
RowOK(l, s, k, t) ==
  t # NoRow =>
    /\ t.lsn \in 0 .. Len(l)
    /\ t.deleted => \E i \in 1 .. t.lsn : l[i] = Entry("delete", k)
    /\ ~t.deleted => ReadOnce(l, s, [key |-> k, ver |-> t.val])

Fresh(l, s, k, t) ==
  t # NoRow => IF t.deleted THEN ~LiveIn(l, s, k, t.lsn) ELSE t.val >= Ver(l, k, t.lsn)

\* The log l and a longer one.
Extends(l, m) ==
  /\ l \in Seq(LogEntry) /\ m \in Seq(LogEntry)
  /\ Len(l) <= Len(m)
  /\ \A i \in 1 .. Len(l) : m[i] = l[i]

-----------------------------------------------------------------------------

\* The version of a row is its last change.
LEMMA VersionIs ==
  ASSUME NEW l, NEW k, NEW n \in Nat
  PROVE  /\ Ver(l, k, n) \in 0 .. n
         /\ Ver(l, k, n) # 0 => ChangeTo(l, k, Ver(l, k, n))
         /\ \A i \in 1 .. n : ChangeTo(l, k, i) => i <= Ver(l, k, n)
<1> DEFINE T == {0} \cup {i \in 1 .. n : ChangeTo(l, k, i)}
<1>1. T \in SUBSET (0 .. n) /\ T # {}
  OBVIOUS
<1>. HIDE DEF T
<1>2. Max(T) \in T /\ \A y \in T : Max(T) >= y
  BY <1>1, GreatestNat
<1>3. Ver(l, k, n) = Max(T)
  BY DEF T, Ver
<1>. QED
  BY <1>1, <1>2, <1>3 DEF T

\* Only the last change is a version no later change exceeds.
LEMMA VersionUnique ==
  ASSUME NEW l, NEW k, NEW n \in Nat, NEW v \in 0 .. n,
         v # 0 => ChangeTo(l, k, v),
         \A i \in 1 .. n : ChangeTo(l, k, i) => i <= v
  PROVE  Ver(l, k, n) = v
<1>1. /\ Ver(l, k, n) \in 0 .. n
      /\ Ver(l, k, n) # 0 => ChangeTo(l, k, Ver(l, k, n))
      /\ \A i \in 1 .. n : ChangeTo(l, k, i) => i <= Ver(l, k, n)
  BY VersionIs
<1>. QED
  BY <1>1

\* A version does not go back as the log is followed.
LEMMA VersionMonotone ==
  ASSUME NEW l, NEW k, NEW n \in Nat, NEW m \in Nat, n <= m
  PROVE  Ver(l, k, n) <= Ver(l, k, m)
<1>1. /\ Ver(l, k, n) \in 0 .. n
      /\ Ver(l, k, n) # 0 => ChangeTo(l, k, Ver(l, k, n))
  BY VersionIs
<1>2. /\ Ver(l, k, m) \in 0 .. m
      /\ \A i \in 1 .. m : ChangeTo(l, k, i) => i <= Ver(l, k, m)
  BY VersionIs
<1>. QED
  BY <1>1, <1>2

\* An entry that does not change k leaves its version alone.
LEMMA VersionKept ==
  ASSUME NEW l, NEW k, NEW n \in Nat, ~ChangeTo(l, k, n + 1)
  PROVE  Ver(l, k, n + 1) = Ver(l, k, n)
<1>1. /\ Ver(l, k, n) \in 0 .. n
      /\ Ver(l, k, n) # 0 => ChangeTo(l, k, Ver(l, k, n))
      /\ \A i \in 1 .. n : ChangeTo(l, k, i) => i <= Ver(l, k, n)
  BY VersionIs
<1>2. \A i \in 1 .. n + 1 : ChangeTo(l, k, i) => i <= Ver(l, k, n)
  BY <1>1
<1>. QED
  BY <1>1, <1>2, VersionUnique

\* A change is the version of its row at its own LSN.
LEMMA VersionAtChange ==
  ASSUME NEW l, NEW k, NEW n \in Nat, n > 0, ChangeTo(l, k, n)
  PROVE  Ver(l, k, n) = n
BY VersionUnique

\* Entries to come do not change what the log says of the past.
LEMMA ExtendedKeeps ==
  ASSUME NEW l, NEW m, NEW s, Extends(l, m)
  PROVE  /\ \A k : \A n \in 0 .. Len(l) : Ver(m, k, n) = Ver(l, k, n)
         /\ \A k : \A n \in 0 .. Len(l) : LiveIn(m, s, k, n) <=> LiveIn(l, s, k, n)
         /\ \A k : Changed(l, k) => Changed(m, k)
         /\ \A r : ReadOnce(l, s, r) => ReadOnce(m, s, r)
         /\ \A k : \A lsn \in Nat : Lasting(m, s, k, lsn) => Lasting(l, s, k, lsn)
<1>1. Len(l) \in Nat /\ Len(m) \in Nat /\ Len(l) <= Len(m)
  BY DEF Extends
<1>2. \A k : \A i \in 1 .. Len(l) : ChangeTo(m, k, i) = ChangeTo(l, k, i)
  BY DEF ChangeTo, Extends
<1>3. ASSUME NEW k, NEW n \in 0 .. Len(l)
      PROVE  /\ Ver(m, k, n) = Ver(l, k, n)
             /\ LiveIn(m, s, k, n) <=> LiveIn(l, s, k, n)
  <2>1. {i \in 1 .. n : ChangeTo(m, k, i)} = {i \in 1 .. n : ChangeTo(l, k, i)}
    BY <1>1, <1>2
  <2>2. Ver(m, k, n) = Ver(l, k, n)
    BY <2>1 DEF Ver
  <2>3. Ver(l, k, n) \in 0 .. n
    BY <1>1, VersionIs
  <2>4. Ver(l, k, n) # 0 => m[Ver(l, k, n)] = l[Ver(l, k, n)]
    BY <1>1, <2>3 DEF Extends
  <2>. QED
    BY <2>2, <2>4 DEF LiveIn
<1>4. \A k : Changed(l, k) => Changed(m, k)
  BY <1>1, <1>2 DEF Changed
<1>5. \A r : ReadOnce(l, s, r) => ReadOnce(m, s, r)
  BY <1>1 DEF ReadOnce, Extends
<1>6. ASSUME NEW k, NEW lsn \in Nat, Lasting(m, s, k, lsn)
      PROVE  Lasting(l, s, k, lsn)
  <2>1. \A n \in lsn .. Len(l) : n \in lsn .. Len(m) /\ n \in 0 .. Len(l)
    BY <1>1
  <2>. QED
    BY <1>3, <1>6, <2>1 DEF Lasting
<1>. QED
  BY <1>3, <1>4, <1>5, <1>6

\* Nor what is known of parts and of rows of the target.
LEMMA ExtendedKeepsRows ==
  ASSUME NEW l, NEW m, NEW s, Extends(l, m)
  PROVE  /\ \A r : \A lsn \in 0 .. Len(l) : ReadAfter(l, s, r, lsn) => ReadAfter(m, s, r, lsn)
         /\ \A p : p.lsn \in Nat /\ PartOK(l, s, p) => PartOK(m, s, p)
         /\ \A k, t : RowOK(l, s, k, t) => RowOK(m, s, k, t)
         /\ \A k, t : RowOK(l, s, k, t) /\ Fresh(l, s, k, t) => Fresh(m, s, k, t)
<1>1. Len(l) \in Nat /\ Len(m) \in Nat /\ Len(l) <= Len(m)
  BY DEF Extends
<1>2. \A i \in 1 .. Len(l) : m[i] = l[i]
  BY DEF Extends
<1>3. ASSUME NEW r, NEW lsn \in 0 .. Len(l), ReadAfter(l, s, r, lsn)
      PROVE  ReadAfter(m, s, r, lsn)
  <2>1. Ver(m, r.key, lsn) = Ver(l, r.key, lsn)
    BY ExtendedKeeps
  <2>2. ReadOnce(m, s, r)
    BY <1>3, ExtendedKeeps DEF ReadAfter
  <2>3. \A i \in 1 .. lsn : m[i] # Entry("delete", r.key)
    BY <1>1, <1>2, <1>3 DEF ReadAfter
  <2>. QED
    BY <1>3, <2>1, <2>2, <2>3 DEF ReadAfter
<1>4. ASSUME NEW p, p.lsn \in Nat, PartOK(l, s, p)
      PROVE  PartOK(m, s, p)
  <2>1. p.lsn \in 0 .. Len(l)
    BY <1>1, <1>4 DEF PartOK
  <2>2. p.sum # NoFile => \A j \in DOMAIN p.sum : ReadAfter(m, s, p.sum[j], p.lsn)
    BY <1>3, <1>4, <2>1 DEF PartOK
  <2>. QED
    BY <1>1, <2>1, <2>2 DEF PartOK
<1>5. ASSUME NEW k, NEW t, RowOK(l, s, k, t)
      PROVE  RowOK(m, s, k, t)
  <2>. SUFFICES ASSUME t # NoRow
                PROVE  RowOK(m, s, k, t)
    BY DEF RowOK
  <2>1. t.lsn \in 0 .. Len(l)
    BY <1>5 DEF RowOK
  <2>2. t.deleted => \E i \in 1 .. t.lsn : m[i] = Entry("delete", k)
    BY <1>1, <1>2, <1>5, <2>1 DEF RowOK
  <2>3. ~t.deleted => ReadOnce(m, s, [key |-> k, ver |-> t.val])
    BY <1>5, ExtendedKeeps DEF RowOK
  <2>. QED
    BY <1>1, <2>1, <2>2, <2>3 DEF RowOK
<1>6. ASSUME NEW k, NEW t, RowOK(l, s, k, t), Fresh(l, s, k, t)
      PROVE  Fresh(m, s, k, t)
  <2>. SUFFICES ASSUME t # NoRow
                PROVE  Fresh(m, s, k, t)
    BY DEF Fresh
  <2>1. t.lsn \in 0 .. Len(l)
    BY <1>6 DEF RowOK
  <2>2. Ver(m, k, t.lsn) = Ver(l, k, t.lsn) /\ (LiveIn(m, s, k, t.lsn) <=> LiveIn(l, s, k, t.lsn))
    BY <2>1, ExtendedKeeps
  <2>. QED
    BY <1>6, <2>2 DEF Fresh
<1>. QED
  BY <1>3, <1>4, <1>5, <1>6

-----------------------------------------------------------------------------
(***************************************************************************)
(* The writes to the target.                                               *)
(***************************************************************************)

\* An upsert of a row that is as fresh as its LSN, from the stream or from a
\* window, leaves a fresh row with an LSN at or above both.
LEMMA UpsertFresh ==
  ASSUME NEW l \in Seq(LogEntry), NEW s, NEW k,
         NEW t \in Row(Img) \cup {NoRow}, RowOK(l, s, k, t),
         NEW lsn \in 0 .. Len(l), NEW ver \in Nat,
         ReadOnce(l, s, [key |-> k, ver |-> ver]), ver >= Ver(l, k, lsn),
         NEW new, new = FencedUpsert(t, lsn, ver)
  PROVE  /\ new \in Row(Img) /\ new # NoRow /\ new.lsn >= lsn
         /\ t # NoRow => new.lsn >= t.lsn
         /\ RowOK(l, s, k, new)
         /\ Fresh(l, s, k, t) => Fresh(l, s, k, new)
<1>1. lsn \in Nat /\ ver \in Img /\ NullImage \in Img
  BY DEF Img
<1>2. new \in Row(Img)
  BY <1>1, WritesTyped
<1>3. new.lsn >= lsn /\ (t # NoRow => new.lsn >= t.lsn)
  BY <1>1, WritesAdvance
<1>4. new # NoRow
  BY <1>2, KeysAssumption DEF Img
<1>5. CASE t = NoRow \/ Fenced(t, lsn)
  <2>1. new = [lsn |-> lsn, deleted |-> FALSE, val |-> ver]
    BY <1>5 DEF FencedUpsert
  <2>2. new.lsn = lsn /\ ~new.deleted /\ new.val = ver
    BY <2>1
  <2>3. RowOK(l, s, k, new) /\ Fresh(l, s, k, new)
    BY <2>2 DEF RowOK, Fresh
  <2>. QED
    BY <1>2, <1>3, <1>4, <2>3
<1>6. CASE ~(t = NoRow \/ Fenced(t, lsn))
  <2>1. new = t
    BY <1>6 DEF FencedUpsert
  <2>. QED
    BY <1>2, <1>3, <1>4, <2>1
<1>. QED
  BY <1>5, <1>6

\* So does the delete of the stream.
LEMMA DeleteFresh ==
  ASSUME NEW l \in Seq(LogEntry), NEW s, NEW k,
         NEW t \in Row(Img) \cup {NoRow}, RowOK(l, s, k, t),
         NEW lsn \in 1 .. Len(l), l[lsn] = Entry("delete", k),
         NEW new, new = FencedDelete(t, lsn)
  PROVE  /\ new \in Row(Img) /\ new # NoRow /\ new.lsn >= lsn
         /\ t # NoRow => new.lsn >= t.lsn
         /\ RowOK(l, s, k, new)
         /\ Fresh(l, s, k, t) => Fresh(l, s, k, new)
<1>1. lsn \in Nat /\ NullImage \in Img
  BY DEF Img
<1>2. new \in Row(Img)
  BY <1>1, WritesTyped
<1>3. new.lsn >= lsn /\ (t # NoRow => new.lsn >= t.lsn)
  BY <1>1, WritesAdvance
<1>4. new # NoRow
  BY <1>2, KeysAssumption DEF Img
<1>5. ~LiveIn(l, s, k, lsn)
  <2>1. ChangeTo(l, k, lsn) /\ l[lsn].kind = "delete"
    BY DEF ChangeTo, IsChange, Entry
  <2>2. Ver(l, k, lsn) = lsn
    BY <1>1, <2>1, VersionAtChange
  <2>. QED
    BY <2>1, <2>2 DEF LiveIn
<1>6. CASE t = NoRow \/ Fenced(t, lsn)
  <2>1. new.lsn = lsn /\ new.deleted
    BY <1>6 DEF FencedDelete, Row
  <2>2. RowOK(l, s, k, new)
    BY <1>1, <2>1 DEF RowOK
  <2>3. Fresh(l, s, k, new)
    BY <1>5, <2>1 DEF Fresh
  <2>. QED
    BY <1>2, <1>3, <1>4, <2>2, <2>3
<1>7. CASE ~(t = NoRow \/ Fenced(t, lsn))
  <2>1. new = t
    BY <1>7 DEF FencedDelete
  <2>. QED
    BY <1>2, <1>3, <1>4, <2>1
<1>. QED
  BY <1>6, <1>7

\* A merged row is fresh when it was read after the extract's LSN: a tombstone
\* that the merge would touch up is of a delete the extract had not seen.
LEMMA MergeFresh ==
  ASSUME NEW l \in Seq(LogEntry), NEW s, NEW k,
         NEW t \in Row(Img) \cup {NoRow}, RowOK(l, s, k, t),
         NEW lsn \in 0 .. Len(l), NEW ver \in Nat,
         ReadOnce(l, s, [key |-> k, ver |-> ver]),
         NEW new, new = MergeStaging(t, lsn, ver)
  PROVE  /\ new \in Row(Img) /\ new # NoRow /\ new.lsn >= lsn
         /\ t # NoRow => new.lsn >= t.lsn
         /\ RowOK(l, s, k, new)
         /\ Fresh(l, s, k, t) /\ ReadAfter(l, s, [key |-> k, ver |-> ver], lsn)
              => Fresh(l, s, k, new)
<1>1. lsn \in Nat /\ ver \in Img /\ NullImage \in Img
  BY DEF Img
<1>2. new \in Row(Img)
  BY <1>1, WritesTyped
<1>3. new.lsn >= lsn /\ (t # NoRow => new.lsn >= t.lsn)
  BY <1>1, WritesAdvance
<1>4. new # NoRow
  BY <1>2, KeysAssumption DEF Img
<1>5. CASE t = NoRow
  <2>1. new = [lsn |-> lsn, deleted |-> FALSE, val |-> ver]
    BY <1>5 DEF MergeStaging
  <2>2. new.lsn = lsn /\ ~new.deleted /\ new.val = ver
    BY <2>1
  <2>3. RowOK(l, s, k, new)
    BY <2>2 DEF RowOK
  <2>4. ReadAfter(l, s, [key |-> k, ver |-> ver], lsn) => Fresh(l, s, k, new)
    BY <2>2 DEF Fresh, ReadAfter
  <2>. QED
    BY <1>2, <1>3, <1>4, <1>5, <2>3, <2>4
<1>6. CASE t # NoRow /\ Fenced(t, lsn)
  <2>1. t \in Row(Img)
    BY <1>6
  <2>2. new = [t EXCEPT !.lsn = lsn, !.val = ver]
    BY <1>6 DEF MergeStaging
  <2>3. new.lsn = lsn /\ new.deleted = t.deleted /\ new.val = ver /\ t.lsn <= lsn /\ t.lsn \in Nat
    BY <1>6, <2>1, <2>2 DEF Row, Fenced
  <2>4. ASSUME t.deleted
        PROVE  \E i \in 1 .. lsn : l[i] = Entry("delete", k)
    BY <1>1, <1>6, <2>3, <2>4 DEF RowOK
  <2>5. RowOK(l, s, k, new)
    BY <1>1, <2>3, <2>4 DEF RowOK
  <2>6. ASSUME ReadAfter(l, s, [key |-> k, ver |-> ver], lsn)
        PROVE  Fresh(l, s, k, new)
    <3>1. ~t.deleted
      BY <2>4, <2>6 DEF ReadAfter
    <3>. QED
      BY <2>3, <2>6, <3>1 DEF Fresh, ReadAfter
  <2>. QED
    BY <1>2, <1>3, <1>4, <2>5, <2>6
<1>7. CASE t # NoRow /\ ~Fenced(t, lsn)
  <2>1. new = t
    BY <1>7 DEF MergeStaging
  <2>. QED
    BY <1>2, <1>3, <1>4, <2>1
<1>. QED
  BY <1>5, <1>6, <1>7

\* A fresh row that no change of the log is newer than, or the row of a key that
\* never changed, shows what the source has.
LEMMA FreshMirrors ==
  ASSUME NEW l \in Seq(LogEntry), NEW s, NEW k,
         NEW t, RowOK(l, s, k, t), Fresh(l, s, k, t),
         NEW v, v = Ver(l, k, Len(l)),
         v # 0 => t # NoRow /\ t.lsn >= v,
         v = 0 /\ k \in s => t # NoRow
  PROVE  /\ t # NoRow /\ ~t.deleted <=> LiveIn(l, s, k, Len(l))
         /\ t # NoRow /\ ~t.deleted => t.val = v
<1>1. Len(l) \in Nat
  OBVIOUS
<1>2. /\ v \in 0 .. Len(l)
      /\ v # 0 => ChangeTo(l, k, v)
      /\ \A i \in 1 .. Len(l) : ChangeTo(l, k, i) => i <= v
  BY <1>1, VersionIs
<1>3. CASE t = NoRow
  BY <1>3 DEF LiveIn
<1>4. CASE t # NoRow
  <2>1. t.lsn \in 0 .. Len(l) /\ t.lsn >= v
    BY <1>2, <1>4 DEF RowOK
  <2>2. \A i \in 1 .. t.lsn : ChangeTo(l, k, i) => i <= v
    BY <1>1, <1>2, <2>1
  <2>3. Ver(l, k, t.lsn) = v
    BY <1>1, <1>2, <2>1, <2>2, VersionUnique
  <2>4. LiveIn(l, s, k, t.lsn) <=> LiveIn(l, s, k, Len(l))
    BY <2>3 DEF LiveIn
  <2>5. CASE t.deleted
    BY <1>4, <2>4, <2>5 DEF Fresh
  <2>6. CASE ~t.deleted
    <3>1. t.val >= v
      BY <1>4, <2>3, <2>6 DEF Fresh
    <3>2. \/ t.val = 0 /\ k \in s
          \/ t.val \in 1 .. Len(l) /\ l[t.val] = Entry("upsert", k)
      BY <1>4, <2>6 DEF RowOK, ReadOnce
    <3>3. CASE t.val = 0 /\ k \in s
      BY <1>2, <1>4, <2>6, <3>1, <3>3 DEF LiveIn
    <3>4. CASE t.val \in 1 .. Len(l) /\ l[t.val] = Entry("upsert", k)
      <4>1. ChangeTo(l, k, t.val) /\ l[t.val].kind = "upsert"
        BY <3>4 DEF ChangeTo, IsChange, Entry
      <4>2. t.val = v
        BY <1>1, <1>2, <3>1, <3>4, <4>1
      <4>. QED
        BY <1>4, <2>6, <3>4, <4>1, <4>2 DEF LiveIn
    <3>. QED
      BY <3>2, <3>3, <3>4
  <2>. QED
    BY <2>5, <2>6
<1>. QED
  BY <1>3, <1>4

-----------------------------------------------------------------------------
(***************************************************************************)
(* The inductive invariant: log and target.                                *)
(***************************************************************************)

\* Under the file strategy the log has changes only, and none creates a row again.
LogOK ==
  /\ log \in Seq(LogEntry)
  /\ \A i \in 1 .. Len(log) : IsChange(log[i]) => log[i].of \in Keys
  /\ pos \in 0 .. Len(log)
  /\ seeded \subseteq Keys
  /\ strategy = "file" =>
       \A i \in 1 .. Len(log) :
         /\ IsChange(log[i])
         /\ log[i].kind = "delete" =>
              \A j \in 1 .. Len(log) : j > i /\ log[j].of = log[i].of => log[j].kind = "delete"

\* The rows of the target stand for what was read or changed, they are fresh
\* unless tainted, and the changes the stream has delivered are there.
TargetOK ==
  /\ target \in [Keys -> Row(Img) \cup {NoRow}]
  /\ \A k \in Keys : RowOK(log, seeded, k, target[k])
  /\ \A k \in Keys \ tainted : Fresh(log, seeded, k, target[k])
  /\ \A i \in 1 .. pos :
       IsChange(log[i]) => target[log[i].of] # NoRow /\ target[log[i].of].lsn >= i

-----------------------------------------------------------------------------
(***************************************************************************)
(* The inductive invariant: the stream strategy.                           *)
(***************************************************************************)

ReaderRec ==
  [phase : {"idle", "low", "read", "failed", "buffered", "wait"}, chunk : Nat,
   rows : SUBSET SnapRow, again : SUBSET SnapRow, lowAt : Nat, highAt : Nat, late : BOOLEAN]

WinRec == [state : {"idle", "buffered", "open"}, chunk : Nat, rows : SUBSET SnapRow]

WindowType ==
  /\ win \in WinRec
  /\ reader \in ReaderRec
  /\ done \subseteq DOMAIN Chunks

\* The rows of chunk c were read after low, and lack no row that never changed.
ChunkRead(l, s, rows, c, low) ==
  /\ \A r \in rows : ReadOnce(l, s, r) /\ r.ver >= Ver(l, r.key, low)
  /\ \A k \in Chunks[c] \cap s : Changed(l, k) \/ \E r \in rows : r.key = k

\* The low watermark of the chunk in hand is the last low watermark.
LowWritten ==
  reader.phase # "idle" =>
    /\ reader.chunk \in DOMAIN Chunks
    /\ reader.lowAt \in 1 .. Len(log) /\ log[reader.lowAt] = Entry("low", reader.chunk)
    /\ \A i \in 1 .. Len(log) : log[i].kind = "low" => i <= reader.lowAt

\* What the extractor and the window hold at each phase of a chunk.
WindowHolds ==
  /\ reader.phase \in {"low", "read"} => reader.chunk \notin done
  /\ reader.phase = "read" => ChunkRead(log, seeded, reader.rows, reader.chunk, reader.lowAt)
  /\ win.state # "idle" =>
       /\ reader.phase \in {"buffered", "wait"}
       /\ win.chunk = reader.chunk /\ win.chunk \notin done
       /\ ChunkRead(log, seeded, win.rows, reader.chunk, reader.lowAt)
  /\ win.state = "open" => \A r \in win.rows : r.ver >= Ver(log, r.key, pos)

\* A chunk buffered in time waits in the window for its watermarks.
InTime ==
  reader.phase \in {"buffered", "wait"} /\ ~reader.late /\ reader.chunk \notin done =>
    /\ win.state # "idle"
    /\ pos >= reader.lowAt => win.state = "open"
    /\ reader.phase = "wait" =>
         /\ reader.highAt \in 1 .. Len(log) /\ log[reader.highAt] = Entry("high", reader.chunk)
         /\ reader.lowAt < reader.highAt
         /\ pos < reader.highAt

\* An emitted chunk left no row out.
DoneCovers ==
  \A c \in done : \A k \in Chunks[c] \cap seeded : target[k] # NoRow \/ Changed(log, k)

\* Under the file strategy there is no window.
WindowUnused == strategy = "file" => win.state = "idle" /\ reader.phase = "idle"

WindowOK == WindowType /\ WindowUnused /\ LowWritten /\ WindowHolds /\ InTime /\ DoneCovers

-----------------------------------------------------------------------------
(***************************************************************************)
(* The inductive invariant: the extract.                                   *)
(***************************************************************************)

File == Seq(SnapRow) \cup {NoFile}

PartRec == [index : Indexes, lsn : Nat, state : {"writing", "sealed"}, sum : File]

WriterRec ==
  [phase : {"off", "created", "scan", "announceRoll", "announceClose", "open", "finish"},
   lsn : Nat, cursor : Nat, rows : Nat, parts : Seq(PartRec)]

ManifestRec == [lsn : Nat, parts : Seq(PartRec), rows : Nat, complete : BOOLEAN]

WriterType ==
  /\ writer \in WriterRec
  /\ file \in [Indexes -> File]
  /\ object \in [Indexes -> File]
  /\ manifest \in ManifestRec

\* The first n files have no key twice.
NotTwice(files, n) ==
  \A i, h \in 1 .. n : \A j \in DOMAIN files[i - 1], m \in DOMAIN files[h - 1] :
    files[i - 1][j].key = files[h - 1][m].key => i = h /\ j = m

\* One of the first n files has k.
Holds(files, n, k) == \E i \in 1 .. n : \E j \in DOMAIN files[i - 1] : files[i - 1][j].key = k

Scanned == {k \in Keys : k <= writer.cursor}

\* The writer's place: every part but an open one has at least one row.
WriterPlaced ==
  /\ writer.lsn <= Len(log)
  /\ Len(writer.parts) > 0
  /\ writer.phase \in {"created", "scan"} => Len(writer.parts) <= Cardinality(Scanned) + 1
  /\ writer.phase \in {"announceRoll", "open"} => Len(writer.parts) <= Cardinality(Scanned)

\* Part i of the writer: its file, its rows, and that it is sealed when it should be.
PartPlaced(i) ==
  LET p == writer.parts[i]
      f == file[i - 1]
  IN  /\ p.index = i - 1 /\ p.index \in Indexes
      /\ p.lsn = writer.lsn
      /\ f \in Seq(SnapRow) /\ Len(f) <= MaxPartRows
      /\ \A j \in 1 .. Len(f) : ReadAfter(log, seeded, f[j], writer.lsn) /\ f[j].key <= writer.cursor
      /\ IF i = Len(writer.parts) /\ writer.phase \in {"created", "scan"}
           THEN p.state = "writing" /\ p.sum = NoFile /\ Len(f) < MaxPartRows
           ELSE p.state = "sealed" /\ p.sum = f

\* The rows that were there all the time are written once the scan has passed them.
ScanComplete ==
  \A k \in Keys :
    /\ Lasting(log, seeded, k, writer.lsn)
    /\ writer.phase \in {"announceClose", "finish"} \/ k <= writer.cursor
    => Holds(file, Len(writer.parts), k)

WriterHolds ==
  writer.phase # "off" =>
    /\ WriterPlaced
    /\ \A i \in 1 .. Len(writer.parts) : PartPlaced(i)
    /\ NotTwice(file, Len(writer.parts))
    /\ ScanComplete

\* The digests of a manifest, as files.
Sums(parts) == [i \in 0 .. Len(parts) - 1 |-> parts[i + 1].sum]

ManifestOK ==
  /\ manifest.lsn <= Len(log)
  /\ \A i \in 1 .. Len(manifest.parts) : PartOK(log, seeded, manifest.parts[i])
  /\ manifest.complete =>
       /\ \A i \in 1 .. Len(manifest.parts) :
            manifest.parts[i].sum \in Seq(SnapRow) /\ Len(manifest.parts[i].sum) <= MaxPartRows
       /\ NotTwice(Sums(manifest.parts), Len(manifest.parts))
       /\ \A k \in Keys : Lasting(log, seeded, k, manifest.lsn)
                            => Holds(Sums(manifest.parts), Len(manifest.parts), k)

WriterOK == WriterType /\ WriterHolds /\ ManifestOK

-----------------------------------------------------------------------------
(***************************************************************************)
(* The inductive invariant: the loader.                                    *)
(***************************************************************************)

LoadedRec == [index : Nat, sum : Seq(SnapRow), whole : BOOLEAN]

PassRec == [on : BOOLEAN, todo : SUBSET PartRec, mine : SUBSET Goroutines, sem : Nat]

Slot ==
  [phase : {"free", "queued", "verified", "created", "imported", "merged", "committed"},
   part : PartRec, rows : SUBSET SnapRow, whole : BOOLEAN, sem : Nat]

LoaderType ==
  /\ pass \in PassRec
  /\ load \in [Goroutines -> Slot]
  /\ staging \in (SUBSET SnapRow) \cup {NoTable}
  /\ partState \in SUBSET LoadedRec
  /\ faults \in Nat

\* The parts in hand were listed by a manifest with their digest.
PartsInHand ==
  /\ \A p \in pass.todo : PartOK(log, seeded, p) /\ p.sum # NoFile
  /\ \A g \in Goroutines :
       load[g].phase # "free" => PartOK(log, seeded, load[g].part) /\ load[g].part.sum # NoFile

\* What is imported, verified or not, was read from the source at some time.
ImportsRead ==
  /\ \A i \in Indexes :
       object[i] # NoFile => \A j \in DOMAIN object[i] : ReadOnce(log, seeded, object[i][j])
  /\ staging # NoTable => \A r \in staging : ReadOnce(log, seeded, r)

\* On Postgres the staging table exists only inside the one load transaction.
StagingHeld ==
  engine = "postgres" =>
    /\ \A g \in Goroutines :
         /\ load[g].phase # "merged"
         /\ load[g].phase = "created" => staging = {}
         /\ load[g].phase = "imported" => staging = load[g].rows
    /\ \A g, h \in Goroutines : InTransaction(g) /\ InTransaction(h) => g = h
    /\ (\A g \in Goroutines : ~InTransaction(g)) => staging = NoTable

OnTarget(sum) == \A j \in DOMAIN sum : target[sum[j].key] # NoRow

\* A load that merged all its rows has them on the target.
WholeOnTarget ==
  /\ \A g \in Goroutines :
       load[g].phase \in {"merged", "committed"} /\ load[g].whole => OnTarget(load[g].part.sum)
  /\ \A e \in partState : e.whole => OnTarget(e.sum)

LoaderOK == LoaderType /\ PartsInHand /\ ImportsRead /\ StagingHeld /\ WholeOnTarget

SnapshotInv == LogOK /\ TargetOK /\ WindowOK /\ WriterOK /\ LoaderOK

-----------------------------------------------------------------------------
(***************************************************************************)
(* What a step of one part leaves alone in the others.                     *)
(***************************************************************************)

\* The log is only added to.
LogGrows == Extends(log, log') /\ seeded' = seeded /\ strategy' = strategy

\* No row of the target is lost or taken back.
RowsKept ==
  \A k \in Keys : target[k] # NoRow => target'[k] # NoRow /\ target'[k].lsn >= target[k].lsn

\* A step that does not write to the target keeps its rows.
LEMMA RowsSame ==
  ASSUME TargetOK, target' = target
  PROVE  RowsKept
<1>. SUFFICES ASSUME NEW k \in Keys, target[k] # NoRow
              PROVE  target[k].lsn >= target[k].lsn
  BY DEF RowsKept
<1>1. target[k] \in Row(Img)
  BY DEF TargetOK
<1>. QED
  BY <1>1 DEF Row

\* The target's invariant survives a longer log.
LEMMA TargetUntouched ==
  ASSUME LogOK, TargetOK, LogGrows, UNCHANGED <<target, pos, tainted>>
  PROVE  TargetOK'
<1>1. Extends(log, log') /\ seeded' = seeded
  BY DEF LogGrows
<1>2. ASSUME NEW k \in Keys
      PROVE  RowOK(log', seeded', k, target'[k])
  BY <1>1, ExtendedKeepsRows DEF TargetOK
<1>3. ASSUME NEW k \in Keys \ tainted'
      PROVE  Fresh(log', seeded', k, target'[k])
  <2>1. RowOK(log, seeded, k, target[k]) /\ Fresh(log, seeded, k, target[k])
    BY DEF TargetOK
  <2>. QED
    BY <1>1, <2>1, ExtendedKeepsRows
<1>4. ASSUME NEW i \in 1 .. pos', IsChange(log'[i])
      PROVE  target'[log'[i].of] # NoRow /\ target'[log'[i].of].lsn >= i
  <2>1. i \in 1 .. Len(log) /\ log'[i] = log[i]
    BY <1>1 DEF LogOK, Extends
  <2>. QED
    BY <1>4, <2>1 DEF TargetOK
<1>. QED
  BY <1>2, <1>3, <1>4 DEF TargetOK

\* So does the extract's.
LEMMA WriterUntouched ==
  ASSUME LogOK, WriterOK, LogGrows, UNCHANGED writerVars
  PROVE  WriterOK'
<1>. USE DEF writerVars
<1>1. Extends(log, log') /\ seeded' = seeded /\ Len(log) <= Len(log')
      /\ Len(log) \in Nat /\ Len(log') \in Nat
  BY DEF LogGrows, Extends
<1>2. WriterType'
  BY DEF WriterOK, WriterType
<1>3. writer.lsn \in Nat /\ manifest.lsn \in Nat
  BY DEF WriterOK, WriterType, WriterRec, ManifestRec
<1>4. \A k : \A lsn \in Nat : Lasting(log', seeded', k, lsn) => Lasting(log, seeded, k, lsn)
  BY <1>1, ExtendedKeeps
<1>5. ManifestOK'
  <2>1. ASSUME NEW i \in 1 .. Len(manifest.parts)
        PROVE  PartOK(log', seeded', manifest.parts[i])
    <3>1. manifest.parts[i] \in PartRec /\ PartOK(log, seeded, manifest.parts[i])
      BY DEF WriterOK, WriterType, ManifestOK, ManifestRec
    <3>2. manifest.parts[i].lsn \in Nat
      BY <3>1 DEF PartRec
    <3>. QED
      BY <1>1, <3>1, <3>2, ExtendedKeepsRows
  <2>2. manifest.lsn <= Len(log')
    BY <1>1, <1>3 DEF WriterOK, ManifestOK
  <2>3. ASSUME manifest.complete
        PROVE  \A k \in Keys : Lasting(log', seeded', k, manifest.lsn)
                                 => Holds(Sums(manifest.parts), Len(manifest.parts), k)
    BY <1>3, <1>4, <2>3 DEF WriterOK, ManifestOK
  <2>. QED
    BY <2>1, <2>2, <2>3 DEF WriterOK, ManifestOK
<1>6. ASSUME writer.phase # "off"
      PROVE  /\ WriterPlaced'
             /\ \A i \in 1 .. Len(writer.parts) : PartPlaced(i)'
             /\ ScanComplete'
  <2>1. writer.lsn \in 0 .. Len(log)
    BY <1>1, <1>3, <1>6 DEF WriterOK, WriterHolds, WriterPlaced
  <2>2. WriterPlaced'
    BY <1>1, <1>3, <1>6, <2>1 DEF WriterOK, WriterHolds, WriterPlaced, Scanned
  <2>3. \A r : ReadAfter(log, seeded, r, writer.lsn) => ReadAfter(log', seeded', r, writer.lsn)
    BY <1>1, <2>1, ExtendedKeepsRows
  <2>4. ASSUME NEW i \in 1 .. Len(writer.parts)
        PROVE  PartPlaced(i)'
    <3>1. PartPlaced(i)
      BY <1>6 DEF WriterOK, WriterHolds
    <3>. QED
      BY <2>3, <3>1 DEF PartPlaced
  <2>5. ScanComplete'
    BY <1>3, <1>4, <1>6 DEF WriterOK, WriterHolds, ScanComplete
  <2>. QED
    BY <2>2, <2>4, <2>5
<1>7. WriterHolds'
  BY <1>6 DEF WriterOK, WriterHolds
<1>. QED
  BY <1>2, <1>5, <1>7 DEF WriterOK

\* And the loader's, as long as no row of the target is lost.
LEMMA LoaderUntouched ==
  ASSUME LogOK, LoaderOK, LogGrows, RowsKept, UNCHANGED loaderVars,
         UNCHANGED object \/ ImportsRead'
  PROVE  LoaderOK'
<1>. USE DEF loaderVars
<1>1. Extends(log, log') /\ seeded' = seeded
  BY DEF LogGrows
<1>2. LoaderType'
  BY DEF LoaderOK, LoaderType
<1>3. PartsInHand'
  <2>1. ASSUME NEW p \in PartRec, PartOK(log, seeded, p)
        PROVE  PartOK(log', seeded', p)
    <3>1. p.lsn \in Nat
      BY DEF PartRec
    <3>. QED
      BY <1>1, <2>1, <3>1, ExtendedKeepsRows
  <2>2. pass.todo \subseteq PartRec /\ \A g \in Goroutines : load[g].part \in PartRec
    BY DEF LoaderOK, LoaderType, PassRec, Slot
  <2>. QED
    BY <2>1, <2>2 DEF LoaderOK, PartsInHand
<1>4. ImportsRead'
  <2>1. \A r : ReadOnce(log, seeded, r) => ReadOnce(log', seeded', r)
    BY <1>1, ExtendedKeeps
  <2>. QED
    BY <2>1 DEF LoaderOK, ImportsRead
<1>5. StagingHeld'
  BY DEF LoaderOK, StagingHeld, InTransaction
<1>6. WholeOnTarget'
  <2>1. ASSUME NEW sum \in Seq(SnapRow), OnTarget(sum)
        PROVE  OnTarget(sum)'
    <3>1. \A j \in DOMAIN sum : sum[j] \in SnapRow
      OBVIOUS
    <3>2. \A j \in DOMAIN sum : sum[j].key \in Keys
      BY <3>1 DEF SnapRow
    <3>. QED
      BY <2>1, <3>2 DEF OnTarget, RowsKept
  <2>2. ASSUME NEW g \in Goroutines, load[g].phase \in {"merged", "committed"}, load[g].whole
        PROVE  OnTarget(load[g].part.sum)'
    <3>1. load[g].part \in PartRec /\ load[g].part.sum # NoFile
      BY <2>2 DEF LoaderOK, LoaderType, Slot, PartsInHand
    <3>2. load[g].part.sum \in Seq(SnapRow)
      BY <3>1 DEF PartRec, File
    <3>3. OnTarget(load[g].part.sum)
      BY <2>2 DEF LoaderOK, WholeOnTarget
    <3>. QED
      BY <2>1, <3>2, <3>3
  <2>3. ASSUME NEW e \in partState, e.whole
        PROVE  OnTarget(e.sum)'
    <3>1. e.sum \in Seq(SnapRow) /\ OnTarget(e.sum)
      BY <2>3 DEF LoaderOK, LoaderType, WholeOnTarget, LoadedRec
    <3>. QED
      BY <2>1, <3>1
  <2>. QED
    BY <2>2, <2>3 DEF WholeOnTarget
<1>. QED
  BY <1>2, <1>3, <1>4, <1>5, <1>6 DEF LoaderOK

\* A chunk's rows are as good under a longer log.
LEMMA ChunkReadKept ==
  ASSUME NEW l, NEW m, NEW s, Extends(l, m),
         NEW rows, NEW c, NEW low \in 0 .. Len(l), ChunkRead(l, s, rows, c, low)
  PROVE  ChunkRead(m, s, rows, c, low)
<1>3. /\ \A k : Ver(m, k, low) = Ver(l, k, low)
      /\ \A r : ReadOnce(l, s, r) => ReadOnce(m, s, r)
  BY ExtendedKeeps
<1>1. \A r \in rows : ReadOnce(m, s, r) /\ r.ver >= Ver(m, r.key, low)
  BY <1>3 DEF ChunkRead
<1>2. \A k \in Chunks[c] \cap s : Changed(m, k) \/ \E r \in rows : r.key = k
  BY ExtendedKeeps DEF ChunkRead
<1>. QED
  BY <1>1, <1>2 DEF ChunkRead

\* And the window's, when a change joins the log.
LEMMA WindowUntouched ==
  ASSUME LogOK, WindowOK, LogGrows, RowsKept, UNCHANGED windowVars,
         pos' = pos \/ strategy = "file",
         \A i \in 1 .. Len(log') : log'[i].kind = "low" => i <= Len(log)
  PROVE  WindowOK'
<1>. USE DEF windowVars
<1>1. /\ Extends(log, log') /\ seeded' = seeded /\ strategy' = strategy
      /\ Len(log) <= Len(log') /\ Len(log) \in Nat /\ Len(log') \in Nat
      /\ \A i \in 1 .. Len(log) : log'[i] = log[i]
  BY DEF LogGrows, Extends
<1>2. WindowType' /\ WindowUnused'
  BY <1>1 DEF WindowOK, WindowType, WindowUnused
<1>3. LowWritten'
  <2>. SUFFICES ASSUME reader.phase # "idle"
                PROVE  LowWritten'
    BY DEF LowWritten
  <2>1. /\ reader.chunk \in DOMAIN Chunks
        /\ reader.lowAt \in 1 .. Len(log) /\ log[reader.lowAt] = Entry("low", reader.chunk)
        /\ \A i \in 1 .. Len(log) : log[i].kind = "low" => i <= reader.lowAt
    BY DEF WindowOK, LowWritten
  <2>. QED
    BY <1>1, <2>1 DEF LowWritten
<1>4. reader.phase # "idle" => reader.lowAt \in 0 .. Len(log)
  BY DEF WindowOK, LowWritten
<1>5. win.state = "open" => pos' = pos /\ pos \in 0 .. Len(log)
  BY DEF WindowOK, WindowUnused, LogOK
<1>6. WindowHolds'
  <2>1. reader.phase = "read" => ChunkRead(log', seeded', reader.rows, reader.chunk, reader.lowAt)
    BY <1>1, <1>4, ChunkReadKept DEF WindowOK, WindowHolds
  <2>2. win.state # "idle" => ChunkRead(log', seeded', win.rows, reader.chunk, reader.lowAt)
    BY <1>1, <1>4, ChunkReadKept DEF WindowOK, WindowHolds
  <2>3. ASSUME win.state = "open"
        PROVE  \A r \in win.rows : r.ver >= Ver(log', r.key, pos')
    <3>1. \A k : \A n \in 0 .. Len(log) : Ver(log', k, n) = Ver(log, k, n)
      BY <1>1, ExtendedKeeps
    <3>. QED
      BY <1>5, <2>3, <3>1 DEF WindowOK, WindowHolds
  <2>. QED
    BY <2>1, <2>2, <2>3 DEF WindowOK, WindowHolds
<1>7. InTime'
  <2>. SUFFICES ASSUME reader.phase \in {"buffered", "wait"}, ~reader.late, reader.chunk \notin done
                PROVE  InTime'
    BY DEF InTime
  <2>1. pos' = pos
    BY DEF WindowOK, WindowUnused
  <2>2. InTime
    BY DEF WindowOK
  <2>. QED
    BY <1>1, <2>1, <2>2 DEF InTime
<1>8. DoneCovers'
  <2>1. \A k : Changed(log, k) => Changed(log', k)
    BY <1>1, ExtendedKeeps
  <2>2. \A k \in seeded : k \in Keys
    BY DEF LogOK
  <2>. QED
    BY <1>1, <2>1, <2>2 DEF WindowOK, DoneCovers, RowsKept
<1>. QED
  BY <1>2, <1>3, <1>6, <1>7, <1>8 DEF WindowOK

-----------------------------------------------------------------------------
(***************************************************************************)
(* Steps that add to the log.                                              *)
(***************************************************************************)

\* One more entry.
LEMMA AppendExtends ==
  ASSUME NEW l \in Seq(LogEntry), NEW e \in LogEntry
  PROVE  /\ Extends(l, Append(l, e)) /\ Append(l, e)[Len(l) + 1] = e
         /\ Len(Append(l, e)) = Len(l) + 1
BY DEF Extends

\* The extractor's watermarks are no changes of rows.
LEMMA WatermarkLog ==
  ASSUME LogOK, strategy = "stream", NEW e \in LogEntry, e.kind \in {"low", "high"},
         log' = Append(log, e), UNCHANGED <<seeded, pos, strategy>>
  PROVE  LogGrows /\ LogOK'
<1>1. /\ Extends(log, log') /\ log' \in Seq(LogEntry) /\ log'[Len(log) + 1] = e
      /\ Len(log') = Len(log) + 1 /\ Len(log) \in Nat
      /\ \A i \in 1 .. Len(log) : log'[i] = log[i]
  BY AppendExtends DEF LogOK, Extends
<1>2. \A i \in 1 .. Len(log') : i \in 1 .. Len(log) \/ i = Len(log) + 1
  BY <1>1
<1>3. ~IsChange(e)
  BY DEF IsChange
<1>4. \A i \in 1 .. Len(log') : IsChange(log'[i]) => log'[i].of \in Keys
  BY <1>1, <1>2, <1>3 DEF LogOK
<1>5. pos' \in 0 .. Len(log') /\ seeded' \subseteq Keys
  BY <1>1 DEF LogOK
<1>. QED
  BY <1>1, <1>4, <1>5 DEF LogOK, LogGrows

\* A row that is live was not deleted, where rows are not created again.
LEMMA LiveNotDeleted ==
  ASSUME LogOK, strategy = "file", NEW k, NEW n \in 0 .. Len(log), LiveIn(log, seeded, k, n)
  PROVE  \A i \in 1 .. n : log[i] # Entry("delete", k)
<1>. SUFFICES ASSUME NEW i \in 1 .. n, log[i] = Entry("delete", k)
              PROVE  FALSE
  OBVIOUS
<1>1. Len(log) \in Nat /\ n \in Nat
  BY DEF LogOK
<1> DEFINE v == Ver(log, k, n)
<1>2. v \in 0 .. n /\ (v # 0 => ChangeTo(log, k, v))
      /\ \A j \in 1 .. n : ChangeTo(log, k, j) => j <= v
  BY <1>1, VersionIs
<1>3. ChangeTo(log, k, i) /\ log[i].kind = "delete" /\ log[i].of = k
  BY DEF ChangeTo, IsChange, Entry
<1>4. i <= v /\ v # 0
  BY <1>1, <1>2, <1>3
<1>5. log[v].of = k /\ log[v].kind = "upsert"
  BY <1>2, <1>4 DEF ChangeTo, LiveIn
<1>. HIDE DEF v
<1>6. v \in 1 .. Len(log) /\ i \in 1 .. Len(log)
  BY <1>1, <1>2, <1>4
<1>7. v # i
  BY <1>3, <1>5
<1>8. log[v].kind = "delete"
  BY <1>1, <1>3, <1>4, <1>5, <1>6, <1>7 DEF LogOK
<1>. QED
  BY <1>5, <1>8

\* An application's change joins the log.
LEMMA ChangesLog ==
  ASSUME LogOK, Changes, UNCHANGED strategy
  PROVE  /\ LogGrows /\ LogOK' /\ UNCHANGED <<seeded, pos, target>>
         /\ \A i \in 1 .. Len(log') : log'[i].kind = "low" => i <= Len(log)
<1>1. PICK k \in Keys, kind \in {"upsert", "delete"} :
        /\ strategy = "file" /\ kind = "upsert" =>
             k \in Live \/ ~\E i \in DOMAIN log : log[i] = Entry("delete", k)
        /\ SourceChange(k, kind)
  BY DEF Changes
<1>. DEFINE e == Entry(kind, k)
<1>2. log' = Append(log, e) /\ UNCHANGED <<seeded, pos, target>>
  BY <1>1 DEF SourceChange
<1>3. e \in LogEntry /\ IsChange(e) /\ e.of = k /\ e.kind = kind
  BY <1>1, KeysAssumption DEF LogEntry, Entry, IsChange
<1>. HIDE DEF e
<1>4. /\ Extends(log, log') /\ log' \in Seq(LogEntry) /\ log'[Len(log) + 1] = e
      /\ Len(log') = Len(log) + 1 /\ Len(log) \in Nat
      /\ \A i \in 1 .. Len(log) : log'[i] = log[i]
  BY <1>2, <1>3, AppendExtends DEF LogOK, Extends
<1>5. \A i \in 1 .. Len(log') : i \in 1 .. Len(log) \/ i = Len(log) + 1
  BY <1>4
<1>6. \A i \in 1 .. Len(log') : IsChange(log'[i]) => log'[i].of \in Keys
  BY <1>3, <1>4, <1>5 DEF LogOK
<1>7. pos' \in 0 .. Len(log') /\ seeded' \subseteq Keys
  BY <1>2, <1>4 DEF LogOK
<1>8. ASSUME strategy = "file"
      PROVE  \A i \in 1 .. Len(log') : IsChange(log'[i])
  BY <1>3, <1>4, <1>5, <1>8 DEF LogOK
<1>9. ASSUME strategy = "file", NEW i \in 1 .. Len(log'), log'[i].kind = "delete",
             NEW j \in 1 .. Len(log'), j > i, log'[j].of = log'[i].of
      PROVE  log'[j].kind = "delete"
  <2>1. i \in 1 .. Len(log) /\ log'[i] = log[i]
    BY <1>4, <1>5, <1>9
  <2>2. CASE j \in 1 .. Len(log)
    BY <1>4, <1>9, <2>1, <2>2 DEF LogOK
  <2>3. CASE j = Len(log) + 1
    <3>1. log'[j] = e /\ log[i].of = k /\ log[i].kind = "delete"
      BY <1>3, <1>4, <1>9, <2>1, <2>3
    <3>2. log[i] = Entry("delete", k)
      <4>1. log[i] \in LogEntry
        BY <2>1 DEF LogOK
      <4>. QED
        BY <3>1, <4>1 DEF LogEntry, Entry
    <3>3. CASE kind = "upsert"
      <4>1. i \in DOMAIN log
        BY <2>1 DEF LogOK
      <4>2. k \in Live
        BY <1>1, <1>9, <3>2, <3>3, <4>1
      <4>3. LiveIn(log, seeded, k, Len(log))
        BY <4>2 DEF Live, LiveAt, VersionAt, LiveIn, Ver, ChangeTo
      <4>. QED
        BY <1>4, <1>9, <2>1, <3>2, <4>3, LiveNotDeleted
    <3>4. CASE kind = "delete"
      BY <1>3, <3>1, <3>4
    <3>. QED
      BY <3>3, <3>4
  <2>. QED
    BY <1>5, <2>2, <2>3
<1>10. \A i \in 1 .. Len(log') : log'[i].kind = "low" => i <= Len(log)
  BY <1>3, <1>4, <1>5 DEF IsChange
<1>. QED
  BY <1>2, <1>4, <1>6, <1>7, <1>8, <1>9, <1>10 DEF LogOK, LogGrows

\* A change of the source preserves the invariant.
LEMMA ChangesStep ==
  ASSUME SnapshotInv, Changes, UNCHANGED <<writerVars, loaderVars, windowVars, strategy>>
  PROVE  SnapshotInv'
<1>1. /\ LogGrows /\ LogOK' /\ UNCHANGED <<seeded, pos, target>>
      /\ \A i \in 1 .. Len(log') : log'[i].kind = "low" => i <= Len(log)
  BY ChangesLog DEF SnapshotInv
<1>2. RowsKept
  BY <1>1, RowsSame DEF SnapshotInv
<1>3. TargetOK'
  BY <1>1, TargetUntouched DEF SnapshotInv, loaderVars
<1>4. WindowOK'
  BY <1>1, <1>2, WindowUntouched DEF SnapshotInv
<1>5. WriterOK'
  BY <1>1, WriterUntouched DEF SnapshotInv
<1>6. LoaderOK'
  BY <1>1, <1>2, LoaderUntouched DEF SnapshotInv, writerVars
<1>. QED
  BY <1>1, <1>3, <1>4, <1>5, <1>6 DEF SnapshotInv

-----------------------------------------------------------------------------
(***************************************************************************)
(* Steps that write to the target.                                         *)
(***************************************************************************)

\* A log extends itself.
LEMMA LogSame ==
  ASSUME LogOK, UNCHANGED <<log, seeded, strategy>>
  PROVE  LogGrows
BY DEF LogGrows, Extends, LogOK

\* What a write to the target has to grant.
LEMMA TargetWritten ==
  ASSUME LogOK, TargetOK, UNCHANGED <<log, seeded>>,
         target' \in [Keys -> Row(Img) \cup {NoRow}],
         \A k \in Keys : RowOK(log, seeded, k, target'[k]),
         \A k \in Keys \ tainted' : Fresh(log, seeded, k, target'[k]),
         RowsKept,
         pos' \in 0 .. Len(log),
         \A i \in 1 .. pos' : IsChange(log[i]) =>
            i <= pos \/ (target'[log[i].of] # NoRow /\ target'[log[i].of].lsn >= i)
  PROVE  TargetOK'
<1>1. ASSUME NEW i \in 1 .. pos', IsChange(log[i]), i <= pos
      PROVE  target'[log[i].of] # NoRow /\ target'[log[i].of].lsn >= i
  <2>1. log[i].of \in Keys /\ i \in 1 .. pos
    BY <1>1 DEF LogOK
  <2>2. target[log[i].of] # NoRow /\ target[log[i].of].lsn >= i
    BY <1>1, <2>1 DEF TargetOK
  <2>3. target'[log[i].of] # NoRow /\ target'[log[i].of].lsn >= target[log[i].of].lsn
    BY <2>1, <2>2 DEF RowsKept
  <2>4. target[log[i].of] \in Row(Img) /\ target'[log[i].of] \in Row(Img)
    BY <2>1, <2>2, <2>3 DEF TargetOK
  <2>. QED
    BY <1>1, <2>2, <2>3, <2>4 DEF Row
<1>. QED
  BY <1>1 DEF TargetOK

\* The applier's write of the next change.
LEMMA AppliedOK ==
  ASSUME LogOK, TargetOK, pos < Len(log), IsChange(log[pos + 1]),
         target' = Applied(target, log[pos + 1], pos + 1), pos' = pos + 1,
         UNCHANGED <<log, seeded, tainted>>
  PROVE  TargetOK' /\ RowsKept
<1>. DEFINE e == log[pos + 1]
            n == pos + 1
<1>1. n \in 1 .. Len(log) /\ n \in Nat /\ e \in LogEntry /\ e.of \in Keys
      /\ n \in 0 .. Len(log) /\ log[n] = e /\ log \in Seq(LogEntry)
  <2>1. n \in 1 .. Len(log) /\ n \in Nat /\ n \in 0 .. Len(log) /\ log \in Seq(LogEntry)
    BY DEF LogOK
  <2>2. e \in LogEntry
    BY <2>1
  <2>3. e.of \in Keys
    BY <2>1 DEF LogOK
  <2>. QED
    BY <2>1, <2>2, <2>3
<1>2. e.kind = "upsert" \/ e.kind = "delete"
  BY DEF IsChange
<1>3. ChangeTo(log, e.of, n)
  BY <1>1 DEF ChangeTo
<1>. HIDE DEF e, n
<1>4. \A k \in Keys : target[k] \in Row(Img) \cup {NoRow} /\ RowOK(log, seeded, k, target[k])
  BY DEF TargetOK
<1> DEFINE t == target[e.of]
           new == IF e.kind = "delete" THEN FencedDelete(t, n) ELSE FencedUpsert(t, n, n)
<1>5. target' = [target EXCEPT ![e.of] = new]
  BY DEF e, n, Applied
<1>6. /\ new \in Row(Img) /\ new # NoRow /\ new.lsn >= n
      /\ t # NoRow => new.lsn >= t.lsn
      /\ RowOK(log, seeded, e.of, new)
      /\ Fresh(log, seeded, e.of, t) => Fresh(log, seeded, e.of, new)
  <2>1. CASE e.kind = "delete"
    <3>1. log[n] = Entry("delete", e.of)
      BY <1>1, <2>1 DEF Entry, LogEntry
    <3>2. new = FencedDelete(t, n)
      BY <2>1
    <3>. QED
      BY <1>1, <1>4, <3>1, <3>2, DeleteFresh
  <2>2. CASE e.kind = "upsert"
    <3>1. log[n] = Entry("upsert", e.of)
      BY <1>1, <2>2 DEF Entry, LogEntry
    <3>2. new = FencedUpsert(t, n, n)
      BY <2>2
    <3>3. Ver(log, e.of, n) = n
      BY <1>1, <1>3, VersionAtChange
    <3>4. ReadOnce(log, seeded, [key |-> e.of, ver |-> n])
      BY <1>1, <3>1 DEF ReadOnce
    <3>5. n >= Ver(log, e.of, n)
      BY <1>1, <3>3
    <3>. QED
      BY <1>1, <1>4, <3>2, <3>4, <3>5, UpsertFresh
  <2>. QED
    BY <1>2, <2>1, <2>2
<1>. HIDE DEF new
<1>7. target \in [Keys -> Row(Img) \cup {NoRow}]
  BY DEF TargetOK
<1>8. target' \in [Keys -> Row(Img) \cup {NoRow}]
  BY <1>1, <1>5, <1>6, <1>7
<1>9. /\ target'[e.of] = new
      /\ \A k \in Keys : k # e.of => target'[k] = target[k]
  BY <1>1, <1>5, <1>7
<1>10. RowsKept
  <2>1. \A k \in Keys : target[k] # NoRow => target[k].lsn \in Nat
    BY <1>7 DEF Row
  <2>. QED
    BY <1>6, <1>9, <2>1 DEF RowsKept
<1>11. \A k \in Keys : RowOK(log, seeded, k, target'[k])
  BY <1>4, <1>6, <1>9
<1>12. \A k \in Keys \ tainted : Fresh(log, seeded, k, target'[k])
  BY <1>6, <1>9 DEF TargetOK
<1>13. \A i \in 1 .. pos' : i <= pos \/ i = n
  BY DEF n, LogOK
<1>14. pos' \in 0 .. Len(log)
  BY <1>1 DEF n
<1>15. \A i \in 1 .. pos' : IsChange(log[i]) =>
            i <= pos \/ (target'[log[i].of] # NoRow /\ target'[log[i].of].lsn >= i)
  BY <1>1, <1>6, <1>9, <1>13
<1>. QED
  BY <1>8, <1>10, <1>11, <1>12, <1>14, <1>15, TargetWritten

-----------------------------------------------------------------------------
(***************************************************************************)
(* The steps of the stream strategy.                                       *)
(***************************************************************************)

\* Idle, the extractor and the window have nothing to answer for.
LEMMA WindowReset ==
  ASSUME LogOK, WindowOK, win' = NewWindow, reader' = IdleReader,
         UNCHANGED <<log, seeded, strategy, target, done>>
  PROVE  WindowOK'
<1>1. WindowType'
  BY DEF WindowOK, WindowType, NewWindow, IdleReader, ReaderRec, WinRec
<1>2. win'.state = "idle" /\ reader'.phase = "idle"
  BY DEF NewWindow, IdleReader
<1>3. DoneCovers'
  BY DEF WindowOK, DoneCovers
<1>. QED
  BY <1>1, <1>2, <1>3 DEF WindowOK, WindowUnused, LowWritten, WindowHolds, InTime

\* The least chunk that is not done is one of them.
LEMMA NextChunk ==
  ASSUME DOMAIN Chunks \ done # {}
  PROVE  Min(DOMAIN Chunks \ done) \in DOMAIN Chunks \ done
<1>1. DOMAIN Chunks \ done \in SUBSET Nat
  BY ChunksAssumption
<1>2. \E x \in DOMAIN Chunks \ done : \A y \in DOMAIN Chunks \ done : x <= y
  BY <1>1, LeastNat
<1>. QED
  BY <1>2 DEF Min

\* Step 1.
LEMMA WriteLowStep ==
  ASSUME LogOK, WindowOK, strategy = "stream", WriteLow, UNCHANGED strategy
  PROVE  LogGrows /\ LogOK' /\ WindowOK'
<1>. DEFINE c == Min(DOMAIN Chunks \ done)
<1>1. c \in DOMAIN Chunks \ done /\ c \in Nat
  BY NextChunk, ChunksAssumption DEF WriteLow
<1>. HIDE DEF c
<1>2. /\ log' = Append(log, Entry("low", c))
      /\ reader' = [IdleReader EXCEPT !.phase = "low", !.chunk = c, !.lowAt = Len(log) + 1]
      /\ win.state = "idle"
      /\ UNCHANGED <<seeded, pos, target, win, done>>
  BY DEF WriteLow, c
<1>3. Entry("low", c) \in LogEntry /\ Entry("low", c).kind = "low"
  BY <1>1 DEF Entry, LogEntry
<1>4. LogGrows /\ LogOK'
  BY <1>2, <1>3, WatermarkLog
<1>5. /\ Extends(log, log') /\ log'[Len(log) + 1] = Entry("low", c)
      /\ Len(log') = Len(log) + 1 /\ Len(log) \in Nat
  BY <1>2, <1>3, AppendExtends DEF LogOK
<1>6. /\ reader'.phase = "low" /\ reader'.chunk = c /\ reader'.lowAt = Len(log) + 1
  BY <1>2 DEF IdleReader
<1>7. WindowType'
  <2>1. IdleReader \in ReaderRec
    BY DEF IdleReader, ReaderRec
  <2>2. Len(log) + 1 \in Nat
    BY <1>5
  <2>3. reader' \in ReaderRec
    BY <1>1, <1>2, <2>1, <2>2 DEF ReaderRec
  <2>. QED
    BY <1>2, <2>3 DEF WindowOK, WindowType
<1>8. LowWritten'
  BY <1>1, <1>5, <1>6 DEF LowWritten
<1>9. WindowHolds' /\ InTime' /\ WindowUnused'
  BY <1>1, <1>2, <1>6 DEF WindowHolds, InTime, WindowUnused
<1>10. DoneCovers'
  <2>1. \A k : Changed(log, k) => Changed(log', k)
    BY <1>5, ExtendedKeeps
  <2>. QED
    BY <1>2, <2>1 DEF WindowOK, DoneCovers
<1>. QED
  BY <1>4, <1>7, <1>8, <1>9, <1>10 DEF WindowOK

\* What a SELECT returns is typed and as fresh as the log.
LEMMA CurrentRead ==
  ASSUME LogOK, NEW k \in Live
  PROVE  /\ Current(k) \in SnapRow /\ Current(k).key = k
         /\ ReadOnce(log, seeded, Current(k))
         /\ LiveIn(log, seeded, k, Len(log))
         /\ \A n \in 0 .. Len(log) : Current(k).ver >= Ver(log, k, n)
<1>1. k \in Keys /\ LiveIn(log, seeded, k, Len(log)) /\ Len(log) \in Nat /\ log \in Seq(LogEntry)
  BY DEF Live, LiveAt, VersionAt, LiveIn, Ver, ChangeTo, LogOK
<1>. DEFINE v == Ver(log, k, Len(log))
<1>2. Current(k) = [key |-> k, ver |-> v]
  BY DEF Current, VersionAt, Ver, ChangeTo
<1>3. v \in 0 .. Len(log) /\ (v # 0 => ChangeTo(log, k, v))
  BY <1>1, VersionIs
<1>4. v = 0 => k \in seeded
  BY <1>1 DEF LiveIn
<1>5. v # 0 => log[v].kind = "upsert"
  BY <1>1 DEF LiveIn
<1>6. \A n \in 0 .. Len(log) : v >= Ver(log, k, n)
  <2>. TAKE n \in 0 .. Len(log)
  <2>1. Ver(log, k, n) <= v
    BY <1>1, VersionMonotone
  <2>2. Ver(log, k, n) \in Nat
    BY <1>1, VersionIs
  <2>. QED
    BY <1>3, <2>1, <2>2
<1>. HIDE DEF v
<1>7. v # 0 => v \in 1 .. Len(log) /\ log[v] = Entry("upsert", k)
  <2>1. v # 0 => v \in 1 .. Len(log)
    BY <1>1, <1>3
  <2>2. v # 0 => log[v] \in LogEntry
    BY <1>1, <2>1
  <2>. QED
    BY <1>3, <1>5, <2>1, <2>2 DEF ChangeTo, Entry, LogEntry
<1>8. ReadOnce(log, seeded, [key |-> k, ver |-> v])
  BY <1>4, <1>7 DEF ReadOnce
<1>. QED
  BY <1>1, <1>2, <1>3, <1>6, <1>8 DEF SnapRow

\* A chunk's SELECT leaves out only rows that were changed or never there.
LEMMA RowsOfRead ==
  ASSUME LogOK, NEW c \in DOMAIN Chunks, NEW low \in 0 .. Len(log)
  PROVE  /\ RowsOf(c) \subseteq SnapRow
         /\ ChunkRead(log, seeded, RowsOf(c), c, low)
<1>1. \A r \in RowsOf(c) : \E k \in Live : r = Current(k)
  BY DEF RowsOf
<1>2. ASSUME NEW r \in RowsOf(c)
      PROVE  r \in SnapRow /\ ReadOnce(log, seeded, r) /\ r.ver >= Ver(log, r.key, low)
  <2>1. PICK k \in Live : r = Current(k)
    BY <1>1
  <2>. QED
    BY <2>1, CurrentRead
<1>3. ASSUME NEW k \in Chunks[c] \cap seeded, ~Changed(log, k)
      PROVE  \E r \in RowsOf(c) : r.key = k
  <2>1. Len(log) \in Nat /\ k \in Keys
    BY DEF LogOK
  <2>2. Ver(log, k, Len(log)) = 0
    BY <1>3, <2>1, VersionIs DEF Changed
  <2>3. k \in Live
    BY <2>1, <2>2 DEF Live, LiveAt, VersionAt, Ver, ChangeTo
  <2>4. Current(k) \in RowsOf(c) /\ Current(k).key = k
    BY <2>3 DEF RowsOf, Current
  <2>. QED
    BY <2>4
<1>. QED
  BY <1>2, <1>3 DEF ChunkRead

\* Step 2.
LEMMA ReadChunkStep ==
  ASSUME LogOK, WindowOK, ReadChunk, UNCHANGED strategy
  PROVE  WindowOK'
<1>1. PICK again \in SUBSET RowsOf(reader.chunk) :
        reader' = [reader EXCEPT !.phase = "read", !.rows = RowsOf(reader.chunk), !.again = again]
  BY DEF ReadChunk
<1>2. reader.phase = "low" /\ UNCHANGED <<log, seeded, pos, target, win, done>>
  BY DEF ReadChunk, logVars
<1>3. /\ reader.chunk \in DOMAIN Chunks /\ reader.lowAt \in 0 .. Len(log)
      /\ reader.chunk \notin done /\ win.state = "idle"
  BY <1>2 DEF WindowOK, LowWritten, WindowHolds
<1>4. RowsOf(reader.chunk) \subseteq SnapRow
      /\ ChunkRead(log, seeded, RowsOf(reader.chunk), reader.chunk, reader.lowAt)
  BY <1>3, RowsOfRead
<1>5. /\ reader'.phase = "read" /\ reader'.rows = RowsOf(reader.chunk)
      /\ reader'.chunk = reader.chunk /\ reader'.lowAt = reader.lowAt
  BY <1>1 DEF WindowOK, WindowType, ReaderRec
<1>6. WindowType'
  BY <1>1, <1>2, <1>4 DEF WindowOK, WindowType, ReaderRec
<1>7. LowWritten'
  BY <1>2, <1>5 DEF WindowOK, LowWritten
<1>8. WindowHolds'
  BY <1>2, <1>3, <1>4, <1>5 DEF WindowHolds
<1>9. InTime' /\ DoneCovers' /\ WindowUnused'
  BY <1>2, <1>5 DEF WindowOK, InTime, DoneCovers, WindowUnused
<1>. QED
  BY <1>6, <1>7, <1>8, <1>9 DEF WindowOK

\* Buffer.
LEMMA BufferChunkStep ==
  ASSUME LogOK, WindowOK, BufferChunk, UNCHANGED strategy
  PROVE  WindowOK'
<1>1. /\ reader.phase = "read" /\ UNCHANGED <<log, seeded, pos, target, done>>
      /\ win' = Buffer(win, reader.chunk, reader.rows, reader.again)
      /\ reader' = [reader EXCEPT
           !.phase = IF BufferFails(win, reader.again) THEN "failed" ELSE "buffered",
           !.late  = pos >= reader.lowAt]
  BY DEF BufferChunk, logVars
<1>2. /\ reader.chunk \in DOMAIN Chunks /\ reader.chunk \in Nat
      /\ reader.lowAt \in 1 .. Len(log) /\ pos \in 0 .. Len(log)
      /\ reader.chunk \notin done /\ win.state = "idle" /\ reader \in ReaderRec
      /\ ChunkRead(log, seeded, reader.rows, reader.chunk, reader.lowAt)
  BY <1>1 DEF WindowOK, WindowType, LowWritten, WindowHolds, ReaderRec, LogOK
<1>3. /\ reader'.chunk = reader.chunk /\ reader'.lowAt = reader.lowAt
      /\ ~reader'.late => ~(pos >= reader.lowAt)
      /\ reader'.phase = IF reader.again = {} THEN "buffered" ELSE "failed"
      /\ reader' \in ReaderRec
  <2>. DEFINE ph == IF reader.again = {} THEN "buffered" ELSE "failed"
              lt == pos >= reader.lowAt
  <2>1. reader' = [reader EXCEPT !.phase = ph, !.late = lt]
    BY <1>1, <1>2 DEF BufferFails
  <2>2. ph \in {"buffered", "failed"} /\ lt \in BOOLEAN
    OBVIOUS
  <2>. HIDE DEF ph, lt
  <2>3. reader' \in ReaderRec
    BY <1>2, <2>1, <2>2 DEF ReaderRec
  <2>4. reader'.chunk = reader.chunk /\ reader'.lowAt = reader.lowAt
    BY <1>2, <2>1 DEF ReaderRec
  <2>5. reader'.phase = ph
    BY <1>2, <2>1 DEF ReaderRec
  <2>6. reader'.late = lt
    BY <1>2, <2>1 DEF ReaderRec
  <2>. QED
    BY <2>3, <2>4, <2>5, <2>6 DEF ph, lt
<1>4. win' = IF reader.again = {}
               THEN [state |-> "buffered", chunk |-> reader.chunk, rows |-> reader.rows]
               ELSE [state |-> "idle", chunk |-> reader.chunk, rows |-> reader.again]
  BY <1>1, <1>2 DEF Buffer
<1>5. WindowType'
  BY <1>1, <1>2, <1>3, <1>4 DEF WindowOK, WindowType, ReaderRec, WinRec
<1>6. LowWritten' /\ DoneCovers' /\ WindowUnused'
  BY <1>1, <1>2, <1>3 DEF WindowOK, LowWritten, DoneCovers, WindowUnused
<1>7. CASE reader.again = {}
  <2>1. /\ win'.state = "buffered" /\ win'.chunk = reader.chunk /\ win'.rows = reader.rows
        /\ reader'.phase = "buffered"
    BY <1>3, <1>4, <1>7
  <2>2. WindowHolds'
    BY <1>1, <1>2, <1>3, <2>1 DEF WindowHolds
  <2>3. InTime'
    BY <1>1, <1>2, <1>3, <2>1 DEF InTime
  <2>. QED
    BY <1>5, <1>6, <2>2, <2>3 DEF WindowOK
<1>8. CASE reader.again # {}
  <2>1. win'.state = "idle" /\ reader'.phase = "failed"
    BY <1>3, <1>4, <1>8
  <2>2. WindowHolds' /\ InTime'
    BY <2>1 DEF WindowHolds, InTime
  <2>. QED
    BY <1>5, <1>6, <2>2 DEF WindowOK
<1>. QED
  BY <1>7, <1>8

\* Step 3.
LEMMA WriteHighStep ==
  ASSUME LogOK, WindowOK, strategy = "stream", WriteHigh, UNCHANGED strategy
  PROVE  LogGrows /\ LogOK' /\ WindowOK'
<1>. DEFINE c == reader.chunk
<1>1. /\ log' = Append(log, Entry("high", c)) /\ reader.phase = "buffered"
      /\ reader' = [reader EXCEPT !.phase = "wait", !.highAt = Len(log) + 1]
      /\ UNCHANGED <<seeded, pos, target, win, done>>
  BY DEF WriteHigh
<1>2. /\ c \in DOMAIN Chunks /\ c \in Nat /\ reader \in ReaderRec
      /\ reader.lowAt \in 1 .. Len(log) /\ log[reader.lowAt] = Entry("low", c)
      /\ \A i \in 1 .. Len(log) : log[i].kind = "low" => i <= reader.lowAt
      /\ pos \in 0 .. Len(log)
  BY <1>1 DEF WindowOK, WindowType, LowWritten, ReaderRec, LogOK
<1>3. Entry("high", c) \in LogEntry /\ Entry("high", c).kind = "high"
  BY <1>2 DEF Entry, LogEntry
<1>4. LogGrows /\ LogOK'
  BY <1>1, <1>3, WatermarkLog
<1>5. /\ Extends(log, log') /\ log'[Len(log) + 1] = Entry("high", c)
      /\ Len(log') = Len(log) + 1 /\ Len(log) \in Nat
      /\ \A i \in 1 .. Len(log) : log'[i] = log[i]
  BY <1>1, <1>3, AppendExtends DEF LogOK, Extends
<1>. DEFINE n == Len(log) + 1
<1>6. n \in Nat
  BY <1>5
<1>7. /\ reader'.phase = "wait" /\ reader'.chunk = c /\ reader'.lowAt = reader.lowAt
      /\ reader'.late = reader.late /\ reader'.highAt = n /\ reader' \in ReaderRec
  <2>. HIDE DEF n
  <2>1. reader' = [reader EXCEPT !.phase = "wait", !.highAt = n]
    BY <1>1 DEF n
  <2>. QED
    BY <1>2, <1>6, <2>1 DEF ReaderRec
<1>8. WindowType' /\ WindowUnused'
  BY <1>1, <1>7 DEF WindowOK, WindowType, WindowUnused
<1>9. LowWritten'
  <2>1. \A i \in 1 .. Len(log') : i \in 1 .. Len(log) \/ i = Len(log) + 1
    BY <1>5
  <2>2. \A i \in 1 .. Len(log') : log'[i].kind = "low" => i <= reader.lowAt
    BY <1>2, <1>3, <1>5, <2>1
  <2>3. reader.lowAt \in 1 .. Len(log') /\ log'[reader.lowAt] = Entry("low", c)
    BY <1>2, <1>5
  <2>. QED
    BY <1>2, <1>7, <2>2, <2>3 DEF LowWritten
<1>10. WindowHolds'
  <2>1. win.state # "idle" => ChunkRead(log', seeded, win.rows, c, reader.lowAt)
    BY <1>2, <1>5, ChunkReadKept DEF WindowOK, WindowHolds
  <2>2. \A k : \A i \in 0 .. Len(log) : Ver(log', k, i) = Ver(log, k, i)
    BY <1>5, ExtendedKeeps
  <2>3. win.state = "open" => \A r \in win.rows : r.ver >= Ver(log', r.key, pos)
    BY <1>2, <2>2 DEF WindowOK, WindowHolds
  <2>. QED
    BY <1>1, <1>7, <2>1, <2>3 DEF WindowOK, WindowHolds
<1>11. InTime'
  <2>. SUFFICES ASSUME ~reader.late, c \notin done
                PROVE  InTime'
    BY <1>1, <1>7 DEF InTime
  <2>1. win.state # "idle" /\ (pos >= reader.lowAt => win.state = "open")
    BY <1>1 DEF WindowOK, InTime
  <2>2. n \in 1 .. Len(log') /\ reader.lowAt < n /\ pos < n
    BY <1>2, <1>5
  <2>. QED
    BY <1>1, <1>5, <1>7, <2>1, <2>2 DEF InTime
<1>12. DoneCovers'
  <2>1. \A k : Changed(log, k) => Changed(log', k)
    BY <1>5, ExtendedKeeps
  <2>. QED
    BY <1>1, <2>1 DEF WindowOK, DoneCovers
<1>. QED
  BY <1>4, <1>8, <1>9, <1>10, <1>11, <1>12 DEF WindowOK

\* The chunk was emitted: the window is empty.
LEMMA ChunkDoneStep ==
  ASSUME LogOK, WindowOK, ChunkDone, UNCHANGED strategy
  PROVE  WindowOK'
<1>1. /\ reader.chunk \in done /\ reader' = IdleReader
      /\ UNCHANGED <<log, seeded, pos, target, win, done>>
  BY DEF ChunkDone, logVars
<1>2. win.state = "idle"
  BY <1>1 DEF WindowOK, WindowHolds
<1>3. reader'.phase = "idle" /\ reader' \in ReaderRec
  BY <1>1 DEF IdleReader, ReaderRec
<1>4. WindowType'
  BY <1>1, <1>3 DEF WindowOK, WindowType
<1>5. DoneCovers'
  BY <1>1 DEF WindowOK, DoneCovers
<1>. QED
  BY <1>1, <1>2, <1>3, <1>4, <1>5
     DEF WindowOK, WindowUnused, LowWritten, WindowHolds, InTime

\* Step 4: an event evicts the row it supersedes.
LEMMA ObserveChangeStep ==
  ASSUME LogOK, TargetOK, WindowOK, ObserveChange, UNCHANGED <<strategy, tainted>>
  PROVE  LogOK' /\ TargetOK' /\ RowsKept /\ WindowOK'
<1>. DEFINE e == log[pos + 1]
            n == pos + 1
<1>1. /\ pos < Len(log) /\ IsChange(e) /\ target' = Applied(target, e, n)
      /\ win' = OnEvent(win, e.of) /\ pos' = n
      /\ UNCHANGED <<seeded, log, reader, done>>
  BY DEF ObserveChange
<1>2. TargetOK' /\ RowsKept
  BY <1>1, AppliedOK
<1>3. n \in 1 .. Len(log) /\ n \in 0 .. Len(log) /\ pos \in Nat /\ n \in Nat
  BY <1>1 DEF LogOK
<1>4. LogOK'
  BY <1>1, <1>3 DEF LogOK
<1>5. e.kind # "low" /\ e.kind # "high"
  BY <1>1 DEF IsChange
<1>6. /\ win'.state = win.state /\ win'.chunk = win.chunk /\ win' \in WinRec
      /\ win'.rows \subseteq win.rows
      /\ \A r \in win.rows : r \notin win'.rows => r.key = e.of
      /\ win.state = "open" => \A r \in win'.rows : r.key # e.of
  <2>1. win \in WinRec
    BY DEF WindowOK, WindowType
  <2>. HIDE DEF e
  <2>. QED
    BY <1>1, <2>1 DEF OnEvent, WinRec
<1>7. WindowType' /\ WindowUnused'
  BY <1>1, <1>6 DEF WindowOK, WindowType, WindowUnused
<1>8. LowWritten'
  BY <1>1 DEF WindowOK, LowWritten
<1>9. WindowHolds'
  <2>1. ASSUME win.state # "idle"
        PROVE  ChunkRead(log, seeded, win'.rows, reader.chunk, reader.lowAt)
    <3>1. ChunkRead(log, seeded, win.rows, reader.chunk, reader.lowAt)
      BY <2>1 DEF WindowOK, WindowHolds
    <3>2. Changed(log, e.of)
      BY <1>1, <1>3 DEF Changed, ChangeTo
    <3>. QED
      BY <1>6, <3>1, <3>2 DEF ChunkRead
  <2>2. ASSUME win.state = "open", NEW r \in win'.rows
        PROVE  r.ver >= Ver(log, r.key, n)
    <3>1. r \in win.rows /\ r.key # e.of
      BY <1>6, <2>2
    <3>2. r.ver >= Ver(log, r.key, pos)
      BY <2>2, <3>1 DEF WindowOK, WindowHolds
    <3>3. ~ChangeTo(log, r.key, n)
      BY <3>1 DEF ChangeTo
    <3>4. Ver(log, r.key, n) = Ver(log, r.key, pos)
      BY <1>3, <3>3, VersionKept
    <3>. QED
      BY <3>2, <3>4
  <2>. QED
    BY <1>1, <1>6, <2>1, <2>2 DEF WindowOK, WindowHolds
<1>10. InTime'
  <2>. SUFFICES ASSUME reader.phase \in {"buffered", "wait"}, ~reader.late, reader.chunk \notin done
                PROVE  InTime'
    BY <1>1 DEF InTime
  <2>1. InTime
    BY DEF WindowOK
  <2>2. reader.lowAt \in 1 .. Len(log) /\ log[reader.lowAt].kind = "low"
    BY DEF WindowOK, LowWritten, Entry
  <2>3. reader.lowAt # n
    BY <1>5, <2>2
  <2>4. reader.phase = "wait" =>
          /\ reader.highAt \in 1 .. Len(log) /\ log[reader.highAt] = Entry("high", reader.chunk)
          /\ reader.lowAt < reader.highAt /\ pos < reader.highAt /\ reader.highAt # n
    BY <1>5, <2>1 DEF InTime, Entry
  <2>5. n >= reader.lowAt => pos >= reader.lowAt
    BY <1>3, <2>2, <2>3
  <2>6. reader.phase = "wait" => n < reader.highAt
    BY <1>3, <2>4
  <2>. QED
    BY <1>1, <1>6, <2>1, <2>4, <2>5, <2>6 DEF InTime
<1>11. DoneCovers'
  <2>1. \A k \in seeded : k \in Keys
    BY DEF LogOK
  <2>. QED
    BY <1>1, <1>2, <2>1 DEF WindowOK, DoneCovers, RowsKept
<1>. QED
  BY <1>2, <1>4, <1>7, <1>8, <1>9, <1>10, <1>11 DEF WindowOK

\* An entry of the stream that is no change leaves the target's invariant alone.
LEMMA WatermarkPassed ==
  ASSUME LogOK, TargetOK, pos < Len(log), ~IsChange(log[pos + 1]), pos' = pos + 1,
         UNCHANGED <<log, seeded, strategy, target, tainted>>
  PROVE  LogOK' /\ TargetOK' /\ RowsKept
<1>1. RowsKept
  BY RowsSame
<1>2. pos' \in 0 .. Len(log) /\ pos \in Nat
  BY DEF LogOK
<1>3. \A i \in 1 .. pos' : IsChange(log[i]) => i <= pos
  BY <1>2
<1>4. TargetOK'
  BY <1>1, <1>2, <1>3, TargetWritten DEF TargetOK
<1>. QED
  BY <1>1, <1>2, <1>4 DEF LogOK

\* The low watermark opens the window.
LEMMA ObserveLowStep ==
  ASSUME LogOK, TargetOK, WindowOK, ObserveLow, UNCHANGED <<strategy, tainted>>
  PROVE  LogOK' /\ TargetOK' /\ RowsKept /\ WindowOK'
<1>. DEFINE e == log[pos + 1]
            n == pos + 1
<1>1. /\ pos < Len(log) /\ e.kind = "low" /\ win' = OnLowWatermark(win, e.of) /\ pos' = n
      /\ UNCHANGED <<seeded, log, target, reader, done>>
  BY DEF ObserveLow
<1>2. ~IsChange(e)
  BY <1>1 DEF IsChange
<1>3. LogOK' /\ TargetOK' /\ RowsKept
  BY <1>1, <1>2, WatermarkPassed
<1>4. n \in 1 .. Len(log) /\ n \in 0 .. Len(log) /\ pos \in Nat /\ n \in Nat /\ Len(log) \in Nat
  BY <1>1 DEF LogOK
<1>5. win \in WinRec
  BY DEF WindowOK, WindowType
<1>6. /\ win' \in WinRec
      /\ win'.rows = win.rows /\ win'.chunk = win.chunk
      /\ win.state = "idle" <=> win'.state = "idle"
      /\ win.state = "open" => win'.state = "open"
      /\ win.state # "idle" /\ win.chunk = e.of => win'.state = "open"
  <2>. HIDE DEF e
  <2>. QED
    BY <1>1, <1>5 DEF OnLowWatermark, WinRec
<1>7. WindowType' /\ WindowUnused' /\ LowWritten' /\ DoneCovers'
  BY <1>1, <1>6 DEF WindowOK, WindowType, WindowUnused, LowWritten, DoneCovers
<1>8. WindowHolds'
  <2>1. ASSUME win'.state = "open", NEW r \in win.rows
        PROVE  r.ver >= Ver(log, r.key, n)
    <3>1. reader.phase # "idle" /\ r.ver >= Ver(log, r.key, reader.lowAt)
      BY <1>6, <2>1 DEF WindowOK, WindowHolds, ChunkRead
    <3>2. reader.lowAt \in Nat /\ n <= reader.lowAt
      BY <1>1, <1>4, <3>1 DEF WindowOK, LowWritten
    <3>3. Ver(log, r.key, n) <= Ver(log, r.key, reader.lowAt)
      BY <1>4, <3>2, VersionMonotone
    <3>4. r.ver \in Nat /\ Ver(log, r.key, n) \in Nat /\ Ver(log, r.key, reader.lowAt) \in Nat
      BY <1>4, <1>5, <3>2, VersionIs DEF SnapRow, WinRec
    <3>. QED
      BY <3>1, <3>3, <3>4
  <2>. QED
    BY <1>1, <1>6, <2>1 DEF WindowOK, WindowHolds
<1>9. InTime'
  <2>. SUFFICES ASSUME reader.phase \in {"buffered", "wait"}, ~reader.late, reader.chunk \notin done
                PROVE  InTime'
    BY <1>1 DEF InTime
  <2>1. InTime
    BY DEF WindowOK
  <2>2. win.state # "idle" /\ (pos >= reader.lowAt => win.state = "open")
    BY <2>1 DEF InTime
  <2>3. reader.lowAt \in 1 .. Len(log) /\ log[reader.lowAt] = Entry("low", reader.chunk)
        /\ win.chunk = reader.chunk
    BY <2>2 DEF WindowOK, LowWritten, WindowHolds
  <2>4. n >= reader.lowAt => win'.state = "open"
    <3>1. CASE n = reader.lowAt
      <4>1. e.of = reader.chunk
        BY <2>3, <3>1 DEF Entry
      <4>. QED
        BY <1>6, <2>2, <2>3, <4>1
    <3>2. CASE n # reader.lowAt
      BY <1>4, <1>6, <2>2, <2>3, <3>2
    <3>. QED
      BY <3>1, <3>2
  <2>5. reader.phase = "wait" =>
          /\ reader.highAt \in 1 .. Len(log) /\ log[reader.highAt] = Entry("high", reader.chunk)
          /\ reader.lowAt < reader.highAt /\ pos < reader.highAt /\ reader.highAt # n
    BY <1>1, <2>1 DEF InTime, Entry
  <2>6. reader.phase = "wait" => n < reader.highAt
    BY <1>4, <2>5
  <2>. QED
    BY <1>1, <1>6, <2>2, <2>4, <2>5, <2>6 DEF InTime
<1>. QED
  BY <1>3, <1>7, <1>8, <1>9 DEF WindowOK

\* The rows of a window that closes are as fresh as the high watermark.
LEMMA EmittedOK ==
  ASSUME LogOK, TargetOK, WindowOK, win.state = "open", pos < Len(log), ~IsChange(log[pos + 1]),
         target' = EmittedOnto(target, win.rows, pos + 1), pos' = pos + 1,
         UNCHANGED <<log, seeded, strategy, tainted>>
  PROVE  /\ LogOK' /\ TargetOK' /\ RowsKept
         /\ \A r \in win.rows : target'[r.key] # NoRow
<1>. DEFINE n == pos + 1
<1>1. n \in 0 .. Len(log) /\ pos \in Nat /\ n \in Nat /\ log \in Seq(LogEntry)
  BY DEF LogOK
<1>2. \A k : ~ChangeTo(log, k, n)
  BY DEF ChangeTo
<1>3. ASSUME NEW r \in win.rows
      PROVE  r \in SnapRow /\ ReadOnce(log, seeded, r) /\ r.ver >= Ver(log, r.key, n)
  <2>1. r \in SnapRow
    BY DEF WindowOK, WindowType, WinRec
  <2>2. ReadOnce(log, seeded, r) /\ r.ver >= Ver(log, r.key, pos)
    BY DEF WindowOK, WindowHolds, ChunkRead
  <2>3. Ver(log, r.key, n) = Ver(log, r.key, pos)
    BY <1>1, <1>2, VersionKept
  <2>. QED
    BY <2>1, <2>2, <2>3
<1>. DEFINE row(k) == CHOOSE r \in win.rows : r.key = k
            new(k) == IF \E r \in win.rows : r.key = k
                        THEN FencedUpsert(target[k], n, row(k).ver) ELSE target[k]
<1>4. target' = [k \in Keys |-> new(k)]
  BY DEF EmittedOnto
<1>5. ASSUME NEW k \in Keys
      PROVE  /\ new(k) \in Row(Img) \cup {NoRow}
             /\ RowOK(log, seeded, k, new(k))
             /\ Fresh(log, seeded, k, target[k]) => Fresh(log, seeded, k, new(k))
             /\ target[k] # NoRow => new(k) # NoRow /\ new(k).lsn >= target[k].lsn
             /\ (\E r \in win.rows : r.key = k) => new(k) # NoRow
  <2>1. target[k] \in Row(Img) \cup {NoRow} /\ RowOK(log, seeded, k, target[k])
    BY DEF TargetOK
  <2>2. CASE \E r \in win.rows : r.key = k
    <3>1. row(k) \in win.rows /\ row(k).key = k
      BY <2>2
    <3>2. new(k) = FencedUpsert(target[k], n, row(k).ver)
      BY <2>2
    <3>. HIDE DEF row, new
    <3>3. row(k) \in SnapRow /\ ReadOnce(log, seeded, row(k)) /\ row(k).ver >= Ver(log, k, n)
      BY <1>3, <3>1
    <3>4. row(k).ver \in Nat /\ row(k) = [key |-> k, ver |-> row(k).ver]
      BY <3>1, <3>3 DEF SnapRow
    <3>5. ReadOnce(log, seeded, [key |-> k, ver |-> row(k).ver])
      BY <3>3, <3>4
    <3>. QED
      BY <1>1, <2>1, <3>2, <3>3, <3>4, <3>5, UpsertFresh
  <2>3. CASE ~\E r \in win.rows : r.key = k
    <3>1. new(k) = target[k]
      BY <2>3
    <3>2. target[k] # NoRow => target[k].lsn \in Nat
      BY <2>1 DEF Row
    <3>. QED
      BY <2>1, <2>3, <3>1, <3>2
  <2>. QED
    BY <2>2, <2>3
<1>. HIDE DEF new
<1>6. target' \in [Keys -> Row(Img) \cup {NoRow}]
  BY <1>4, <1>5
<1>7. RowsKept
  BY <1>4, <1>5 DEF RowsKept
<1>8. \A k \in Keys : RowOK(log, seeded, k, target'[k])
  BY <1>4, <1>5
<1>9. \A k \in Keys \ tainted : Fresh(log, seeded, k, target'[k])
  BY <1>4, <1>5 DEF TargetOK
<1>10. \A i \in 1 .. pos' : IsChange(log[i]) => i <= pos
  BY <1>1
<1>11. TargetOK'
  BY <1>1, <1>6, <1>7, <1>8, <1>9, <1>10, TargetWritten
<1>12. LogOK'
  BY <1>1 DEF LogOK
<1>13. \A r \in win.rows : target'[r.key] # NoRow
  BY <1>3, <1>4, <1>5 DEF SnapRow
<1>. QED
  BY <1>7, <1>11, <1>12, <1>13

\* Step 5: the high watermark closes the window and its rows are applied.
LEMMA ObserveHighStep ==
  ASSUME LogOK, TargetOK, WindowOK, ObserveHigh, UNCHANGED <<strategy, tainted>>
  PROVE  LogOK' /\ TargetOK' /\ RowsKept /\ WindowOK'
<1>. DEFINE e == log[pos + 1]
            n == pos + 1
<1>1. /\ pos < Len(log) /\ e.kind = "high" /\ pos' = n
      /\ target' = EmittedOnto(target, Emitted(win, e.of), n)
      /\ done' = IF Closes(win, e.of) THEN done \cup {e.of} ELSE done
      /\ win' = OnHighWatermark(win, e.of)
      /\ UNCHANGED <<seeded, log, reader>>
  BY DEF ObserveHigh
<1>2. ~IsChange(e)
  BY <1>1 DEF IsChange
<1>3. n \in 1 .. Len(log) /\ n \in 0 .. Len(log) /\ pos \in Nat /\ n \in Nat /\ Len(log) \in Nat
  BY <1>1 DEF LogOK
<1>4. CASE Closes(win, e.of)
  <2>1. /\ win.state = "open" /\ win.chunk = e.of /\ Emitted(win, e.of) = win.rows
        /\ win' = NewWindow /\ done' = done \cup {e.of}
    BY <1>1, <1>4 DEF Closes, Emitted, OnHighWatermark
  <2>2. /\ LogOK' /\ TargetOK' /\ RowsKept
        /\ \A r \in win.rows : target'[r.key] # NoRow
    BY <1>1, <1>2, <2>1, EmittedOK
  <2>3. /\ reader.phase \in {"buffered", "wait"} /\ reader.chunk = e.of
        /\ ChunkRead(log, seeded, win.rows, e.of, reader.lowAt)
    BY <2>1 DEF WindowOK, WindowHolds
  <2>4. e.of \in DOMAIN Chunks
    BY <2>3 DEF WindowOK, LowWritten
  <2>5. win'.state = "idle" /\ win' \in WinRec
    BY <2>1 DEF NewWindow, WinRec
  <2>6. WindowType' /\ WindowUnused' /\ LowWritten'
    BY <1>1, <2>1, <2>4, <2>5 DEF WindowOK, WindowType, WindowUnused, LowWritten
  <2>7. WindowHolds' /\ InTime'
    BY <1>1, <2>1, <2>3, <2>5 DEF WindowHolds, InTime
  <2>8. DoneCovers'
    <3>1. \A k \in seeded : k \in Keys
      BY DEF LogOK
    <3>2. \A k \in Chunks[e.of] \cap seeded : target'[k] # NoRow \/ Changed(log, k)
      BY <2>2, <2>3 DEF ChunkRead
    <3>3. \A c \in done : \A k \in Chunks[c] \cap seeded : target'[k] # NoRow \/ Changed(log, k)
      BY <2>2, <3>1 DEF WindowOK, DoneCovers, RowsKept
    <3>. QED
      BY <1>1, <2>1, <3>2, <3>3 DEF DoneCovers
  <2>. QED
    BY <2>2, <2>6, <2>7, <2>8 DEF WindowOK
<1>5. CASE ~Closes(win, e.of)
  <2>1. Emitted(win, e.of) = {} /\ win' = win /\ done' = done
    BY <1>1, <1>5 DEF Emitted, OnHighWatermark
  <2>2. target' = target
    <3>1. target \in [Keys -> Row(Img) \cup {NoRow}]
      BY DEF TargetOK
    <3>2. target' = [k \in Keys |-> target[k]]
      BY <1>1, <2>1 DEF EmittedOnto
    <3>. QED
      BY <3>1, <3>2
  <2>3. LogOK' /\ TargetOK' /\ RowsKept
    BY <1>1, <1>2, <2>2, WatermarkPassed
  <2>4. WindowType' /\ WindowUnused' /\ LowWritten' /\ DoneCovers'
    BY <1>1, <2>1, <2>2 DEF WindowOK, WindowType, WindowUnused, LowWritten, DoneCovers
  <2>5. WindowHolds'
    <3>1. \A k : ~ChangeTo(log, k, n)
      BY <1>2 DEF ChangeTo
    <3>2. \A k : Ver(log, k, n) = Ver(log, k, pos)
      BY <1>3, <3>1, VersionKept
    <3>. QED
      BY <1>1, <2>1, <3>2 DEF WindowOK, WindowHolds
  <2>6. InTime'
    <3>. SUFFICES ASSUME reader.phase \in {"buffered", "wait"}, ~reader.late, reader.chunk \notin done
                  PROVE  InTime'
      BY <1>1, <2>1 DEF InTime
    <3>1. InTime
      BY DEF WindowOK
    <3>2. win.state # "idle" /\ (pos >= reader.lowAt => win.state = "open")
      BY <3>1 DEF InTime
    <3>3. reader.lowAt \in 1 .. Len(log) /\ log[reader.lowAt].kind = "low" /\ win.chunk = reader.chunk
      BY <3>2 DEF WindowOK, LowWritten, WindowHolds, Entry
    <3>4. reader.lowAt # n
      BY <1>1, <3>3
    <3>5. reader.phase = "wait" =>
            /\ reader.highAt \in 1 .. Len(log) /\ log[reader.highAt] = Entry("high", reader.chunk)
            /\ reader.lowAt < reader.highAt /\ pos < reader.highAt
      BY <3>1 DEF InTime
    <3>6. reader.phase = "wait" => reader.highAt # n
      <4>. SUFFICES ASSUME reader.phase = "wait", reader.highAt = n
                    PROVE  FALSE
        OBVIOUS
      <4>1. e.of = reader.chunk
        BY <3>5 DEF Entry
      <4>2. win.state = "open"
        BY <1>3, <3>2, <3>3, <3>5
      <4>. QED
        BY <1>5, <3>3, <4>1, <4>2 DEF Closes
    <3>7. n >= reader.lowAt => pos >= reader.lowAt
      BY <1>3, <3>3, <3>4
    <3>8. reader.phase = "wait" => n < reader.highAt
      BY <1>3, <3>5, <3>6
    <3>. QED
      BY <1>1, <2>1, <3>2, <3>5, <3>7, <3>8 DEF InTime
  <2>. QED
    BY <2>3, <2>4, <2>5, <2>6 DEF WindowOK
<1>. QED
  BY <1>4, <1>5

\* A restart forgets the window and replays the stream.
LEMMA RestartStep ==
  ASSUME LogOK, TargetOK, WindowOK, RestartConsumer, UNCHANGED <<strategy, tainted>>
  PROVE  LogOK' /\ TargetOK' /\ RowsKept /\ WindowOK'
<1>1. /\ pos' \in 0 .. pos /\ win' = NewWindow /\ reader' = IdleReader
      /\ UNCHANGED <<seeded, log, target, done>>
  BY DEF RestartConsumer
<1>2. RowsKept
  BY <1>1, RowsSame
<1>3. pos' \in 0 .. Len(log) /\ pos \in Nat
  BY <1>1 DEF LogOK
<1>4. \A i \in 1 .. pos' : i <= pos
  BY <1>1, <1>3
<1>5. TargetOK'
  BY <1>1, <1>2, <1>3, <1>4, TargetWritten DEF TargetOK
<1>6. LogOK'
  BY <1>1, <1>3 DEF LogOK
<1>7. WindowOK'
  BY <1>1, WindowReset
<1>. QED
  BY <1>2, <1>5, <1>6, <1>7

\* Every step of the stream strategy preserves the invariant.
LEMMA WindowStep ==
  ASSUME SnapshotInv, strategy = "stream", WindowNext,
         UNCHANGED <<writerVars, loaderVars, strategy>>
  PROVE  SnapshotInv'
<1>. USE DEF SnapshotInv
<1>1. UNCHANGED tainted
  BY DEF loaderVars
<1>2. ASSUME LogGrows, LogOK', TargetOK', RowsKept, WindowOK'
      PROVE  SnapshotInv'
  <2>1. WriterOK'
    BY <1>2, WriterUntouched
  <2>2. LoaderOK'
    BY <1>2, LoaderUntouched DEF writerVars
  <2>. QED
    BY <1>2, <2>1, <2>2
<1>3. ASSUME WindowOK', UNCHANGED <<log, seeded, pos, target>>
      PROVE  SnapshotInv'
  <2>1. LogGrows
    BY <1>3, LogSame
  <2>2. LogOK'
    BY <1>3 DEF LogOK
  <2>3. TargetOK' /\ RowsKept
    BY <1>1, <1>3, <2>1, TargetUntouched, RowsSame
  <2>. QED
    BY <1>2, <1>3, <2>1, <2>2, <2>3
<1>4. ASSUME LogOK', TargetOK', RowsKept, WindowOK', UNCHANGED <<log, seeded>>
      PROVE  SnapshotInv'
  BY <1>2, <1>4, LogSame
<1>5. ASSUME LogGrows, LogOK', WindowOK', UNCHANGED <<pos, target>>
      PROVE  SnapshotInv'
  BY <1>1, <1>2, <1>5, TargetUntouched, RowsSame
<1>6. CASE WriteLow
  BY <1>5, <1>6, WriteLowStep DEF WriteLow
<1>7. CASE ReadChunk
  BY <1>3, <1>7, ReadChunkStep DEF ReadChunk, logVars
<1>8. CASE BufferChunk
  BY <1>3, <1>8, BufferChunkStep DEF BufferChunk, logVars
<1>9. CASE WriteHigh
  BY <1>5, <1>9, WriteHighStep DEF WriteHigh
<1>10. CASE ChunkDone
  BY <1>3, <1>10, ChunkDoneStep DEF ChunkDone, logVars
<1>11. CASE AbortChunk
  BY <1>3, <1>11, WindowReset DEF AbortChunk, Abort, logVars
<1>12. CASE ObserveChange
  BY <1>1, <1>4, <1>12, ObserveChangeStep DEF ObserveChange
<1>13. CASE ObserveLow
  BY <1>1, <1>4, <1>13, ObserveLowStep DEF ObserveLow
<1>14. CASE ObserveHigh
  BY <1>1, <1>4, <1>14, ObserveHighStep DEF ObserveHigh
<1>15. CASE RestartConsumer
  BY <1>1, <1>4, <1>15, RestartStep DEF RestartConsumer
<1>. QED
  BY <1>6, <1>7, <1>8, <1>9, <1>10, <1>11, <1>12, <1>13, <1>14, <1>15 DEF WindowNext

-----------------------------------------------------------------------------
(***************************************************************************)
(* The steps of the extract.                                               *)
(***************************************************************************)

\* The files are numbered up to the number of keys.
LEMMA IndexesTyped ==
  /\ Cardinality(Keys) \in Nat /\ IsFiniteSet(Keys)
  /\ Indexes = 0 .. Cardinality(Keys)
  /\ \A c : /\ Cardinality({k \in Keys : k <= c}) \in Nat
            /\ Cardinality({k \in Keys : k <= c}) <= Cardinality(Keys)
<1>1. IsFiniteSet(Keys)
  BY KeysAssumption
<1>2. \A c : {k \in Keys : k <= c} \subseteq Keys
  OBVIOUS
<1>. QED
  BY <1>1, <1>2, FS_CardinalityType, FS_Subset DEF Indexes

\* A scan that goes on to a greater key has one more behind it.
LEMMA ScannedGrows ==
  ASSUME NEW c \in Nat, NEW k \in Keys, k > c
  PROVE  Cardinality({i \in Keys : i <= c}) + 1 <= Cardinality({i \in Keys : i <= k})
<1>. DEFINE S == {i \in Keys : i <= c}
            T == {i \in Keys : i <= k}
<1>1. Keys \subseteq Nat /\ IsFiniteSet(Keys)
  BY KeysAssumption
<1>2. IsFiniteSet(S) /\ IsFiniteSet(T) /\ k \notin S
  <2>1. S \in SUBSET Keys /\ T \in SUBSET Keys
    OBVIOUS
  <2>2. IsFiniteSet(S) /\ IsFiniteSet(T)
    BY <1>1, <2>1, FS_Subset
  <2>3. k \notin S
    BY <1>1
  <2>. QED
    BY <2>2, <2>3
<1>3. S \cup {k} \subseteq T
  <2>1. k \in Nat
    BY <1>1
  <2>2. ASSUME NEW i \in S
        PROVE  i \in T
    <3>1. i \in Nat /\ i \in Keys /\ i <= c
      BY <1>1
    <3>. QED
      BY <2>1, <3>1
  <2>3. k \in T
    BY <2>1
  <2>. QED
    BY <2>2, <2>3
<1>. HIDE DEF S, T
<1>4. IsFiniteSet(S \cup {k}) /\ Cardinality(S \cup {k}) = Cardinality(S) + 1
  BY <1>2, FS_AddElement
<1>5. Cardinality(S \cup {k}) <= Cardinality(T)
  BY <1>2, <1>3, FS_Subset
<1>. QED
  BY <1>4, <1>5 DEF S, T

\* The writer's parts may be listed in a manifest.
LEMMA WriterPartsOK ==
  ASSUME LogOK, WriterOK, writer.phase # "off"
  PROVE  \A i \in 1 .. Len(writer.parts) : PartOK(log, seeded, writer.parts[i])
<1>. TAKE i \in 1 .. Len(writer.parts)
<1>1. PartPlaced(i) /\ WriterPlaced
  BY DEF WriterOK, WriterHolds
<1>2. file[i - 1] \in Seq(SnapRow) /\ writer.parts[i].lsn = writer.lsn /\ writer.lsn <= Len(log)
  BY <1>1 DEF PartPlaced, WriterPlaced
<1>3. writer.parts[i].sum = NoFile \/ writer.parts[i].sum = file[i - 1]
  BY <1>1 DEF PartPlaced
<1>4. \A j \in DOMAIN file[i - 1] : ReadAfter(log, seeded, file[i - 1][j], writer.lsn)
  BY <1>1, <1>2 DEF PartPlaced
<1>. QED
  BY <1>2, <1>3, <1>4 DEF PartOK

\* A manifest that is not complete answers for its digests only.
LEMMA PartialManifest ==
  ASSUME NEW w \in WriterRec, manifest' = BuildManifest(w, FALSE), UNCHANGED <<log, seeded>>,
         w.lsn <= Len(log),
         \A i \in 1 .. Len(w.parts) : PartOK(log, seeded, w.parts[i])
  PROVE  /\ ManifestOK'
         /\ manifest' \in ManifestRec
<1>1. /\ manifest'.lsn = w.lsn /\ manifest'.parts = w.parts /\ ~manifest'.complete
      /\ manifest' \in ManifestRec
  BY DEF BuildManifest, WriterRec, ManifestRec
<1>. QED
  BY <1>1 DEF ManifestOK

\* The writer's current part is its last.
LEMMA CurIs ==
  ASSUME WriterOK, writer.phase # "off"
  PROVE  /\ Len(writer.parts) \in Nat /\ Len(writer.parts) > 0
         /\ CurIndex = Len(writer.parts) - 1
         /\ CurIndex \in Indexes
         /\ CurRows = file[Len(writer.parts) - 1]
<1>1. Len(writer.parts) \in Nat /\ Len(writer.parts) > 0
  BY DEF WriterOK, WriterType, WriterRec, WriterHolds, WriterPlaced
<1>2. PartPlaced(Len(writer.parts))
  BY <1>1 DEF WriterOK, WriterHolds
<1>3. writer.parts[Len(writer.parts)].index = Len(writer.parts) - 1
      /\ writer.parts[Len(writer.parts)].index \in Indexes
  BY <1>2 DEF PartPlaced
<1>4. CurIndex = Len(writer.parts) - 1
  BY <1>3 DEF CurIndex, Last
<1>. QED
  BY <1>1, <1>3, <1>4 DEF CurRows

\* NewPartWriter.
LEMMA NewPartWriterStep ==
  ASSUME LogOK, WriterOK, NewPartWriter
  PROVE  WriterOK' /\ UNCHANGED object
<1>. DEFINE p == Part(0, Len(log), "writing", NoFile)
<1>1. /\ writer' = [phase |-> "created", lsn |-> Len(log), cursor |-> 0, rows |-> 0,
                    parts |-> <<p>>]
      /\ file' = [file EXCEPT ![0] = <<>>]
      /\ UNCHANGED <<log, seeded, pos, target, object, manifest>>
  BY DEF NewPartWriter, logVars
<1>2. Len(log) \in Nat /\ p \in PartRec /\ p.index = 0 /\ p.lsn = Len(log)
      /\ p.state = "writing" /\ p.sum = NoFile
  BY IndexesTyped DEF LogOK, Part, PartRec, File
<1>. HIDE DEF p
<1>3. /\ writer'.phase = "created" /\ writer'.lsn = Len(log) /\ writer'.cursor = 0
      /\ writer'.parts = <<p>> /\ writer' \in WriterRec
  BY <1>1, <1>2 DEF WriterRec
<1>4. Len(writer'.parts) = 1 /\ writer'.parts[1] = p
  BY <1>3
<1>5. 0 \in Indexes
  BY IndexesTyped
<1>6. file' \in [Indexes -> File] /\ file'[0] = <<>>
  <2>1. <<>> \in File
    BY DEF File
  <2>. QED
    BY <1>1, <1>5, <2>1 DEF WriterOK, WriterType
<1>7. WriterType'
  BY <1>1, <1>3, <1>6 DEF WriterOK, WriterType
<1>8. ManifestOK'
  BY <1>1 DEF WriterOK, ManifestOK
<1>9. Cardinality({k \in Keys : k <= 0}) \in Nat
  BY IndexesTyped
<1>10. WriterPlaced'
  BY <1>1, <1>2, <1>3, <1>4, <1>9 DEF WriterPlaced, Scanned
<1>11. PartPlaced(1)'
  <2>1. file'[1 - 1] = <<>> /\ <<>> \in Seq(SnapRow) /\ Len(<<>>) = 0
    BY <1>6
  <2>2. MaxPartRows \in Nat /\ 0 < MaxPartRows
    BY MaxPartRowsAssumption
  <2>. QED
    BY <1>2, <1>3, <1>4, <1>5, <2>1, <2>2 DEF PartPlaced
<1>12. NotTwice(file', 1)
  BY <1>6 DEF NotTwice
<1>13. ScanComplete'
  <2>1. \A k \in Keys : ~(k <= 0)
    BY KeysAssumption
  <2>. QED
    BY <1>3, <2>1 DEF ScanComplete
<1>14. WriterHolds'
  BY <1>4, <1>10, <1>11, <1>12, <1>13 DEF WriterHolds
<1>. QED
  BY <1>1, <1>7, <1>8, <1>14 DEF WriterOK

\* NewPartWriter's first manifest.
LEMMA WriteFirstManifestStep ==
  ASSUME LogOK, WriterOK, WriteFirstManifest
  PROVE  WriterOK' /\ UNCHANGED object
<1>1. /\ writer.phase = "created" /\ manifest' = BuildManifest(writer, FALSE)
      /\ writer' = [writer EXCEPT !.phase = "scan"]
      /\ UNCHANGED <<log, seeded, pos, target, file, object>>
  BY DEF WriteFirstManifest, logVars
<1>2. /\ writer'.phase = "scan" /\ writer'.lsn = writer.lsn /\ writer'.cursor = writer.cursor
      /\ writer'.parts = writer.parts /\ writer' \in WriterRec /\ writer \in WriterRec
  BY <1>1 DEF WriterOK, WriterType, WriterRec
<1>3. WriterPlaced /\ (\A i \in 1 .. Len(writer.parts) : PartPlaced(i))
      /\ NotTwice(file, Len(writer.parts)) /\ ScanComplete
  BY <1>1 DEF WriterOK, WriterHolds
<1>4. ManifestOK' /\ manifest' \in ManifestRec
  BY <1>1, <1>2, <1>3, WriterPartsOK, PartialManifest DEF WriterPlaced
<1>5. WriterType'
  BY <1>1, <1>2, <1>4 DEF WriterOK, WriterType
<1>6. WriterPlaced'
  BY <1>1, <1>2, <1>3 DEF WriterPlaced, Scanned
<1>7. ASSUME NEW i \in 1 .. Len(writer.parts)
      PROVE  PartPlaced(i)'
  BY <1>1, <1>2, <1>3 DEF PartPlaced
<1>8. ScanComplete'
  BY <1>1, <1>2, <1>3 DEF ScanComplete
<1>9. WriterHolds'
  BY <1>1, <1>2, <1>3, <1>6, <1>7, <1>8 DEF WriterHolds
<1>. QED
  BY <1>1, <1>4, <1>5, <1>9 DEF WriterOK

\* The extractor gives up.
LEMMA ExtractorDiesStep ==
  ASSUME LogOK, WriterOK, ExtractorDies
  PROVE  WriterOK' /\ UNCHANGED object
<1>1. writer' = OffWriter /\ UNCHANGED <<log, seeded, pos, target, file, object, manifest>>
  BY DEF ExtractorDies, logVars
<1>2. writer' \in WriterRec /\ writer'.phase = "off"
  BY <1>1 DEF OffWriter, WriterRec
<1>. QED
  BY <1>1, <1>2 DEF WriterOK, WriterType, WriterHolds, ManifestOK

\* OnSeal: the file that is copied has rows that were read.
LEMMA OnSealStep ==
  ASSUME LogOK, WriterOK, ImportsRead, OnSeal, UNCHANGED staging
  PROVE  WriterOK' /\ ImportsRead'
<1>. DEFINE N == Len(writer.parts)
            ph == IF writer.phase = "announceRoll" THEN "open" ELSE "finish"
<1>1. /\ writer.phase \in {"announceRoll", "announceClose"}
      /\ object' = [object EXCEPT ![CurIndex] = CurRows]
      /\ writer' = [writer EXCEPT !.phase = ph]
      /\ UNCHANGED <<log, seeded, pos, target, file, manifest>>
  BY DEF OnSeal, logVars
<1>2. \/ writer.phase = "announceRoll" /\ ph = "open"
      \/ writer.phase = "announceClose" /\ ph = "finish"
  <2>1. writer.phase = "announceRoll" \/ writer.phase = "announceClose"
    BY <1>1
  <2>2. writer.phase = "announceRoll" => ph = "open"
    OBVIOUS
  <2>3. writer.phase = "announceClose" => ph = "finish"
    OBVIOUS
  <2>. QED
    BY <2>1, <2>2, <2>3
<1>. HIDE DEF ph
<1>3. /\ writer'.phase = ph /\ writer'.lsn = writer.lsn /\ writer'.cursor = writer.cursor
      /\ writer'.parts = writer.parts /\ writer' \in WriterRec /\ writer \in WriterRec
  BY <1>1, <1>2 DEF WriterOK, WriterType, WriterRec
<1>4. WriterPlaced /\ (\A i \in 1 .. N : PartPlaced(i)) /\ NotTwice(file, N) /\ ScanComplete
  BY <1>1 DEF WriterOK, WriterHolds
<1>5. N \in Nat /\ N > 0 /\ CurIndex \in Indexes /\ CurRows = file[N - 1]
  BY <1>1, CurIs
<1>6. CurRows \in Seq(SnapRow) /\ \A j \in DOMAIN CurRows : ReadOnce(log, seeded, CurRows[j])
  <2>1. PartPlaced(N)
    BY <1>4, <1>5
  <2>. QED
    BY <1>5, <2>1 DEF PartPlaced, ReadAfter
<1>7. object' \in [Indexes -> File]
  BY <1>1, <1>6 DEF WriterOK, WriterType, File
<1>8. WriterType'
  BY <1>1, <1>3, <1>7 DEF WriterOK, WriterType
<1>9. WriterPlaced'
  BY <1>1, <1>2, <1>3, <1>4 DEF WriterPlaced, Scanned
<1>10. ASSUME NEW i \in 1 .. N
       PROVE  PartPlaced(i)'
  BY <1>1, <1>2, <1>3, <1>4 DEF PartPlaced
<1>11. ScanComplete'
  BY <1>1, <1>2, <1>3, <1>4 DEF ScanComplete
<1>12. WriterHolds'
  BY <1>1, <1>3, <1>4, <1>9, <1>10, <1>11 DEF WriterHolds
<1>13. ManifestOK'
  BY <1>1 DEF WriterOK, ManifestOK
<1>14. ImportsRead'
  <2>1. ASSUME NEW i \in Indexes, object'[i] # NoFile
        PROVE  \A j \in DOMAIN object'[i] : ReadOnce(log, seeded, object'[i][j])
    <3>1. object'[i] = IF i = CurIndex THEN CurRows ELSE object[i]
      BY <1>1 DEF WriterOK, WriterType
    <3>. QED
      BY <1>6, <2>1, <3>1 DEF ImportsRead
  <2>. QED
    BY <1>1, <2>1 DEF ImportsRead
<1>. QED
  BY <1>8, <1>12, <1>13, <1>14 DEF WriterOK

\* The next row of the scan is the least live key beyond the cursor, read after
\* the extract began.
LEMMA NextRow ==
  ASSUME LogOK, WriterOK, strategy = "file", writer.phase # "off", Unscanned # {},
         NEW k, k = Min(Unscanned)
  PROVE  /\ k \in Keys /\ k \in Live /\ k \in Nat /\ k > writer.cursor
         /\ \A u \in Keys : u > writer.cursor /\ u < k => u \notin Live
         /\ Current(k) \in SnapRow /\ Current(k).key = k
         /\ ReadAfter(log, seeded, Current(k), writer.lsn)
<1>1. Unscanned \in SUBSET Keys /\ Keys \subseteq Nat
  BY KeysAssumption DEF Unscanned, Live
<1>2. k \in Unscanned /\ \A u \in Unscanned : k <= u
  <2>1. \E x \in Unscanned : \A y \in Unscanned : x <= y
    BY <1>1, LeastNat
  <2>. QED
    BY <2>1 DEF Min
<1>3. k \in Keys /\ k \in Live /\ k \in Nat /\ k > writer.cursor
  BY <1>1, <1>2 DEF Unscanned, Live
<1>4. ASSUME NEW u \in Keys, u > writer.cursor, u < k
      PROVE  u \notin Live
  <2>. SUFFICES ASSUME u \in Live
                PROVE  FALSE
    OBVIOUS
  <2>1. u \in Unscanned
    BY <1>4 DEF Unscanned
  <2>2. u \in Nat /\ k <= u
    BY <1>1, <1>2, <2>1
  <2>. QED
    BY <1>3, <1>4, <2>2
<1>5. /\ Current(k) \in SnapRow /\ Current(k).key = k
      /\ ReadOnce(log, seeded, Current(k))
      /\ LiveIn(log, seeded, k, Len(log))
      /\ \A n \in 0 .. Len(log) : Current(k).ver >= Ver(log, k, n)
  BY <1>3, CurrentRead
<1>6. Len(log) \in Nat /\ Len(log) \in 0 .. Len(log) /\ writer.lsn \in 0 .. Len(log)
  BY DEF LogOK, WriterOK, WriterType, WriterRec, WriterHolds, WriterPlaced
<1>7. \A i \in 1 .. Len(log) : log[i] # Entry("delete", k)
  BY <1>5, <1>6, LiveNotDeleted
<1>8. \A i \in 1 .. writer.lsn : i \in 1 .. Len(log)
  BY <1>6
<1>9. ReadAfter(log, seeded, Current(k), writer.lsn)
  BY <1>5, <1>6, <1>7, <1>8 DEF ReadAfter
<1>. QED
  BY <1>3, <1>4, <1>5, <1>9

\* The files once that row is appended to the open part.
LEMMA RowAppended ==
  ASSUME LogOK, WriterOK, strategy = "file", writer.phase = "scan", Unscanned # {},
         NEW k, k = Min(Unscanned),
         NEW N, N = Len(writer.parts),
         NEW rows, rows = Append(file[N - 1], Current(k)),
         file' = [file EXCEPT ![N - 1] = rows]
  PROVE  /\ file' \in [Indexes -> File]
         /\ rows \in Seq(SnapRow) /\ Len(rows) = Len(file[N - 1]) + 1 /\ Len(rows) <= MaxPartRows
         /\ \A j \in 1 .. Len(rows) : ReadAfter(log, seeded, rows[j], writer.lsn) /\ rows[j].key <= k
         /\ file'[N - 1] = rows
         /\ \A i \in 1 .. N : i # N => file'[i - 1] = file[i - 1]
         /\ NotTwice(file', N)
         /\ \A u \in Keys : Lasting(log, seeded, u, writer.lsn) /\ u <= k => Holds(file', N, u)
<1>. DEFINE f == file[N - 1]
            r == Current(k)
<1>1. /\ k \in Keys /\ k \in Live /\ k \in Nat /\ k > writer.cursor
      /\ \A u \in Keys : u > writer.cursor /\ u < k => u \notin Live
      /\ r \in SnapRow /\ r.key = k
      /\ ReadAfter(log, seeded, r, writer.lsn)
  BY NextRow
<1>. HIDE DEF r
<1>2. N \in Nat /\ N > 0 /\ N - 1 \in Indexes
  BY CurIs
<1>3. (\A i \in 1 .. N : PartPlaced(i)) /\ NotTwice(file, N) /\ ScanComplete /\ WriterPlaced
  BY DEF WriterOK, WriterHolds
<1>4. writer.cursor \in Nat /\ writer.lsn \in Nat /\ file \in [Indexes -> File]
  BY DEF WriterOK, WriterType, WriterRec
<1>5. f \in Seq(SnapRow) /\ Len(f) < MaxPartRows
  <2>1. PartPlaced(N)
    BY <1>2, <1>3
  <2>. QED
    BY <2>1 DEF PartPlaced
<1>6. \A i \in 1 .. N : /\ file[i - 1] \in Seq(SnapRow)
                        /\ \A j \in 1 .. Len(file[i - 1]) :
                             /\ ReadAfter(log, seeded, file[i - 1][j], writer.lsn)
                             /\ file[i - 1][j].key <= writer.cursor
                             /\ file[i - 1][j].key \in Nat
  <2>. TAKE i \in 1 .. N
  <2>1. PartPlaced(i)
    BY <1>3
  <2>2. file[i - 1] \in Seq(SnapRow)
    BY <2>1 DEF PartPlaced
  <2>3. \A j \in 1 .. Len(file[i - 1]) : file[i - 1][j] \in SnapRow
    BY <2>2
  <2>. QED
    BY <2>1, <2>2, <2>3, KeysAssumption DEF PartPlaced, SnapRow
<1>7. /\ rows \in Seq(SnapRow) /\ Len(rows) = Len(f) + 1 /\ rows[Len(f) + 1] = r
      /\ \A j \in 1 .. Len(f) : rows[j] = f[j]
      /\ Len(f) \in Nat
  BY <1>1, <1>5 DEF r
<1>8. Len(rows) <= MaxPartRows
  BY <1>5, <1>7, MaxPartRowsAssumption
<1>9. file' \in [Indexes -> File] /\ file'[N - 1] = rows
  BY <1>2, <1>4, <1>7 DEF File
<1>10. \A i \in 1 .. N : i # N => file'[i - 1] = file[i - 1]
  <2>. TAKE i \in 1 .. N
  <2>1. i # N => i - 1 # N - 1
    BY <1>2
  <2>2. i - 1 \in Indexes
    BY <1>3 DEF PartPlaced
  <2>. QED
    BY <1>4, <2>1, <2>2
<1>. HIDE DEF f
<1>11. \A j \in 1 .. Len(rows) : ReadAfter(log, seeded, rows[j], writer.lsn) /\ rows[j].key <= k
  <2>. TAKE j \in 1 .. Len(rows)
  <2>1. CASE j = Len(f) + 1
    BY <1>1, <1>7, <2>1
  <2>2. CASE j # Len(f) + 1
    <3>1. j \in 1 .. Len(f)
      BY <1>7, <2>2
    <3>2. rows[j] = file[N - 1][j] /\ j \in 1 .. Len(file[N - 1])
      BY <1>7, <3>1 DEF f
    <3>3. ReadAfter(log, seeded, rows[j], writer.lsn) /\ rows[j].key <= writer.cursor /\ rows[j].key \in Nat
      BY <1>2, <1>6, <3>2
    <3>. QED
      BY <1>1, <1>4, <3>3
  <2>. QED
    BY <2>1, <2>2
\* A place in the files is one of before, or the new one.
<1>12. \A i \in 1 .. N : \A j \in DOMAIN file'[i - 1] :
         \/ j \in DOMAIN file[i - 1] /\ file'[i - 1][j] = file[i - 1][j] /\ file[i - 1][j].key # k
         \/ i = N /\ j = Len(f) + 1 /\ file'[i - 1][j].key = k
  <2>1. ASSUME NEW i \in 1 .. N, NEW j \in DOMAIN file[i - 1]
        PROVE  file[i - 1][j].key # k
    <3>1. file[i - 1][j].key <= writer.cursor /\ file[i - 1][j].key \in Nat
      BY <1>6, <2>1
    <3>. QED
      BY <1>1, <1>4, <3>1
  <2>2. ASSUME NEW j \in DOMAIN rows
        PROVE  \/ j \in DOMAIN f /\ rows[j] = f[j]
               \/ j = Len(f) + 1 /\ rows[j].key = k
    BY <1>1, <1>5, <1>7 DEF f
  <2>3. ASSUME NEW i \in 1 .. N, NEW j \in DOMAIN file'[i - 1], i = N
        PROVE  \/ j \in DOMAIN file[i - 1] /\ file'[i - 1][j] = file[i - 1][j] /\ file[i - 1][j].key # k
               \/ i = N /\ j = Len(f) + 1 /\ file'[i - 1][j].key = k
    <3>1. j \in DOMAIN rows
      BY <1>9, <2>3
    <3>. QED
      BY <1>9, <2>1, <2>2, <2>3, <3>1 DEF f
  <2>4. ASSUME NEW i \in 1 .. N, NEW j \in DOMAIN file'[i - 1], i # N
        PROVE  j \in DOMAIN file[i - 1] /\ file'[i - 1][j] = file[i - 1][j] /\ file[i - 1][j].key # k
    BY <1>10, <2>1, <2>4
  <2>. QED
    BY <2>3, <2>4
<1>13. NotTwice(file', N)
  <2>. SUFFICES ASSUME NEW i \in 1 .. N, NEW h \in 1 .. N,
                       NEW j \in DOMAIN file'[i - 1], NEW m \in DOMAIN file'[h - 1],
                       file'[i - 1][j].key = file'[h - 1][m].key
                PROVE  i = h /\ j = m
    BY DEF NotTwice
  <2>1. \/ j \in DOMAIN file[i - 1] /\ file'[i - 1][j] = file[i - 1][j] /\ file[i - 1][j].key # k
        \/ i = N /\ j = Len(f) + 1 /\ file'[i - 1][j].key = k
    BY <1>12
  <2>2. \/ m \in DOMAIN file[h - 1] /\ file'[h - 1][m] = file[h - 1][m] /\ file[h - 1][m].key # k
        \/ h = N /\ m = Len(f) + 1 /\ file'[h - 1][m].key = k
    BY <1>12
  <2>3. ASSUME j \in DOMAIN file[i - 1], m \in DOMAIN file[h - 1],
               file[i - 1][j].key = file[h - 1][m].key
        PROVE  i = h /\ j = m
    <3>1. NotTwice(file, N)
      BY <1>3
    <3>2. \A a \in DOMAIN file[i - 1], b \in DOMAIN file[h - 1] :
            file[i - 1][a].key = file[h - 1][b].key => i = h /\ a = b
      BY <3>1 DEF NotTwice
    <3>. QED
      BY <2>3, <3>2
  <2>. QED
    BY <2>1, <2>2, <2>3
<1>14. ASSUME NEW u \in Keys, Lasting(log, seeded, u, writer.lsn), u <= k
       PROVE  Holds(file', N, u)
  <2>1. CASE u = k
    <3>1. N \in 1 .. N /\ Len(f) + 1 \in DOMAIN file'[N - 1] /\ file'[N - 1][Len(f) + 1].key = k
      BY <1>1, <1>2, <1>7, <1>9
    <3>. QED
      BY <2>1, <3>1 DEF Holds
  <2>2. CASE u # k
    <3>1. u \in Nat
      BY KeysAssumption
    <3>2. LiveIn(log, seeded, u, Len(log))
      <4>1. Len(log) \in writer.lsn .. Len(log)
        BY <1>3, <1>4 DEF LogOK, WriterPlaced
      <4>. QED
        BY <1>14, <4>1 DEF Lasting
    <3>3. u \in Live
      BY <3>2 DEF Live, LiveAt, VersionAt, LiveIn, Ver, ChangeTo
    <3>4. u <= writer.cursor
      BY <1>1, <1>4, <1>14, <2>2, <3>1, <3>3
    <3>5. Holds(file, N, u)
      BY <1>3, <1>14, <3>4 DEF ScanComplete
    <3>6. PICK i \in 1 .. N : \E j \in DOMAIN file[i - 1] : file[i - 1][j].key = u
      BY <3>5 DEF Holds
    <3>7. PICK j \in DOMAIN file[i - 1] : file[i - 1][j].key = u
      BY <3>6
    <3>8. j \in DOMAIN file'[i - 1] /\ file'[i - 1][j].key = u
      <4>1. CASE i = N
        <5>1. j \in 1 .. Len(f) /\ f[j].key = u
          BY <1>5, <3>7, <4>1 DEF f
        <5>2. j \in DOMAIN rows /\ rows[j].key = u
          BY <1>7, <5>1
        <5>. QED
          BY <1>9, <4>1, <5>2
      <4>2. CASE i # N
        BY <1>10, <3>7, <4>2
      <4>. QED
        BY <4>1, <4>2
    <3>. QED
      BY <3>6, <3>8 DEF Holds
  <2>. QED
    BY <2>1, <2>2
<1>. QED
  BY <1>7, <1>8, <1>9, <1>10, <1>11, <1>13, <1>14 DEF f

\* WriteRow.
LEMMA WriteRowStep ==
  ASSUME LogOK, WriterOK, strategy = "file", WriteRow
  PROVE  WriterOK' /\ UNCHANGED object
<1>. DEFINE N == Len(writer.parts)
            k == Min(Unscanned)
            rows == Append(CurRows, Current(k))
            n == writer.rows + 1
            w == [writer EXCEPT !.cursor = k, !.rows = n]
            v == [w EXCEPT !.phase = "announceRoll"]
<1>1. /\ writer.phase = "scan" /\ Unscanned # {}
      /\ file' = [file EXCEPT ![CurIndex] = rows]
      /\ \/ /\ Len(rows) < MaxPartRows
            /\ writer' = w
            /\ UNCHANGED manifest
         \/ /\ writer' = Sealed(v, rows)
            /\ manifest' = BuildManifest(writer', FALSE)
      /\ UNCHANGED <<log, seeded, pos, target, object, extracts>>
  BY DEF WriteRow, logVars
<1>2. N \in Nat /\ N > 0 /\ CurIndex = N - 1 /\ CurIndex \in Indexes /\ CurRows = file[N - 1]
      /\ N \in 1 .. N
  BY <1>1, CurIs
<1>3. writer \in WriterRec /\ writer.cursor \in Nat /\ writer.lsn \in Nat /\ writer.rows \in Nat
      /\ writer.parts \in Seq(PartRec)
  BY DEF WriterOK, WriterType, WriterRec
<1>4. (\A i \in 1 .. N : PartPlaced(i)) /\ WriterPlaced
  BY <1>1 DEF WriterOK, WriterHolds
<1>5. k \in Keys /\ k \in Nat /\ k > writer.cursor
  BY <1>1, NextRow
<1>6. /\ file' \in [Indexes -> File]
      /\ rows \in Seq(SnapRow) /\ Len(rows) = Len(file[N - 1]) + 1 /\ Len(rows) <= MaxPartRows
      /\ \A j \in 1 .. Len(rows) : ReadAfter(log, seeded, rows[j], writer.lsn) /\ rows[j].key <= k
      /\ file'[N - 1] = rows
      /\ \A i \in 1 .. N : i # N => file'[i - 1] = file[i - 1]
      /\ NotTwice(file', N)
      /\ \A u \in Keys : Lasting(log, seeded, u, writer.lsn) /\ u <= k => Holds(file', N, u)
  BY <1>1, <1>2, RowAppended
<1>7. Cardinality(Scanned) + 1 <= Cardinality({i \in Keys : i <= k})
      /\ Cardinality(Scanned) \in Nat /\ Cardinality({i \in Keys : i <= k}) \in Nat
  BY <1>3, <1>5, ScannedGrows, IndexesTyped DEF Scanned
<1>. HIDE DEF k, rows
<1>8. /\ w \in WriterRec /\ w.phase = "scan" /\ w.lsn = writer.lsn /\ w.cursor = k
      /\ w.parts = writer.parts
  <2>. n \in Nat
    BY <1>3
  <2>. HIDE DEF n
  <2>1. w \in WriterRec
    BY <1>3, <1>5 DEF WriterRec
  <2>2. w.phase = writer.phase /\ w.lsn = writer.lsn /\ w.cursor = k /\ w.parts = writer.parts
    BY <1>3 DEF WriterRec
  <2>. QED
    BY <1>1, <2>1, <2>2
<1>. HIDE DEF w
<1>9. /\ v \in WriterRec /\ v.phase = "announceRoll" /\ v.lsn = writer.lsn /\ v.cursor = k
      /\ v.parts = writer.parts
  BY <1>8 DEF WriterRec
<1>. HIDE DEF v
\* What is common to both branches.
<1>10. ASSUME NEW x \in WriterRec, writer' = x, x.lsn = writer.lsn, x.cursor = k, Len(x.parts) = N,
              x.phase \in {"scan", "announceRoll"},
              \A i \in 1 .. N : i # N => x.parts[i] = writer.parts[i],
              x.parts[N].index = N - 1, x.parts[N].lsn = writer.lsn,
              IF x.phase = "scan"
                THEN x.parts[N].state = "writing" /\ x.parts[N].sum = NoFile /\ Len(rows) < MaxPartRows
                ELSE x.parts[N].state = "sealed" /\ x.parts[N].sum = rows
       PROVE  WriterHolds'
  <2>1. WriterPlaced'
    <3>1. N <= Cardinality(Scanned) + 1
      BY <1>1, <1>4 DEF WriterPlaced
    <3>2. Scanned' = {i \in Keys : i <= k}
      BY <1>10 DEF Scanned
    <3>3. N <= Cardinality(Scanned')
      BY <1>2, <1>7, <3>1, <3>2
    <3>4. writer'.lsn <= Len(log') /\ Len(writer'.parts) > 0
      BY <1>1, <1>2, <1>4, <1>10 DEF WriterPlaced
    <3>5. Len(writer'.parts) <= Cardinality(Scanned') /\ Len(writer'.parts) <= Cardinality(Scanned') + 1
      BY <1>2, <1>7, <1>10, <3>2, <3>3
    <3>. QED
      BY <3>4, <3>5 DEF WriterPlaced
  <2>2. PartPlaced(N)'
    <3>1. N - 1 \in Indexes
      BY <1>2
    <3>. QED
      BY <1>1, <1>6, <1>10, <3>1 DEF PartPlaced
  <2>3. ASSUME NEW i \in 1 .. N, i # N
        PROVE  PartPlaced(i)'
    <3>1. PartPlaced(i) /\ file'[i - 1] = file[i - 1] /\ x.parts[i] = writer.parts[i]
      BY <1>4, <1>6, <1>10, <2>3
    <3>2. file[i - 1] \in Seq(SnapRow)
      BY <3>1 DEF PartPlaced
    <3>3. \A j \in 1 .. Len(file[i - 1]) : file[i - 1][j].key \in Nat
      <4>1. \A j \in 1 .. Len(file[i - 1]) : file[i - 1][j] \in SnapRow
        BY <3>2
      <4>. QED
        BY <4>1, KeysAssumption DEF SnapRow
    <3>4. \A j \in 1 .. Len(file[i - 1]) : file[i - 1][j].key <= k
      <4>. TAKE j \in 1 .. Len(file[i - 1])
      <4>1. file[i - 1][j].key <= writer.cursor /\ file[i - 1][j].key \in Nat
        BY <3>1, <3>3 DEF PartPlaced
      <4>. QED
        BY <1>3, <1>5, <4>1
    <3>. QED
      BY <1>1, <1>10, <2>3, <3>1, <3>4 DEF PartPlaced
  <2>4. ScanComplete'
    BY <1>1, <1>6, <1>10 DEF ScanComplete
  <2>. QED
    BY <1>6, <1>10, <2>1, <2>2, <2>3, <2>4 DEF WriterHolds
<1>11. CASE /\ Len(rows) < MaxPartRows /\ writer' = w /\ UNCHANGED manifest
  <2>1. WriterHolds'
    <3>1. PartPlaced(N)
      BY <1>2, <1>4
    <3>2. /\ writer.parts[N].index = N - 1 /\ writer.parts[N].lsn = writer.lsn
          /\ writer.parts[N].state = "writing" /\ writer.parts[N].sum = NoFile
      BY <1>1, <3>1 DEF PartPlaced
    <3>. QED
      BY <1>8, <1>10, <1>11, <3>2
  <2>2. WriterType' /\ ManifestOK'
    BY <1>1, <1>6, <1>8, <1>11 DEF WriterOK, WriterType, ManifestOK
  <2>. QED
    BY <1>1, <2>1, <2>2 DEF WriterOK
<1>12. CASE /\ writer' = Sealed(v, rows) /\ manifest' = BuildManifest(writer', FALSE)
  <2>. DEFINE p == Part(N - 1, writer.lsn, "sealed", rows)
              x == [v EXCEPT !.parts[N] = p]
  <2>1. writer' = x
    BY <1>2, <1>9, <1>12 DEF Sealed
  <2>2. p \in PartRec /\ p.index = N - 1 /\ p.lsn = writer.lsn /\ p.state = "sealed" /\ p.sum = rows
    BY <1>2, <1>3, <1>6 DEF Part, PartRec, File
  <2>. HIDE DEF p
  <2>3. /\ x.phase = "announceRoll" /\ x.lsn = writer.lsn /\ x.cursor = k
        /\ x.parts = [writer.parts EXCEPT ![N] = p]
        /\ [writer.parts EXCEPT ![N] = p] \in Seq(PartRec)
    BY <1>2, <1>3, <1>9, <2>2 DEF WriterRec
  <2>4. x \in WriterRec
    BY <1>9, <2>3 DEF WriterRec
  <2>5. /\ Len(x.parts) = N /\ x.parts[N] = p
        /\ \A i \in 1 .. N : i # N => x.parts[i] = writer.parts[i]
    BY <1>2, <1>3, <2>3
  <2>. HIDE DEF x
  <2>6. WriterHolds'
    BY <1>10, <2>1, <2>2, <2>3, <2>4, <2>5
  <2>7. ASSUME NEW i \in 1 .. N
        PROVE  PartOK(log, seeded, x.parts[i])
    <3>1. CASE i = N
      <4>1. \A j \in DOMAIN rows : ReadAfter(log, seeded, rows[j], writer.lsn)
        BY <1>6
      <4>. QED
        BY <1>4, <2>2, <2>5, <3>1, <4>1 DEF PartOK, WriterPlaced
    <3>2. CASE i # N
      BY <1>1, <2>5, <3>2, WriterPartsOK
    <3>. QED
      BY <3>1, <3>2
  <2>8. ManifestOK' /\ manifest' \in ManifestRec
    <3>1. x.lsn <= Len(log)
      BY <1>4, <2>3 DEF WriterPlaced
    <3>2. \A i \in 1 .. Len(x.parts) : PartOK(log, seeded, x.parts[i])
      BY <2>5, <2>7
    <3>. QED
      BY <1>1, <1>12, <2>1, <2>4, <3>1, <3>2, PartialManifest
  <2>9. WriterType'
    BY <1>1, <1>6, <2>1, <2>4, <2>8 DEF WriterOK, WriterType
  <2>. QED
    BY <1>1, <2>6, <2>8, <2>9 DEF WriterOK
<1>. QED
  BY <1>1, <1>11, <1>12

\* An empty file more or less does not matter to what the files hold.
LEMMA FilesAgree ==
  ASSUME NEW f, NEW g, NEW n \in Nat, NEW m \in Nat,
         \A i \in 1 .. n : (i \in 1 .. m /\ g[i - 1] = f[i - 1]) \/ f[i - 1] = <<>>,
         \A i \in 1 .. m : (i \in 1 .. n /\ g[i - 1] = f[i - 1]) \/ g[i - 1] = <<>>
  PROVE  /\ NotTwice(f, n) => NotTwice(g, m)
         /\ \A k : Holds(f, n, k) => Holds(g, m, k)
<1>1. DOMAIN <<>> = {}
  OBVIOUS
<1>2. ASSUME NotTwice(f, n)
      PROVE  NotTwice(g, m)
  <2>. SUFFICES ASSUME NEW i \in 1 .. m, NEW h \in 1 .. m,
                       NEW a \in DOMAIN g[i - 1], NEW b \in DOMAIN g[h - 1],
                       g[i - 1][a].key = g[h - 1][b].key
                PROVE  i = h /\ a = b
    BY DEF NotTwice
  <2>1. i \in 1 .. n /\ g[i - 1] = f[i - 1] /\ h \in 1 .. n /\ g[h - 1] = f[h - 1]
    BY <1>1
  <2>2. \A x \in DOMAIN f[i - 1], y \in DOMAIN f[h - 1] :
          f[i - 1][x].key = f[h - 1][y].key => i = h /\ x = y
    BY <1>2, <2>1 DEF NotTwice
  <2>. QED
    BY <2>1, <2>2
<1>3. ASSUME NEW k, Holds(f, n, k)
      PROVE  Holds(g, m, k)
  <2>1. PICK i \in 1 .. n : \E j \in DOMAIN f[i - 1] : f[i - 1][j].key = k
    BY <1>3 DEF Holds
  <2>2. i \in 1 .. m /\ g[i - 1] = f[i - 1]
    BY <1>1, <2>1
  <2>. QED
    BY <2>1, <2>2 DEF Holds
<1>. QED
  BY <1>2, <1>3

\* OpenNext.
LEMMA OpenNextStep ==
  ASSUME LogOK, WriterOK, OpenNext
  PROVE  WriterOK' /\ UNCHANGED object
<1>. DEFINE N == Len(writer.parts)
            p == Part(N, writer.lsn, "writing", NoFile)
            q == Append(writer.parts, p)
            w == [writer EXCEPT !.phase = "scan", !.parts = q]
<1>1. N \in Nat /\ N > 0 /\ CurIndex = N - 1 /\ writer.phase = "open"
  BY CurIs DEF OpenNext
<1>2. CurIndex + 1 = N
  BY <1>1
<1>3. /\ file' = [file EXCEPT ![N] = <<>>] /\ writer' = w
      /\ UNCHANGED <<log, seeded, pos, target, object, manifest>>
  BY <1>2 DEF OpenNext, logVars
<1>4. writer \in WriterRec /\ writer.lsn \in Nat /\ writer.parts \in Seq(PartRec)
  BY DEF WriterOK, WriterType, WriterRec
<1>5. (\A i \in 1 .. N : PartPlaced(i)) /\ WriterPlaced /\ NotTwice(file, N) /\ ScanComplete
  BY <1>1 DEF WriterOK, WriterHolds
<1>6. N <= Cardinality(Scanned) /\ Cardinality(Scanned) \in Nat /\ N \in Indexes
  <2>1. Cardinality(Scanned) \in Nat /\ Cardinality(Scanned) <= Cardinality(Keys)
        /\ Cardinality(Keys) \in Nat /\ Indexes = 0 .. Cardinality(Keys)
    BY IndexesTyped DEF Scanned
  <2>2. N <= Cardinality(Scanned)
    BY <1>1, <1>5 DEF WriterPlaced
  <2>. QED
    BY <1>1, <2>1, <2>2
<1>7. /\ p \in PartRec /\ p.index = N /\ p.lsn = writer.lsn /\ p.state = "writing"
      /\ p.sum = NoFile
  BY <1>4, <1>6 DEF Part, PartRec, File
<1>. HIDE DEF p
<1>8. /\ q \in Seq(PartRec) /\ Len(q) = N + 1 /\ q[N + 1] = p
      /\ \A i \in 1 .. N : q[i] = writer.parts[i]
  BY <1>4, <1>7
<1>. HIDE DEF q
<1>9. /\ w \in WriterRec /\ w.phase = "scan" /\ w.lsn = writer.lsn /\ w.cursor = writer.cursor
      /\ w.parts = q
  BY <1>4, <1>8 DEF WriterRec
<1>. HIDE DEF w
<1>10. /\ file' \in [Indexes -> File] /\ file'[N] = <<>>
       /\ \A i \in Indexes : i # N => file'[i] = file[i]
  <2>1. <<>> \in File /\ file \in [Indexes -> File]
    BY DEF File, WriterOK, WriterType
  <2>. QED
    BY <1>3, <1>6, <2>1
<1>11. \A i \in 1 .. N : file'[i - 1] = file[i - 1]
  <2>. TAKE i \in 1 .. N
  <2>1. i - 1 \in Indexes
    BY <1>5 DEF PartPlaced
  <2>2. i - 1 # N
    BY <1>1
  <2>. QED
    BY <1>10, <2>1, <2>2
<1>12. WriterPlaced'
  <2>1. Scanned' = Scanned
    BY <1>3, <1>9 DEF Scanned
  <2>2. writer.lsn <= Len(log)
    BY <1>5 DEF WriterPlaced
  <2>. QED
    BY <1>1, <1>3, <1>6, <1>8, <1>9, <2>1, <2>2 DEF WriterPlaced
<1>13. ASSUME NEW i \in 1 .. N
       PROVE  PartPlaced(i)'
  <2>1. PartPlaced(i) /\ i # N + 1 /\ i # Len(q)
    BY <1>1, <1>5, <1>8
  <2>2. ~(i = Len(writer.parts) /\ writer.phase \in {"created", "scan"})
    BY <1>1
  <2>. QED
    BY <1>3, <1>8, <1>9, <1>11, <1>13, <2>1, <2>2 DEF PartPlaced
<1>14. ASSUME NEW i, i = N + 1
       PROVE  PartPlaced(i)'
  <2>1. i - 1 = N /\ Len(<<>>) = 0 /\ <<>> \in Seq(SnapRow)
    BY <1>1, <1>14
  <2>2. MaxPartRows \in Nat /\ 0 < MaxPartRows
    BY MaxPartRowsAssumption
  <2>. QED
    BY <1>3, <1>6, <1>7, <1>8, <1>9, <1>10, <1>14, <2>1, <2>2 DEF PartPlaced
<1>15. NotTwice(file', N + 1) /\ \A k : Holds(file, N, k) => Holds(file', N + 1, k)
  <2>1. N + 1 \in Nat /\ (N + 1) - 1 = N
    BY <1>1
  <2>2. \A i \in 1 .. N + 1 : i \in 1 .. N \/ i = N + 1
    BY <1>1
  <2>3. \A i \in 1 .. N : i \in 1 .. N + 1 /\ file'[i - 1] = file[i - 1]
    BY <1>1, <1>11
  <2>4. \A i \in 1 .. N + 1 : (i \in 1 .. N /\ file'[i - 1] = file[i - 1]) \/ file'[i - 1] = <<>>
    BY <1>10, <2>1, <2>2, <2>3
  <2>. QED
    BY <1>1, <1>5, <2>1, <2>3, <2>4, FilesAgree
<1>16. ScanComplete'
  BY <1>1, <1>3, <1>5, <1>8, <1>9, <1>15 DEF ScanComplete
<1>17. WriterHolds'
  <2>1. \A i \in 1 .. N + 1 : i \in 1 .. N \/ i = N + 1
    BY <1>1
  <2>2. \A i \in 1 .. N + 1 : PartPlaced(i)'
    BY <1>13, <1>14, <2>1
  <2>. QED
    BY <1>3, <1>8, <1>9, <1>12, <1>15, <1>16, <2>2 DEF WriterHolds
<1>18. WriterType' /\ ManifestOK'
  BY <1>3, <1>9, <1>10 DEF WriterOK, WriterType, ManifestOK
<1>. QED
  BY <1>3, <1>17, <1>18 DEF WriterOK

\* After the last row every row that was there all the time has been passed.
LEMMA ScanOver ==
  ASSUME LogOK, WriterOK, writer.phase = "scan", Unscanned = {},
         NEW k \in Keys, Lasting(log, seeded, k, writer.lsn)
  PROVE  Holds(file, Len(writer.parts), k)
<1>1. writer.lsn \in Nat /\ writer.cursor \in Nat /\ k \in Nat /\ ScanComplete /\ WriterPlaced
  BY KeysAssumption DEF WriterOK, WriterType, WriterRec, WriterHolds
<1>2. Len(log) \in writer.lsn .. Len(log)
  BY <1>1 DEF LogOK, WriterPlaced
<1>3. LiveIn(log, seeded, k, Len(log))
  BY <1>2 DEF Lasting
<1>4. k \in Live
  BY <1>3 DEF Live, LiveAt, VersionAt, LiveIn, Ver, ChangeTo
<1>5. k <= writer.cursor
  BY <1>1, <1>4 DEF Unscanned
<1>. QED
  BY <1>1, <1>5 DEF ScanComplete

\* CloseSeals.
LEMMA CloseSealsStep ==
  ASSUME LogOK, WriterOK, CloseSeals
  PROVE  WriterOK' /\ UNCHANGED object
<1>. DEFINE N == Len(writer.parts)
            p == Part(N - 1, writer.lsn, "sealed", CurRows)
            q == [writer.parts EXCEPT ![N] = p]
            w == [writer EXCEPT !.phase = "announceClose", !.parts = q]
<1>1. /\ N \in Nat /\ N > 0 /\ CurIndex = N - 1 /\ CurRows = file[N - 1] /\ N \in 1 .. N
      /\ CurIndex \in Indexes /\ writer.phase = "scan" /\ Unscanned = {}
  BY CurIs DEF CloseSeals
<1>2. writer \in WriterRec /\ writer.lsn \in Nat /\ writer.parts \in Seq(PartRec)
  BY DEF WriterOK, WriterType, WriterRec
<1>3. /\ writer' = w /\ manifest' = BuildManifest(writer', FALSE)
      /\ UNCHANGED <<log, seeded, pos, target, file, object>>
  <2>. DEFINE x == [writer EXCEPT !.phase = "announceClose"]
  <2>1. x.parts = writer.parts /\ x.lsn = writer.lsn
    BY <1>2 DEF WriterRec
  <2>2. [x EXCEPT !.parts[N] = p] = w
    BY <1>2 DEF WriterRec
  <2>. HIDE DEF x
  <2>3. writer' = Sealed(x, CurRows)
    BY DEF CloseSeals, x
  <2>4. writer' = w
    BY <1>1, <2>1, <2>2, <2>3 DEF Sealed
  <2>. QED
    BY <2>4 DEF CloseSeals, logVars
<1>4. (\A i \in 1 .. N : PartPlaced(i)) /\ WriterPlaced /\ NotTwice(file, N) /\ ScanComplete
  BY <1>1 DEF WriterOK, WriterHolds
<1>5. /\ file[N - 1] \in Seq(SnapRow)
      /\ \A j \in DOMAIN file[N - 1] : ReadAfter(log, seeded, file[N - 1][j], writer.lsn)
  <2>1. PartPlaced(N)
    BY <1>1, <1>4
  <2>. QED
    BY <2>1 DEF PartPlaced
<1>6. /\ p \in PartRec /\ p.index = N - 1 /\ p.lsn = writer.lsn /\ p.state = "sealed"
      /\ p.sum = file[N - 1]
  BY <1>1, <1>2, <1>5 DEF Part, PartRec, File
<1>. HIDE DEF p
<1>7. /\ q \in Seq(PartRec) /\ Len(q) = N /\ q[N] = p
      /\ \A i \in 1 .. N : i # N => q[i] = writer.parts[i]
  BY <1>1, <1>2, <1>6
<1>. HIDE DEF q
<1>8. /\ w \in WriterRec /\ w.phase = "announceClose" /\ w.lsn = writer.lsn
      /\ w.cursor = writer.cursor /\ w.parts = q
  BY <1>2, <1>7 DEF WriterRec
<1>. HIDE DEF w
<1>9. WriterPlaced'
  BY <1>1, <1>3, <1>4, <1>7, <1>8 DEF WriterPlaced
<1>10. PartPlaced(N)'
  <2>1. PartPlaced(N)
    BY <1>1, <1>4
  <2>. QED
    BY <1>3, <1>6, <1>7, <1>8, <2>1 DEF PartPlaced
<1>11. ASSUME NEW i \in 1 .. N, i # N
       PROVE  PartPlaced(i)'
  <2>1. PartPlaced(i)
    BY <1>4
  <2>. QED
    BY <1>3, <1>7, <1>8, <1>11, <2>1 DEF PartPlaced
<1>12. ScanComplete'
  <2>1. \A k \in Keys : Lasting(log, seeded, k, writer.lsn) => Holds(file, N, k)
    BY <1>1, ScanOver
  <2>. QED
    BY <1>3, <1>7, <1>8, <2>1 DEF ScanComplete
<1>13. WriterHolds'
  BY <1>3, <1>4, <1>7, <1>8, <1>9, <1>10, <1>11, <1>12 DEF WriterHolds
<1>14. ManifestOK' /\ manifest' \in ManifestRec
  <2>1. w.lsn <= Len(log)
    BY <1>4, <1>8 DEF WriterPlaced
  <2>2. PartOK(log, seeded, p)
    BY <1>4, <1>5, <1>6 DEF PartOK, WriterPlaced
  <2>3. \A i \in 1 .. Len(w.parts) : PartOK(log, seeded, w.parts[i])
    BY <1>1, <1>7, <1>8, <2>2, WriterPartsOK
  <2>. QED
    BY <1>3, <1>8, <2>1, <2>3, PartialManifest
<1>15. WriterType'
  BY <1>3, <1>8, <1>14 DEF WriterOK, WriterType
<1>. QED
  BY <1>3, <1>13, <1>14, <1>15 DEF WriterOK

\* CloseDropsEmpty.
LEMMA CloseDropsEmptyStep ==
  ASSUME LogOK, WriterOK, CloseDropsEmpty
  PROVE  WriterOK' /\ UNCHANGED object
<1>. DEFINE N == Len(writer.parts)
            q == Front(writer.parts)
            w == [writer EXCEPT !.phase = "finish", !.parts = q]
<1>1. /\ N \in Nat /\ N > 1 /\ CurIndex = N - 1 /\ N - 1 \in Indexes /\ file[N - 1] = <<>>
      /\ writer.phase = "scan" /\ Unscanned = {}
  BY CurIs DEF CloseDropsEmpty
<1>2. writer \in WriterRec /\ writer.lsn \in Nat /\ writer.parts \in Seq(PartRec)
      /\ file \in [Indexes -> File]
  BY DEF WriterOK, WriterType, WriterRec
<1>3. /\ writer' = w /\ file' = [file EXCEPT ![N - 1] = NoFile]
      /\ UNCHANGED <<log, seeded, pos, target, manifest, object>>
  BY <1>1 DEF CloseDropsEmpty, logVars
<1>4. (\A i \in 1 .. N : PartPlaced(i)) /\ WriterPlaced /\ NotTwice(file, N) /\ ScanComplete
  BY <1>1 DEF WriterOK, WriterHolds
<1>5. /\ q \in Seq(PartRec) /\ Len(q) = N - 1
      /\ \A i \in 1 .. N - 1 : q[i] = writer.parts[i]
  BY <1>1, <1>2 DEF Front
<1>. HIDE DEF q
<1>6. /\ w \in WriterRec /\ w.phase = "finish" /\ w.lsn = writer.lsn
      /\ w.cursor = writer.cursor /\ w.parts = q
  BY <1>2, <1>5 DEF WriterRec
<1>. HIDE DEF w
<1>7. file' \in [Indexes -> File]
  BY <1>1, <1>2, <1>3 DEF File
<1>8. \A i \in 1 .. N - 1 : i \in 1 .. N /\ file'[i - 1] = file[i - 1]
  <2>. TAKE i \in 1 .. N - 1
  <2>1. i \in 1 .. N /\ i - 1 # N - 1
    BY <1>1
  <2>2. i - 1 \in Indexes
    BY <1>4, <2>1 DEF PartPlaced
  <2>. QED
    BY <1>2, <1>3, <2>1, <2>2
<1>9. NotTwice(file', N - 1) /\ \A k : Holds(file, N, k) => Holds(file', N - 1, k)
  <2>1. N - 1 \in Nat
    BY <1>1
  <2>2. \A i \in 1 .. N : i \in 1 .. N - 1 \/ i = N
    BY <1>1
  <2>3. \A i \in 1 .. N : (i \in 1 .. N - 1 /\ file'[i - 1] = file[i - 1]) \/ file[i - 1] = <<>>
    BY <1>1, <1>8, <2>2
  <2>. QED
    BY <1>1, <1>4, <1>8, <2>1, <2>3, FilesAgree
<1>10. WriterPlaced'
  BY <1>1, <1>3, <1>4, <1>5, <1>6 DEF WriterPlaced
<1>11. ASSUME NEW i \in 1 .. N - 1
       PROVE  PartPlaced(i)'
  <2>1. PartPlaced(i) /\ i # N
    BY <1>1, <1>4, <1>8
  <2>. QED
    BY <1>3, <1>5, <1>6, <1>8, <1>11, <2>1 DEF PartPlaced
<1>12. ScanComplete'
  <2>1. \A k \in Keys : Lasting(log, seeded, k, writer.lsn) => Holds(file, N, k)
    BY <1>1, ScanOver
  <2>. QED
    BY <1>3, <1>5, <1>6, <1>9, <2>1 DEF ScanComplete
<1>13. WriterHolds'
  BY <1>3, <1>5, <1>6, <1>9, <1>10, <1>11, <1>12 DEF WriterHolds
<1>14. WriterType' /\ ManifestOK'
  BY <1>3, <1>6, <1>7 DEF WriterOK, WriterType, ManifestOK
<1>. QED
  BY <1>3, <1>13, <1>14 DEF WriterOK

\* Finish: the digests of the complete manifest are the files.
LEMMA FinishStep ==
  ASSUME LogOK, WriterOK, Finish
  PROVE  WriterOK' /\ UNCHANGED object
<1>. DEFINE N == Len(writer.parts)
            m == BuildManifest(writer, TRUE)
<1>1. /\ writer.phase = "finish" /\ manifest' = m /\ writer' = OffWriter
      /\ UNCHANGED <<log, seeded, pos, target, file, object>>
  BY DEF Finish, logVars
<1>2. writer \in WriterRec /\ writer.lsn \in Nat /\ writer.parts \in Seq(PartRec) /\ N \in Nat
      /\ N > 0
  BY <1>1, CurIs DEF WriterOK, WriterType, WriterRec
<1>3. (\A i \in 1 .. N : PartPlaced(i)) /\ WriterPlaced /\ NotTwice(file, N) /\ ScanComplete
  BY <1>1 DEF WriterOK, WriterHolds
<1>4. /\ m \in ManifestRec
      /\ m.lsn = writer.lsn /\ m.parts = writer.parts /\ m.complete
  BY <1>2 DEF BuildManifest, WriterRec, ManifestRec
<1>. HIDE DEF m
<1>5. writer' \in WriterRec /\ writer'.phase = "off"
  BY <1>1 DEF OffWriter, WriterRec
<1>6. \A i \in 1 .. N : /\ writer.parts[i].sum = file[i - 1] /\ file[i - 1] \in Seq(SnapRow)
                        /\ Len(file[i - 1]) <= MaxPartRows
                        /\ Sums(writer.parts)[i - 1] = file[i - 1]
  <2>. TAKE i \in 1 .. N
  <2>1. PartPlaced(i)
    BY <1>3
  <2>2. writer.parts[i].sum = file[i - 1] /\ file[i - 1] \in Seq(SnapRow)
        /\ Len(file[i - 1]) <= MaxPartRows
    BY <1>1, <2>1 DEF PartPlaced
  <2>3. i - 1 \in 0 .. N - 1 /\ (i - 1) + 1 = i
    BY <1>2
  <2>. QED
    BY <2>2, <2>3 DEF Sums
<1>7. /\ NotTwice(Sums(writer.parts), N)
      /\ \A k : Holds(file, N, k) => Holds(Sums(writer.parts), N, k)
  <2>1. \A i \in 1 .. N : i \in 1 .. N /\ Sums(writer.parts)[i - 1] = file[i - 1]
    BY <1>6
  <2>. QED
    BY <1>2, <1>3, <2>1, FilesAgree
<1>8. \A i \in 1 .. N : PartOK(log, seeded, writer.parts[i])
  BY <1>1, WriterPartsOK
<1>9. \A k \in Keys : Lasting(log, seeded, k, writer.lsn) => Holds(Sums(writer.parts), N, k)
  BY <1>1, <1>3, <1>7 DEF ScanComplete
<1>10. ManifestOK'
  BY <1>1, <1>3, <1>4, <1>6, <1>7, <1>8, <1>9 DEF ManifestOK, WriterPlaced
<1>. QED
  BY <1>1, <1>4, <1>5, <1>10 DEF WriterOK, WriterType, WriterHolds

\* Every step of the extract preserves the invariant.
LEMMA WriterStep ==
  ASSUME SnapshotInv, strategy = "file", WriterNext,
         UNCHANGED <<loaderVars, windowVars, strategy>>
  PROVE  SnapshotInv'
<1>. USE DEF SnapshotInv
<1>1. UNCHANGED <<log, seeded, pos, target, tainted, staging>>
  BY DEF WriterNext, NewPartWriter, WriteFirstManifest, WriteRow, OnSeal, OpenNext,
         CloseDropsEmpty, CloseSeals, Finish, ExtractorDies, logVars, loaderVars
<1>2. LogGrows /\ LogOK' /\ RowsKept
  BY <1>1, LogSame, RowsSame DEF LogOK
<1>3. TargetOK'
  BY <1>1, <1>2, TargetUntouched
<1>4. WindowOK'
  <2>1. \A i \in 1 .. Len(log') : i <= Len(log)
    BY <1>1 DEF LogOK
  <2>. QED
    BY <1>1, <1>2, <2>1, WindowUntouched
<1>5. ASSUME WriterOK', UNCHANGED object \/ ImportsRead'
      PROVE  SnapshotInv'
  <2>1. LoaderOK'
    BY <1>2, <1>5, LoaderUntouched
  <2>. QED
    BY <1>2, <1>3, <1>4, <1>5, <2>1
<1>6. CASE NewPartWriter
  BY <1>5, <1>6, NewPartWriterStep
<1>7. CASE WriteFirstManifest
  BY <1>5, <1>7, WriteFirstManifestStep
<1>8. CASE WriteRow
  BY <1>5, <1>8, WriteRowStep
<1>9. CASE OnSeal
  BY <1>1, <1>5, <1>9, OnSealStep DEF LoaderOK
<1>10. CASE OpenNext
  BY <1>5, <1>10, OpenNextStep
<1>11. CASE CloseDropsEmpty
  BY <1>5, <1>11, CloseDropsEmptyStep
<1>12. CASE CloseSeals
  BY <1>5, <1>12, CloseSealsStep
<1>13. CASE Finish
  BY <1>5, <1>13, FinishStep
<1>14. CASE ExtractorDies
  BY <1>5, <1>14, ExtractorDiesStep
<1>. QED
  BY <1>6, <1>7, <1>8, <1>9, <1>10, <1>11, <1>12, <1>13, <1>14 DEF WriterNext

-----------------------------------------------------------------------------
(***************************************************************************)
(* The steps of the loader.                                                *)
(***************************************************************************)

\* A digest whose rows are on the target stays so.
LEMMA OnTargetKept ==
  ASSUME RowsKept, NEW sum \in Seq(SnapRow), OnTarget(sum)
  PROVE  OnTarget(sum)'
<1>1. \A j \in DOMAIN sum : sum[j] \in SnapRow
  OBVIOUS
<1>2. \A j \in DOMAIN sum : sum[j].key \in Keys
  BY <1>1 DEF SnapRow
<1>. QED
  BY <1>2 DEF OnTarget, RowsKept

\* What a step of the pass has to grant.
LEMMA PassWritten ==
  ASSUME LoaderOK, UNCHANGED <<log, seeded, target, object, engine, load, staging, partState>>,
         pass' \in PassRec, faults' \in {faults, faults + 1},
         \A p \in pass'.todo : PartOK(log, seeded, p) /\ p.sum # NoFile
  PROVE  LoaderOK'
<1>1. LoaderType'
  BY DEF LoaderOK, LoaderType
<1>2. PartsInHand'
  BY DEF LoaderOK, PartsInHand
<1>3. ImportsRead'
  BY DEF LoaderOK, ImportsRead, Indexes
<1>4. StagingHeld'
  BY DEF LoaderOK, StagingHeld, InTransaction
<1>5. WholeOnTarget'
  BY DEF LoaderOK, WholeOnTarget, OnTarget
<1>. QED
  BY <1>1, <1>2, <1>3, <1>4, <1>5 DEF LoaderOK

\* What a step of one goroutine has to grant.
LEMMA SlotWritten ==
  ASSUME LoaderOK, UNCHANGED <<log, seeded, object>>, RowsKept,
         NEW g \in Goroutines, NEW s \in Slot, load' = [load EXCEPT ![g] = s],
         pass' \in PassRec, pass'.todo \subseteq pass.todo, faults' \in {faults, faults + 1},
         s.phase # "free" => PartOK(log, seeded, s.part) /\ s.part.sum # NoFile,
         s.phase \in {"merged", "committed"} /\ s.whole => OnTarget(s.part.sum)',
         staging' \in (SUBSET SnapRow) \cup {NoTable},
         staging' # NoTable => \A r \in staging' : ReadOnce(log, seeded, r),
         partState' \in SUBSET LoadedRec,
         \A e \in partState' : e \in partState \/ (e.whole => OnTarget(e.sum)'),
         StagingHeld'
  PROVE  LoaderOK'
<1>1. load \in [Goroutines -> Slot] /\ partState \in SUBSET LoadedRec
  BY DEF LoaderOK, LoaderType
<1>2. load' \in [Goroutines -> Slot] /\ load'[g] = s /\ \A h \in Goroutines : h # g => load'[h] = load[h]
  BY <1>1
<1>3. LoaderType'
  BY <1>2 DEF LoaderOK, LoaderType
<1>4. PartsInHand'
  <2>1. \A p \in pass'.todo : PartOK(log, seeded, p) /\ p.sum # NoFile
    BY DEF LoaderOK, PartsInHand
  <2>2. \A h \in Goroutines :
          load'[h].phase # "free" => PartOK(log, seeded, load'[h].part) /\ load'[h].part.sum # NoFile
    BY <1>2 DEF LoaderOK, PartsInHand
  <2>. QED
    BY <2>1, <2>2 DEF PartsInHand
<1>5. ImportsRead'
  BY DEF LoaderOK, ImportsRead, Indexes
<1>6. WholeOnTarget'
  <2>1. ASSUME NEW h \in Goroutines, load'[h].phase \in {"merged", "committed"}, load'[h].whole
        PROVE  OnTarget(load[h].part.sum)'
    <3>1. CASE h = g
      BY <1>2, <2>1, <3>1
    <3>2. CASE h # g
      <4>1. load'[h] = load[h] /\ load[h] \in Slot
        BY <1>1, <1>2, <3>2
      <4>2. load[h].part.sum \in Seq(SnapRow)
        <5>1. load[h].part.sum # NoFile /\ load[h].part \in PartRec
          BY <2>1, <4>1 DEF LoaderOK, PartsInHand, Slot
        <5>. QED
          BY <5>1 DEF PartRec, File
      <4>3. OnTarget(load[h].part.sum)
        BY <2>1, <4>1 DEF LoaderOK, WholeOnTarget
      <4>4. ASSUME NEW sum, sum = load[h].part.sum
            PROVE  OnTarget(sum)'
        BY <4>2, <4>3, <4>4, OnTargetKept
      <4>5. ASSUME NEW sum, sum = load'[h].part.sum
            PROVE  OnTarget(sum)'
        BY <4>1, <4>4, <4>5
      <4>. QED
        BY <4>5 DEF OnTarget
    <3>. QED
      BY <3>1, <3>2
  <2>2. ASSUME NEW e \in partState', e.whole
        PROVE  OnTarget(e.sum)'
    <3>1. CASE e \in partState
      <4>1. OnTarget(e.sum) /\ e.sum \in Seq(SnapRow)
        BY <1>1, <2>2, <3>1 DEF LoaderOK, WholeOnTarget, LoadedRec
      <4>. QED
        BY <4>1, OnTargetKept
    <3>. QED
      BY <2>2, <3>1
  <2>. QED
    BY <2>1, <2>2 DEF WholeOnTarget
<1>. QED
  BY <1>3, <1>4, <1>5, <1>6 DEF LoaderOK

\* The next part is one of the pass.
LEMMA NextPartIn ==
  ASSUME LoaderOK, pass.todo # {}
  PROVE  /\ NextPart \in pass.todo /\ NextPart \in PartRec
         /\ PartOK(log, seeded, NextPart) /\ NextPart.sum # NoFile
<1>1. pass.todo \in SUBSET PartRec
  BY DEF LoaderOK, LoaderType, PassRec
<1>. DEFINE T == {p.index : p \in pass.todo}
<1>2. T \in SUBSET Nat /\ T # {}
  BY <1>1, IndexesTyped DEF PartRec
<1>3. PICK x \in T : \A y \in T : x <= y
  BY <1>2, LeastNat
<1>4. PICK p \in pass.todo : p.index = x
  BY <1>3
<1>5. \A q \in pass.todo : p.index <= q.index
  BY <1>3, <1>4
<1>6. NextPart \in pass.todo
  BY <1>4, <1>5 DEF NextPart
<1>. QED
  BY <1>1, <1>6 DEF LoaderOK, PartsInHand

\* Every step of the pass itself.
LEMMA PassStep ==
  ASSUME WriterOK, LoaderOK, BeginPass \/ SkipLoaded \/ PassFails \/ EndPass
  PROVE  LoaderOK' /\ UNCHANGED <<logVars, writerVars, tainted>>
<1>1. pass \in PassRec /\ \A p \in pass.todo : PartOK(log, seeded, p) /\ p.sum # NoFile
  BY DEF LoaderOK, LoaderType, PartsInHand
<1>2. UNCHANGED <<log, seeded, target, object, engine, load, staging, partState>>
      /\ UNCHANGED <<logVars, writerVars, tainted>>
      /\ faults' \in {faults, faults + 1}
  BY DEF BeginPass, SkipLoaded, PassFails, EndPass, Fault, logVars, writerVars
<1>3. IdlePass \in PassRec /\ IdlePass.todo = {}
  BY DEF IdlePass, PassRec
<1>4. CASE BeginPass
  <2>. DEFINE T == SealedParts(manifest)
  <2>1. \A p \in T : p \in PartRec /\ PartOK(log, seeded, p) /\ p.sum # NoFile
    <3>. TAKE p \in T
    <3>1. PICK i \in DOMAIN manifest.parts : p = manifest.parts[i] /\ Eligible(p)
      BY DEF SealedParts, Range
    <3>2. manifest.parts \in Seq(PartRec)
      BY DEF WriterOK, WriterType, ManifestRec
    <3>3. i \in 1 .. Len(manifest.parts) /\ p \in PartRec
      BY <3>1, <3>2
    <3>. QED
      BY <3>1, <3>3 DEF WriterOK, ManifestOK, Eligible
  <2>. HIDE DEF T
  <2>2. pass' = [on |-> TRUE, todo |-> T, mine |-> {}, sem |-> faults] /\ faults \in Nat
    BY <1>4 DEF BeginPass, T, LoaderOK, LoaderType
  <2>3. pass' \in PassRec /\ pass'.todo = T
    BY <2>1, <2>2 DEF PassRec
  <2>. QED
    BY <1>2, <2>1, <2>3, PassWritten
<1>5. CASE SkipLoaded
  <2>1. pass' = [pass EXCEPT !.todo = @ \ {NextPart}]
    BY <1>5 DEF SkipLoaded
  <2>2. pass' \in PassRec /\ pass'.todo \subseteq pass.todo
    BY <1>1, <2>1 DEF PassRec
  <2>. QED
    BY <1>1, <1>2, <2>2, PassWritten
<1>6. CASE PassFails \/ EndPass
  <2>1. pass' = IdlePass
    BY <1>6 DEF PassFails, EndPass
  <2>2. \A p \in pass'.todo : PartOK(log, seeded, p) /\ p.sum # NoFile
    BY <1>3, <2>1
  <2>. QED
    BY <1>2, <1>3, <2>1, <2>2, PassWritten
<1>. QED
  BY <1>4, <1>5, <1>6

\* A goroutine that moves on keeps its part.
LEMMA SlotMoves ==
  ASSUME NEW s \in Slot,
         NEW ph \in {"free", "queued", "verified", "created", "imported", "merged", "committed"},
         NEW t, t = [s EXCEPT !.phase = ph]
  PROVE  t \in Slot /\ t.phase = ph /\ t.part = s.part /\ t.rows = s.rows /\ t.whole = s.whole
BY DEF Slot

\* A free goroutine has no part.
LEMMA FreeSlotTyped ==
  FreeSlot \in Slot /\ FreeSlot.phase = "free" /\ Part(0, 0, "writing", NoFile) \in PartRec
<1>. DEFINE p == Part(0, 0, "writing", NoFile)
<1>1. p \in PartRec
  BY IndexesTyped DEF Part, PartRec, File
<1>. HIDE DEF p
<1>2. FreeSlot = [phase |-> "free", part |-> p, rows |-> {}, whole |-> FALSE, sem |-> 0]
  BY DEF FreeSlot, p
<1>. QED
  BY <1>1, <1>2 DEF Slot, p

\* A goroutine outside a load transaction, or one that ends it and takes the
\* staging table with it, leaves the staging table to the others.
LEMMA StagingLeft ==
  ASSUME LoaderOK, UNCHANGED engine,
         NEW g \in Goroutines, NEW s \in Slot, load' = [load EXCEPT ![g] = s],
         s.phase \notin {"created", "imported", "merged"},
         engine = "postgres" => staging' = IF InTransaction(g) THEN NoTable ELSE staging
  PROVE  StagingHeld'
<1>. SUFFICES ASSUME engine = "postgres"
              PROVE  StagingHeld'
  BY DEF StagingHeld
<1>1. load \in [Goroutines -> Slot] /\ StagingHeld
  BY DEF LoaderOK, LoaderType
<1>2. load'[g] = s /\ \A h \in Goroutines : h # g => load'[h] = load[h]
  BY <1>1
<1>3. ~InTransaction(g)' /\ \A h \in Goroutines : h # g => (InTransaction(h)' <=> InTransaction(h))
  BY <1>2 DEF InTransaction
<1>4. CASE InTransaction(g)
  <2>1. staging' = NoTable
    BY <1>4
  <2>2. \A h \in Goroutines : ~InTransaction(h)'
    BY <1>1, <1>3, <1>4 DEF StagingHeld
  <2>3. \A h \in Goroutines : load'[h].phase \notin {"created", "imported"}
    BY <2>2 DEF InTransaction
  <2>4. \A h \in Goroutines : load'[h].phase # "merged"
    BY <1>1, <1>2 DEF StagingHeld
  <2>. QED
    BY <2>1, <2>2, <2>3, <2>4 DEF StagingHeld
<1>5. CASE ~InTransaction(g)
  <2>1. staging' = staging
    BY <1>5
  <2>2. (\A h \in Goroutines : ~InTransaction(h)') => \A h \in Goroutines : ~InTransaction(h)
    BY <1>3, <1>5
  <2>3. \A h \in Goroutines :
          /\ load'[h].phase # "merged"
          /\ load'[h].phase = "created" => staging' = {}
          /\ load'[h].phase = "imported" => staging' = load'[h].rows
    BY <1>1, <1>2, <2>1 DEF StagingHeld
  <2>4. \A h, i \in Goroutines : InTransaction(h)' /\ InTransaction(i)' => h = i
    BY <1>1, <1>3 DEF StagingHeld
  <2>5. (\A h \in Goroutines : ~InTransaction(h)') => staging' = NoTable
    BY <1>1, <2>1, <2>2 DEF StagingHeld
  <2>. QED
    BY <2>3, <2>4, <2>5 DEF StagingHeld
<1>. QED
  BY <1>4, <1>5

\* Spawn: the goroutine takes its part from the pass.
LEMMA SpawnStep ==
  ASSUME LogOK, TargetOK, LoaderOK, NEW g \in Goroutines, Spawn(g)
  PROVE  LoaderOK' /\ UNCHANGED <<logVars, writerVars, tainted>>
<1>. DEFINE p == NextPart
            s == [FreeSlot EXCEPT !.phase = "queued", !.part = p, !.sem = pass.sem]
<1>1. /\ pass.todo # {} /\ load[g].phase = "free"
      /\ load' = [load EXCEPT ![g] = s]
      /\ pass' = [pass EXCEPT !.todo = @ \ {p}, !.mine = @ \cup {g}]
      /\ UNCHANGED <<log, seeded, target, object, engine, staging, partState, faults>>
      /\ UNCHANGED <<logVars, writerVars, tainted>>
  BY DEF Spawn, logVars, writerVars
<1>2. p \in PartRec /\ PartOK(log, seeded, p) /\ p.sum # NoFile /\ pass.sem \in Nat
  BY <1>1, NextPartIn DEF LoaderOK, LoaderType, PassRec
<1>. HIDE DEF p
<1>3. s \in Slot /\ s.phase = "queued" /\ s.part = p
  BY <1>2, FreeSlotTyped DEF Slot
<1>. HIDE DEF s
<1>4. pass \in PassRec /\ staging \in (SUBSET SnapRow) \cup {NoTable}
      /\ partState \in SUBSET LoadedRec
  BY DEF LoaderOK, LoaderType
<1>5. pass' \in PassRec /\ pass'.todo \subseteq pass.todo
  BY <1>1, <1>4 DEF PassRec
<1>6. staging # NoTable => \A r \in staging : ReadOnce(log, seeded, r)
  BY DEF LoaderOK, ImportsRead
<1>7. RowsKept
  BY <1>1, RowsSame
<1>8. StagingHeld'
  BY <1>1, <1>3, StagingLeft DEF InTransaction
<1>. QED
  BY <1>1, <1>2, <1>3, <1>4, <1>5, <1>6, <1>7, <1>8, SlotWritten

\* Acquire.
LEMMA AcquireStep ==
  ASSUME LogOK, TargetOK, LoaderOK, NEW g \in Goroutines, Acquire(g)
  PROVE  LoaderOK' /\ UNCHANGED <<logVars, writerVars, tainted>>
<1>. DEFINE s == [load[g] EXCEPT !.phase = "verified"]
<1>1. /\ load[g].phase = "queued" /\ load' = [load EXCEPT ![g] = s]
      /\ UNCHANGED <<log, seeded, target, object, engine, pass, staging, partState, faults>>
      /\ UNCHANGED <<logVars, writerVars, tainted>>
  BY DEF Acquire, logVars, writerVars
<1>2. /\ load[g] \in Slot /\ pass \in PassRec /\ staging \in (SUBSET SnapRow) \cup {NoTable}
      /\ partState \in SUBSET LoadedRec
  BY DEF LoaderOK, LoaderType
<1>3. s \in Slot /\ s.phase = "verified" /\ s.part = load[g].part
  BY <1>2, SlotMoves
<1>. HIDE DEF s
<1>4. PartOK(log, seeded, s.part) /\ s.part.sum # NoFile
  BY <1>1, <1>3 DEF LoaderOK, PartsInHand
<1>5. staging # NoTable => \A r \in staging : ReadOnce(log, seeded, r)
  BY DEF LoaderOK, ImportsRead
<1>6. RowsKept
  BY <1>1, RowsSame
<1>7. StagingHeld'
  BY <1>1, <1>3, StagingLeft DEF InTransaction
<1>. QED
  BY <1>1, <1>2, <1>3, <1>4, <1>5, <1>6, <1>7, SlotWritten

\* CreateStaging: on Postgres no transaction has the table.
LEMMA CreateStagingStep ==
  ASSUME LogOK, TargetOK, LoaderOK, NEW g \in Goroutines, CreateStaging(g)
  PROVE  LoaderOK' /\ UNCHANGED <<logVars, writerVars, tainted>>
<1>. DEFINE s == [load[g] EXCEPT !.phase = "created"]
<1>1. /\ load[g].phase = "verified" /\ load' = [load EXCEPT ![g] = s]
      /\ engine = "postgres" => \A h \in Goroutines : ~InTransaction(h)
      /\ staging' = IF staging = NoTable THEN {} ELSE staging
      /\ UNCHANGED <<log, seeded, target, object, engine, pass, partState, faults>>
      /\ UNCHANGED <<logVars, writerVars, tainted>>
  BY DEF CreateStaging, logVars, writerVars
<1>2. /\ load[g] \in Slot /\ pass \in PassRec /\ staging \in (SUBSET SnapRow) \cup {NoTable}
      /\ partState \in SUBSET LoadedRec
      /\ load \in [Goroutines -> Slot]
  BY DEF LoaderOK, LoaderType
<1>3. s \in Slot /\ s.phase = "created" /\ s.part = load[g].part
  BY <1>2, SlotMoves
<1>. HIDE DEF s
<1>4. PartOK(log, seeded, s.part) /\ s.part.sum # NoFile
  BY <1>1, <1>3 DEF LoaderOK, PartsInHand
<1>5. /\ staging' \in (SUBSET SnapRow) \cup {NoTable}
      /\ staging' # NoTable => \A r \in staging' : ReadOnce(log, seeded, r)
  <2>1. staging # NoTable => \A r \in staging : ReadOnce(log, seeded, r)
    BY DEF LoaderOK, ImportsRead
  <2>2. CASE staging = NoTable
    BY <1>1, <2>2
  <2>3. CASE staging # NoTable
    BY <1>1, <1>2, <2>1, <2>3
  <2>. QED
    BY <2>2, <2>3
<1>6. RowsKept
  BY <1>1, RowsSame
<1>7. StagingHeld'
  <2>. SUFFICES ASSUME engine = "postgres"
                PROVE  StagingHeld'
    BY <1>1 DEF StagingHeld
  <2>1. StagingHeld /\ \A h \in Goroutines : ~InTransaction(h)
    BY <1>1 DEF LoaderOK
  <2>2. staging' = {}
    BY <1>1, <2>1 DEF StagingHeld
  <2>3. load'[g] = s /\ \A h \in Goroutines : h # g => load'[h] = load[h]
    BY <1>1, <1>2
  <2>4. \A h \in Goroutines : h # g => load'[h].phase \notin {"created", "imported", "merged"}
    BY <2>1, <2>3 DEF InTransaction, StagingHeld
  <2>5. InTransaction(g)' /\ \A h \in Goroutines : h # g => ~InTransaction(h)'
    BY <1>3, <2>3, <2>4 DEF InTransaction
  <2>6. \A h \in Goroutines : load'[h].phase \notin {"imported", "merged"}
    BY <1>3, <2>3, <2>4
  <2>. QED
    BY <2>2, <2>5, <2>6 DEF StagingHeld
<1>. QED
  BY <1>1, <1>2, <1>3, <1>4, <1>5, <1>6, <1>7, SlotWritten

\* BulkImport: the rows of the object were read from the source at some time.
LEMMA BulkImportStep ==
  ASSUME LogOK, TargetOK, WriterOK, LoaderOK, NEW g \in Goroutines, BulkImport(g)
  PROVE  LoaderOK' /\ UNCHANGED <<logVars, writerVars, tainted>>
<1>. DEFINE o == object[load[g].part.index]
            R == Range(o)
            s == [load[g] EXCEPT !.phase = "imported", !.rows = R]
<1>1. /\ load[g].phase = "created" /\ ~ImportFails(o)
      /\ staging' = staging \cup R
      /\ load' = [load EXCEPT ![g].phase = "imported", ![g].rows = R]
      /\ UNCHANGED <<log, seeded, target, object, engine, pass, partState, faults>>
      /\ UNCHANGED <<logVars, writerVars, tainted>>
  BY DEF BulkImport, logVars, writerVars
<1>2. /\ load[g] \in Slot /\ pass \in PassRec /\ staging \in (SUBSET SnapRow) \cup {NoTable}
      /\ partState \in SUBSET LoadedRec
      /\ load \in [Goroutines -> Slot]
  BY DEF LoaderOK, LoaderType
<1>3. o # NoFile /\ staging # NoTable
  BY <1>1 DEF ImportFails
<1>4. R \in SUBSET SnapRow /\ \A r \in R : ReadOnce(log, seeded, r)
  <2>. load[g].part.index \in Indexes
    BY <1>2 DEF Slot, PartRec
  <2>1. o \in File
    BY DEF WriterOK, WriterType
  <2>2. o \in Seq(SnapRow)
    BY <1>3, <2>1 DEF File
  <2>3. \A j \in DOMAIN o : o[j] \in SnapRow /\ ReadOnce(log, seeded, o[j])
    BY <1>3, <2>2 DEF LoaderOK, ImportsRead
  <2>. HIDE DEF o
  <2>. QED
    BY <2>3 DEF Range
<1>. HIDE DEF R
<1>5. s \in Slot /\ s.phase = "imported" /\ s.part = load[g].part /\ s.rows = R
  BY <1>2, <1>4 DEF Slot
<1>6. load' = [load EXCEPT ![g] = s]
  BY <1>1, <1>2
<1>. HIDE DEF s
<1>7. PartOK(log, seeded, s.part) /\ s.part.sum # NoFile
  BY <1>1, <1>5 DEF LoaderOK, PartsInHand
<1>8. /\ staging' \in (SUBSET SnapRow) \cup {NoTable}
      /\ staging' # NoTable => \A r \in staging' : ReadOnce(log, seeded, r)
  <2>1. \A r \in staging : ReadOnce(log, seeded, r)
    BY <1>3 DEF LoaderOK, ImportsRead
  <2>. QED
    BY <1>1, <1>2, <1>3, <1>4, <2>1
<1>9. RowsKept
  BY <1>1, RowsSame
<1>10. StagingHeld'
  <2>. SUFFICES ASSUME engine = "postgres"
                PROVE  StagingHeld'
    BY <1>1 DEF StagingHeld
  <2>1. StagingHeld /\ InTransaction(g) /\ staging = {}
    BY <1>1 DEF LoaderOK, InTransaction, StagingHeld
  <2>2. staging' = R
    BY <1>1, <2>1
  <2>3. load'[g] = s /\ \A h \in Goroutines : h # g => load'[h] = load[h]
    BY <1>2, <1>6
  <2>4. \A h \in Goroutines : h # g => ~InTransaction(h) /\ load[h].phase # "merged"
    BY <2>1 DEF StagingHeld
  <2>5. \A h \in Goroutines : h # g => load'[h].phase \notin {"created", "imported", "merged"}
    BY <2>3, <2>4 DEF InTransaction
  <2>6. InTransaction(g)' /\ \A h \in Goroutines : h # g => ~InTransaction(h)'
    BY <1>5, <2>3, <2>5 DEF InTransaction
  <2>7. \A h \in Goroutines :
          /\ load'[h].phase # "merged"
          /\ load'[h].phase = "created" => staging' = {}
          /\ load'[h].phase = "imported" => staging' = load'[h].rows
    BY <1>5, <2>2, <2>3, <2>5
  <2>. QED
    BY <2>6, <2>7 DEF StagingHeld
<1>. QED
  BY <1>1, <1>2, <1>5, <1>6, <1>7, <1>8, <1>9, <1>10, SlotWritten

\* The merge: what the part's digest vouches for is fresh under the part's LSN,
\* and what it does not vouch for taints its key.
LEMMA MergedOK ==
  ASSUME LogOK, TargetOK, LoaderOK, NEW g \in Goroutines, load[g].phase = "imported",
         NEW p, p = load[g].part, MergePart(p), UNCHANGED <<log, seeded, pos>>
  PROVE  /\ TargetOK' /\ RowsKept
         /\ Range(p.sum) \subseteq staging => OnTarget(p.sum)'
<1>1. /\ staging # NoTable
      /\ target' = MergedOnto(target, staging, p.lsn)
      /\ tainted' = tainted \cup KeysOf(staging \ Range(p.sum))
  BY DEF MergePart
<1>2. p \in PartRec /\ PartOK(log, seeded, p) /\ p.sum # NoFile
  BY DEF LoaderOK, LoaderType, PartsInHand, Slot
<1>3. p.lsn \in Nat /\ p.lsn \in 0 .. Len(log) /\ p.sum \in Seq(SnapRow) /\ log \in Seq(LogEntry)
  BY <1>2 DEF PartRec, PartOK, File, LogOK
<1>4. staging \in SUBSET SnapRow /\ \A r \in staging : ReadOnce(log, seeded, r)
  BY <1>1 DEF LoaderOK, LoaderType, ImportsRead
<1>5. \A r \in staging : r.key \in Keys /\ r.ver \in Nat /\ r = [key |-> r.key, ver |-> r.ver]
  BY <1>4 DEF SnapRow
<1>6. /\ target \in [Keys -> Row(Img) \cup {NoRow}]
      /\ \A k \in Keys : RowOK(log, seeded, k, target[k])
  BY DEF TargetOK
<1>7. ASSUME NEW k \in Keys, k \in KeysOf(staging)
      PROVE  /\ target'[k] \in Row(Img) /\ target'[k] # NoRow
             /\ target[k] # NoRow => target'[k].lsn >= target[k].lsn
             /\ RowOK(log, seeded, k, target'[k])
             /\ k \notin tainted' => Fresh(log, seeded, k, target'[k])
  <2>. DEFINE r == CHOOSE x \in staging : x.key = k
  <2>1. r \in staging /\ r.key = k
    BY <1>7 DEF KeysOf
  <2>2. target'[k] = MergeStaging(target[k], p.lsn, r.ver)
    BY <1>1, <1>7 DEF MergedOnto
  <2>. HIDE DEF r
  <2>3. r.ver \in Nat /\ r = [key |-> k, ver |-> r.ver] /\ ReadOnce(log, seeded, r)
    BY <1>4, <1>5, <2>1
  <2>4. ReadOnce(log, seeded, [key |-> k, ver |-> r.ver])
    BY <2>3
  <2>5. target[k] \in Row(Img) \cup {NoRow} /\ RowOK(log, seeded, k, target[k])
    BY <1>6
  <2>6. /\ target'[k] \in Row(Img) /\ target'[k] # NoRow
        /\ target[k] # NoRow => target'[k].lsn >= target[k].lsn
        /\ RowOK(log, seeded, k, target'[k])
        /\ Fresh(log, seeded, k, target[k]) /\ ReadAfter(log, seeded, [key |-> k, ver |-> r.ver], p.lsn)
             => Fresh(log, seeded, k, target'[k])
    BY <1>3, <2>2, <2>3, <2>4, <2>5, MergeFresh
  <2>7. ASSUME k \notin tainted'
        PROVE  Fresh(log, seeded, k, target'[k])
    <3>1. k \notin tainted /\ r \in Range(p.sum)
      BY <1>1, <2>1, <2>7 DEF KeysOf
    <3>2. ReadAfter(log, seeded, r, p.lsn)
      BY <1>2, <3>1 DEF Range, PartOK
    <3>3. Fresh(log, seeded, k, target[k])
      BY <3>1 DEF TargetOK
    <3>. QED
      BY <2>3, <2>6, <3>2, <3>3
  <2>. QED
    BY <2>6, <2>7
<1>8. ASSUME NEW k \in Keys, k \notin KeysOf(staging)
      PROVE  target'[k] = target[k]
  BY <1>1, <1>8 DEF MergedOnto
<1>9. target' \in [Keys -> Row(Img) \cup {NoRow}]
  <2>1. \A k \in Keys : target'[k] \in Row(Img) \cup {NoRow}
    BY <1>6, <1>7, <1>8
  <2>2. target' = [k \in Keys |-> target'[k]]
    BY <1>1 DEF MergedOnto
  <2>. QED
    BY <2>1, <2>2
<1>10. RowsKept
  <2>1. \A k \in Keys : target[k] # NoRow => target[k].lsn >= target[k].lsn
    BY <1>6 DEF Row
  <2>. QED
    BY <1>7, <1>8, <2>1 DEF RowsKept
<1>11. \A k \in Keys : RowOK(log, seeded, k, target'[k])
  BY <1>6, <1>7, <1>8
<1>12. ASSUME NEW k \in Keys \ tainted'
       PROVE  Fresh(log, seeded, k, target'[k])
  <2>1. CASE k \in KeysOf(staging)
    BY <1>7, <2>1
  <2>2. CASE k \notin KeysOf(staging)
    <3>1. k \notin tainted
      BY <1>1
    <3>. QED
      BY <1>8, <2>2, <3>1 DEF TargetOK
  <2>. QED
    BY <2>1, <2>2
<1>13. TargetOK'
  <2>1. pos' \in 0 .. Len(log) /\ \A i \in 1 .. pos' : i <= pos
    BY DEF LogOK
  <2>. QED
    BY <1>9, <1>10, <1>11, <1>12, <2>1, TargetWritten
<1>14. ASSUME Range(p.sum) \subseteq staging
       PROVE  OnTarget(p.sum)'
  <2>1. \A j \in DOMAIN p.sum : p.sum[j] \in staging
    BY <1>14 DEF Range
  <2>2. \A j \in DOMAIN p.sum : p.sum[j].key \in Keys /\ p.sum[j].key \in KeysOf(staging)
    BY <1>5, <2>1 DEF KeysOf
  <2>3. \A j \in DOMAIN p.sum : target'[p.sum[j].key] # NoRow
    BY <1>7, <2>2
  <2>. QED
    BY <2>3 DEF OnTarget
<1>. QED
  BY <1>10, <1>13, <1>14

\* CommitLoad and MergeStaged: the merge, with or without the end of the
\* transaction.
LEMMA MergeStep ==
  ASSUME LogOK, TargetOK, LoaderOK, NEW g \in Goroutines, CommitLoad(g) \/ MergeStaged(g)
  PROVE  /\ LoaderOK' /\ TargetOK' /\ RowsKept
         /\ UNCHANGED <<seeded, log, pos, writerVars>>
<1>. DEFINE p == load[g].part
            b == Range(p.sum) \subseteq staging
            ph == IF engine = "postgres" THEN "committed" ELSE "merged"
<1>1. /\ load[g].phase = "imported" /\ MergePart(p)
      /\ UNCHANGED <<seeded, log, pos, writerVars, engine, pass, partState, faults>>
  BY DEF CommitLoad, MergeStaged
<1>2. \/ engine = "postgres" /\ staging' = NoTable
      \/ engine = "mysql" /\ staging' = staging
  BY DEF CommitLoad, MergeStaged
<1>3. \/ engine = "postgres" /\ ph = "committed"
      \/ engine = "mysql" /\ ph = "merged"
  BY <1>2
<1>4. load' = [load EXCEPT ![g].phase = ph, ![g].rows = {}, ![g].whole = b]
  <2>1. CASE CommitLoad(g)
    <3>1. ph = "committed"
      BY <2>1 DEF CommitLoad
    <3>. HIDE DEF ph
    <3>. QED
      BY <2>1, <3>1 DEF CommitLoad
  <2>2. CASE MergeStaged(g)
    <3>1. ph = "merged"
      BY <2>2 DEF MergeStaged
    <3>. HIDE DEF ph
    <3>. QED
      BY <2>2, <3>1 DEF MergeStaged
  <2>. QED
    BY <2>1, <2>2
<1>. HIDE DEF ph
<1>5. b \in BOOLEAN
  OBVIOUS
<1>6. TargetOK' /\ RowsKept
  BY <1>1, MergedOK
<1>7. ASSUME NEW q, q = p, b
      PROVE  OnTarget(q.sum)'
  BY <1>1, <1>7, MergedOK
<1>. DEFINE c == b
<1>8. c \in BOOLEAN /\ (c <=> b)
  BY <1>5
<1>9. load' = [load EXCEPT ![g].phase = ph, ![g].rows = {}, ![g].whole = c]
  BY <1>4
<1>. HIDE DEF c
<1>. DEFINE t == [load[g] EXCEPT !.phase = ph, !.rows = {}, !.whole = c]
<1>10. /\ load[g] \in Slot /\ pass \in PassRec /\ staging \in (SUBSET SnapRow) \cup {NoTable}
       /\ partState \in SUBSET LoadedRec
       /\ load \in [Goroutines -> Slot]
  BY DEF LoaderOK, LoaderType
<1>11. t \in Slot /\ t.phase = ph /\ t.part = p /\ t.whole = c
  <2>. HIDE DEF b, p
  <2>1. t \in Slot
    BY <1>3, <1>8, <1>10 DEF Slot
  <2>2. t.phase = ph /\ t.part = load[g].part /\ t.whole = c
    BY <1>10 DEF Slot
  <2>. QED
    BY <2>1, <2>2 DEF p
<1>12. load' = [load EXCEPT ![g] = t]
  <2>. HIDE DEF b
  <2>. QED
    BY <1>9, <1>10
<1>. HIDE DEF t
<1>13. PartOK(log, seeded, t.part) /\ t.part.sum # NoFile
  BY <1>1, <1>11 DEF LoaderOK, PartsInHand
<1>14. \A x : x = t /\ x.whole => OnTarget(x.part.sum)'
  BY <1>7, <1>8, <1>11
<1>15. /\ staging' \in (SUBSET SnapRow) \cup {NoTable}
       /\ staging' # NoTable => \A r \in staging' : ReadOnce(log, seeded, r)
  <2>1. staging # NoTable => \A r \in staging : ReadOnce(log, seeded, r)
    BY DEF LoaderOK, ImportsRead
  <2>. QED
    BY <1>2, <1>10, <2>1
<1>16. StagingHeld'
  <2>1. CASE engine = "postgres"
    <3>1. t.phase = "committed" /\ staging' = NoTable /\ InTransaction(g) /\ engine' = engine
      BY <1>1, <1>2, <1>3, <1>11, <2>1 DEF InTransaction
    <3>. QED
      BY <1>11, <1>12, <3>1, StagingLeft
  <2>2. CASE engine # "postgres"
    BY <1>1, <2>2 DEF StagingHeld
  <2>. QED
    BY <2>1, <2>2
<1>17. UNCHANGED <<log, seeded, object>>
  BY <1>1 DEF writerVars
<1>18. LoaderOK'
  BY <1>1, <1>6, <1>10, <1>11, <1>12, <1>13, <1>14, <1>15, <1>16, <1>17, SlotWritten
<1>. QED
  BY <1>1, <1>6, <1>18

\* DropStaging: the goroutine's transaction ended with its CREATE.
LEMMA DropStagingStep ==
  ASSUME LogOK, TargetOK, LoaderOK, NEW g \in Goroutines, DropStaging(g)
  PROVE  LoaderOK' /\ UNCHANGED <<logVars, writerVars, tainted>>
<1>. DEFINE s == [load[g] EXCEPT !.phase = "committed"]
<1>1. /\ load[g].phase = "merged" /\ load' = [load EXCEPT ![g] = s] /\ staging' = NoTable
      /\ UNCHANGED <<log, seeded, target, object, engine, pass, partState, faults>>
      /\ UNCHANGED <<logVars, writerVars, tainted>>
  BY DEF DropStaging, logVars, writerVars
<1>2. /\ load[g] \in Slot /\ pass \in PassRec
      /\ partState \in SUBSET LoadedRec
  BY DEF LoaderOK, LoaderType
<1>3. s \in Slot /\ s.phase = "committed" /\ s.part = load[g].part /\ s.whole = load[g].whole
  BY <1>2, SlotMoves
<1>. HIDE DEF s
<1>4. PartOK(log, seeded, s.part) /\ s.part.sum # NoFile
  BY <1>1, <1>3 DEF LoaderOK, PartsInHand
<1>5. ASSUME NEW x, x = s, x.whole
      PROVE  OnTarget(x.part.sum)'
  <2>1. OnTarget(x.part.sum)
    BY <1>1, <1>3, <1>5 DEF LoaderOK, WholeOnTarget
  <2>. QED
    BY <1>1, <2>1 DEF OnTarget
<1>6. RowsKept
  BY <1>1, RowsSame
<1>7. engine # "postgres"
  BY <1>1 DEF LoaderOK, StagingHeld
<1>8. StagingHeld'
  BY <1>1, <1>7 DEF StagingHeld
<1>9. staging' \in (SUBSET SnapRow) \cup {NoTable}
  BY <1>1
<1>. QED
  BY <1>1, <1>2, <1>3, <1>4, <1>5, <1>6, <1>8, <1>9, SlotWritten

\* A goroutine that returns, after a rollback or with its part recorded.
LEMMA LeaveStep ==
  ASSUME LogOK, TargetOK, LoaderOK, NEW g \in Goroutines, Leave(g),
         UNCHANGED <<log, seeded, target, object, engine>>,
         staging' = RolledBack({g}), faults' \in {faults, faults + 1},
         partState' \in SUBSET LoadedRec,
         \A e \in partState' : e \in partState \/ (e.whole => OnTarget(e.sum)')
  PROVE  LoaderOK'
<1>1. load' = [load EXCEPT ![g] = FreeSlot] /\ pass' = [pass EXCEPT !.mine = @ \ {g}]
  BY DEF Leave
<1>2. pass \in PassRec /\ staging \in (SUBSET SnapRow) \cup {NoTable}
  BY DEF LoaderOK, LoaderType
<1>3. pass' \in PassRec /\ pass'.todo \subseteq pass.todo
  BY <1>1, <1>2 DEF PassRec
<1>4. staging' = staging \/ staging' = NoTable
  BY DEF RolledBack
<1>5. /\ staging' \in (SUBSET SnapRow) \cup {NoTable}
      /\ staging' # NoTable => \A r \in staging' : ReadOnce(log, seeded, r)
  BY <1>2, <1>4 DEF LoaderOK, ImportsRead
<1>6. engine = "postgres" => staging' = IF InTransaction(g) THEN NoTable ELSE staging
  BY DEF RolledBack
<1>7. StagingHeld'
  BY <1>1, <1>6, FreeSlotTyped, StagingLeft
<1>8. RowsKept
  BY RowsSame
<1>. QED
  BY <1>1, <1>3, <1>5, <1>7, <1>8, FreeSlotTyped, SlotWritten

\* MarkPartLoaded, and the loads that do not succeed.
LEMMA ReturnStep ==
  ASSUME LogOK, TargetOK, LoaderOK, NEW g \in Goroutines,
         MarkPartLoaded(g) \/ LoadRefused(g) \/ LoadFails(g)
  PROVE  LoaderOK' /\ UNCHANGED <<logVars, writerVars, tainted>>
<1>1. partState \in SUBSET LoadedRec /\ load[g] \in Slot
  BY DEF LoaderOK, LoaderType
<1>2. CASE MarkPartLoaded(g)
  <2>. DEFINE p == load[g].part
              e == [index |-> p.index, sum |-> p.sum, whole |-> load[g].whole]
  <2>1. /\ load[g].phase = "committed" /\ partState' = partState \cup {e} /\ Leave(g)
        /\ UNCHANGED <<log, seeded, target, object, engine, staging, faults>>
        /\ UNCHANGED <<logVars, writerVars, tainted>>
    BY <1>2 DEF MarkPartLoaded, logVars, writerVars
  <2>2. staging' = RolledBack({g})
    BY <2>1 DEF RolledBack, InTransaction
  <2>3. p \in PartRec /\ p.sum # NoFile /\ load[g].whole \in BOOLEAN
        /\ (load[g].whole => OnTarget(p.sum))
    BY <1>1, <2>1 DEF LoaderOK, PartsInHand, WholeOnTarget, Slot
  <2>4. p.index \in Nat /\ p.sum \in Seq(SnapRow)
    BY <2>3, IndexesTyped DEF PartRec, File
  <2>5. e \in LoadedRec /\ e.sum = p.sum
        /\ e.whole = load[g].whole
    BY <2>3, <2>4 DEF LoadedRec
  <2>. HIDE DEF e
  <2>6. ASSUME NEW x, x = e, x.whole
        PROVE  OnTarget(x.sum)'
    <3>1. OnTarget(x.sum)
      BY <2>3, <2>5, <2>6
    <3>. QED
      BY <2>1, <3>1 DEF OnTarget
  <2>7. \A x \in partState' : x \in partState \/ (x.whole => OnTarget(x.sum)')
    BY <2>1, <2>6
  <2>8. partState' \in SUBSET LoadedRec
    BY <1>1, <2>1, <2>5
  <2>9. LoaderOK'
    BY <2>1, <2>2, <2>7, <2>8, LeaveStep
  <2>. QED
    BY <2>1, <2>9
<1>3. CASE LoadRefused(g) \/ LoadFails(g)
  <2>1. /\ staging' = RolledBack({g}) /\ Leave(g) /\ faults' \in {faults, faults + 1}
        /\ UNCHANGED <<logVars, writerVars, engine, partState, tainted>>
    BY <1>3 DEF LoadRefused, LoadFails, Release, Fault
  <2>2. UNCHANGED <<log, seeded, target, object>>
    BY <2>1 DEF logVars, writerVars
  <2>3. \A e \in partState' : e \in partState
    BY <2>1
  <2>4. partState' \in SUBSET LoadedRec
    BY <1>1, <2>1
  <2>5. LoaderOK'
    BY <2>1, <2>2, <2>3, <2>4, LeaveStep
  <2>. QED
    BY <2>1, <2>5
<1>. QED
  BY <1>2, <1>3

\* A crash of the loader keeps what is in the databases.
LEMMA LoaderCrashesStep ==
  ASSUME LogOK, TargetOK, LoaderOK, LoaderCrashes
  PROVE  LoaderOK' /\ UNCHANGED <<logVars, writerVars, tainted>>
<1>1. /\ staging' = RolledBack(Goroutines)
      /\ load' = [g \in Goroutines |-> FreeSlot] /\ pass' = IdlePass
      /\ UNCHANGED <<log, seeded, target, object, engine, partState>> /\ faults' = faults + 1
      /\ UNCHANGED <<logVars, writerVars, tainted>>
  BY DEF LoaderCrashes, Fault, logVars, writerVars
<1>2. \A g \in Goroutines : load'[g] = FreeSlot /\ load'[g].phase = "free"
  BY <1>1, FreeSlotTyped
<1>3. IdlePass \in PassRec /\ IdlePass.todo = {}
  BY DEF IdlePass, PassRec
<1>4. staging' = staging \/ staging' = NoTable
  BY <1>1 DEF RolledBack
<1>5. LoaderType'
  <2>1. load' \in [Goroutines -> Slot]
    BY <1>1, FreeSlotTyped
  <2>2. staging' \in (SUBSET SnapRow) \cup {NoTable}
    BY <1>4 DEF LoaderOK, LoaderType
  <2>. QED
    BY <1>1, <1>3, <2>1, <2>2 DEF LoaderOK, LoaderType
<1>6. PartsInHand'
  BY <1>1, <1>2, <1>3 DEF PartsInHand
<1>7. ImportsRead'
  BY <1>1, <1>4 DEF LoaderOK, ImportsRead
<1>8. StagingHeld'
  <2>1. \A g \in Goroutines : ~InTransaction(g)'
    BY <1>2 DEF InTransaction
  <2>2. engine = "postgres" => staging' = NoTable
    BY <1>1 DEF RolledBack, LoaderOK, StagingHeld
  <2>. QED
    BY <1>1, <1>2, <2>1, <2>2 DEF StagingHeld
<1>9. WholeOnTarget'
  BY <1>1, <1>2 DEF LoaderOK, WholeOnTarget, OnTarget
<1>. QED
  BY <1>1, <1>5, <1>6, <1>7, <1>8, <1>9 DEF LoaderOK

\* Every step of the loader preserves the invariant.
LEMMA LoaderStep ==
  ASSUME SnapshotInv, strategy = "file", LoaderNext, UNCHANGED <<windowVars, strategy>>
  PROVE  SnapshotInv'
<1>. USE DEF SnapshotInv
<1>1. ASSUME LogOK', TargetOK', RowsKept, LoaderOK', UNCHANGED <<log, seeded, writerVars>>
      PROVE  SnapshotInv'
  <2>1. LogGrows
    BY <1>1, LogSame
  <2>2. \A i \in 1 .. Len(log') : i <= Len(log)
    BY <1>1 DEF LogOK
  <2>3. WindowOK'
    BY <1>1, <2>1, <2>2, WindowUntouched
  <2>4. WriterOK'
    BY <1>1, <2>1, WriterUntouched
  <2>. QED
    BY <1>1, <2>3, <2>4
<1>2. ASSUME LoaderOK', UNCHANGED <<logVars, writerVars, tainted>>
      PROVE  SnapshotInv'
  <2>1. UNCHANGED <<log, seeded, pos, target>>
    BY <1>2 DEF logVars
  <2>2. LogGrows /\ LogOK' /\ RowsKept
    BY <2>1, LogSame, RowsSame DEF LogOK
  <2>3. TargetOK'
    BY <1>2, <2>1, <2>2, TargetUntouched
  <2>. QED
    BY <1>1, <1>2, <2>1, <2>2, <2>3
<1>3. CASE BeginPass \/ SkipLoaded \/ PassFails \/ EndPass
  BY <1>2, <1>3, PassStep
<1>4. CASE LoaderCrashes
  BY <1>2, <1>4, LoaderCrashesStep
<1>5. CASE ApplyChange
  <2>1. /\ pos < Len(log) /\ pos' = pos + 1
        /\ target' = Applied(target, log[pos + 1], pos + 1)
        /\ UNCHANGED <<seeded, log, writerVars, loaderVars>>
    BY <1>5 DEF ApplyChange
  <2>2. pos \in Nat /\ pos + 1 \in 1 .. Len(log) /\ Len(log) \in Nat
    BY <2>1 DEF LogOK
  <2>3. IsChange(log[pos + 1])
    BY <2>2 DEF LogOK
  <2>4. TargetOK' /\ RowsKept
    BY <2>1, <2>3, AppliedOK DEF loaderVars
  <2>5. LogOK'
    BY <2>1, <2>2 DEF LogOK
  <2>6. LoaderOK'
    BY <2>1, <2>4, LogSame, LoaderUntouched DEF writerVars
  <2>. QED
    BY <1>1, <2>1, <2>4, <2>5, <2>6
<1>6. ASSUME NEW g \in Goroutines,
             \/ Spawn(g) \/ Acquire(g) \/ CreateStaging(g) \/ BulkImport(g)
             \/ CommitLoad(g) \/ MergeStaged(g) \/ DropStaging(g)
             \/ MarkPartLoaded(g) \/ LoadRefused(g) \/ LoadFails(g)
      PROVE  SnapshotInv'
  <2>1. CASE Spawn(g)
    BY <1>2, <2>1, SpawnStep
  <2>2. CASE Acquire(g)
    BY <1>2, <2>2, AcquireStep
  <2>3. CASE CreateStaging(g)
    BY <1>2, <2>3, CreateStagingStep
  <2>4. CASE BulkImport(g)
    BY <1>2, <2>4, BulkImportStep
  <2>5. CASE CommitLoad(g) \/ MergeStaged(g)
    <3>1. LoaderOK' /\ TargetOK' /\ RowsKept /\ UNCHANGED <<seeded, log, pos, writerVars>>
      BY <2>5, MergeStep
    <3>2. LogOK'
      BY <3>1 DEF LogOK
    <3>. QED
      BY <1>1, <3>1, <3>2
  <2>6. CASE DropStaging(g)
    BY <1>2, <2>6, DropStagingStep
  <2>7. CASE MarkPartLoaded(g) \/ LoadRefused(g) \/ LoadFails(g)
    BY <1>2, <2>7, ReturnStep
  <2>. QED
    BY <1>6, <2>1, <2>2, <2>3, <2>4, <2>5, <2>6, <2>7
<1>. QED
  BY <1>3, <1>4, <1>5, <1>6 DEF LoaderNext

-----------------------------------------------------------------------------
(***************************************************************************)
(* The theorems.                                                           *)
(***************************************************************************)

\* The program starts with nothing read and nothing written.
LEMMA InitHolds ==
  ASSUME Init
  PROVE  SnapshotInv
<1>1. /\ seeded \in Seeds /\ log = <<>> /\ pos = 0 /\ target = [k \in Keys |-> NoRow]
      /\ writer = OffWriter /\ manifest = EmptyManifest
      /\ file = [i \in Indexes |-> NoFile] /\ object = [i \in Indexes |-> NoFile]
      /\ pass = IdlePass /\ load = [g \in Goroutines |-> FreeSlot]
      /\ staging = NoTable /\ partState = {} /\ faults = 0 /\ tainted = {}
      /\ win = NewWindow /\ reader = IdleReader /\ done = {}
  BY DEF Init, LogInit, WriterInit, LoaderInit, WindowInit
<1>2. Len(log) = 0 /\ log \in Seq(LogEntry)
  BY <1>1
<1>3. LogOK
  BY <1>1, <1>2, KeysAssumption DEF LogOK
<1>4. TargetOK
  BY <1>1, <1>2 DEF TargetOK, RowOK, Fresh
<1>5. WindowOK
  <2>1. win.state = "idle" /\ win \in WinRec
    BY <1>1 DEF NewWindow, WinRec
  <2>2. reader.phase = "idle" /\ reader \in ReaderRec
    BY <1>1 DEF IdleReader, ReaderRec
  <2>. QED
    BY <1>1, <2>1, <2>2
      DEF WindowOK, WindowType, WindowUnused, LowWritten, WindowHolds, InTime, DoneCovers
<1>6. WriterOK
  <2>1. writer \in WriterRec /\ writer.phase = "off"
    BY <1>1 DEF OffWriter, WriterRec
  <2>2. /\ manifest \in ManifestRec
        /\ manifest.lsn = 0 /\ manifest.parts = <<>> /\ ~manifest.complete
    BY <1>1 DEF EmptyManifest, ManifestRec
  <2>3. file \in [Indexes -> File] /\ object \in [Indexes -> File]
    BY <1>1 DEF File
  <2>. QED
    BY <1>2, <2>1, <2>2, <2>3 DEF WriterOK, WriterType, WriterHolds, ManifestOK
<1>7. LoaderOK
  <2>1. pass \in PassRec /\ pass.todo = {}
    BY <1>1 DEF IdlePass, PassRec
  <2>2. load \in [Goroutines -> Slot] /\ \A g \in Goroutines : load[g].phase = "free"
    BY <1>1, FreeSlotTyped
  <2>. QED
    BY <1>1, <2>1, <2>2
      DEF LoaderOK, LoaderType, PartsInHand, ImportsRead, StagingHeld, WholeOnTarget, InTransaction
<1>. QED
  BY <1>3, <1>4, <1>5, <1>6, <1>7 DEF SnapshotInv

\* The invariant is inductive.
THEOREM Inductive == Spec => []SnapshotInv
<1>1. ASSUME SnapshotInv, Next
      PROVE  SnapshotInv'
  <2>1. CASE Changes /\ UNCHANGED <<writerVars, loaderVars, windowVars, strategy>>
    BY <1>1, <2>1, ChangesStep
  <2>2. CASE strategy = "file" /\ WriterNext /\ UNCHANGED <<loaderVars, windowVars, strategy>>
    BY <1>1, <2>2, WriterStep
  <2>3. CASE strategy = "file" /\ LoaderNext /\ UNCHANGED <<windowVars, strategy>>
    BY <1>1, <2>3, LoaderStep
  <2>4. CASE strategy = "stream" /\ WindowNext /\ UNCHANGED <<writerVars, loaderVars, strategy>>
    BY <1>1, <2>4, WindowStep
  <2>. QED
    BY <1>1, <2>1, <2>2, <2>3, <2>4 DEF Next
<1>2. ASSUME SnapshotInv, UNCHANGED vars
      PROVE  SnapshotInv'
  <2>1. UNCHANGED <<log, seeded, pos, target, tainted, strategy, writerVars, loaderVars, windowVars>>
    BY <1>2 DEF vars, logVars, loaderVars
  <2>2. LogGrows /\ LogOK' /\ RowsKept
    BY <1>2, <2>1, LogSame, RowsSame DEF LogOK, SnapshotInv
  <2>3. \A i \in 1 .. Len(log') : i <= Len(log)
    BY <1>2, <2>1 DEF LogOK, SnapshotInv
  <2>4. TargetOK' /\ WriterOK'
    BY <1>2, <2>1, <2>2, TargetUntouched, WriterUntouched DEF SnapshotInv
  <2>5. WindowOK'
    BY <1>2, <2>1, <2>2, <2>3, WindowUntouched DEF SnapshotInv
  <2>6. LoaderOK'
    BY <1>2, <2>1, <2>2, LoaderUntouched DEF SnapshotInv, writerVars
  <2>. QED
    BY <2>2, <2>4, <2>5, <2>6 DEF SnapshotInv
<1>. QED
  BY <1>1, <1>2, InitHolds, PTL DEF Spec

\* A row of the target never carries an LSN newer than what it shows: neither an
\* emitted chunk nor a merged part overwrites a fresher change or gives a stale
\* row a fresh LSN (snapshot/manifest.go:20-23, snapshot/window.go), whatever
\* the order, the faults and the restarts.
THEOREM NeverStaleHolds == Spec => []NeverStale
<1>1. SnapshotInv => NeverStale
  BY DEF SnapshotInv, TargetOK, NeverStale, FreshRow, Fresh, LiveAt, LiveIn, VersionAt, Ver, ChangeTo
<1>. QED
  BY <1>1, Inductive, PTL

\* On Postgres a load merges exactly what it imported, for any number of loads
\* at a time (loader main.go:198).
THEOREM StagingIsPrivateHolds == Spec => []StagingIsPrivate
<1>1. SnapshotInv => StagingIsPrivate
  BY DEF SnapshotInv, LoaderOK, StagingHeld, StagingIsPrivate
<1>. QED
  BY <1>1, Inductive, PTL

\* A chunk whose high watermark went by without being emitted was buffered late
\* (snapshot/window.go:148-213).
THEOREM OnlyLateChunksStickHolds == Spec => []OnlyLateChunksStick
<1>1. ASSUME SnapshotInv, reader.phase = "wait", pos >= reader.highAt, reader.chunk \notin done,
             ~reader.late
      PROVE  FALSE
  <2>1. InTime /\ pos \in Nat
    BY <1>1 DEF SnapshotInv, WindowOK, LogOK
  <2>2. reader.highAt \in Nat /\ pos < reader.highAt
    BY <1>1, <2>1 DEF InTime, SnapshotInv, WindowOK, WindowType, ReaderRec
  <2>. QED
    BY <1>1, <2>1, <2>2
<1>2. SnapshotInv => OnlyLateChunksStick
  BY <1>1 DEF OnlyLateChunksStick
<1>. QED
  BY <1>2, Inductive, PTL

\* A complete manifest lists every row that was there during the whole extract
\* exactly once (PartWriter.Close, Manifest.Validate), whatever was extracted
\* before and wherever parts were rolled.
THEOREM CompleteManifestCoversTableHolds == Spec => []CompleteManifestCoversTable
<1>1. ASSUME SnapshotInv, manifest.complete, NEW k \in Keys,
             \A n \in manifest.lsn .. Len(log) : LiveAt(k, n)
      PROVE  Cardinality(Parted(k)) = 1
  <2>. DEFINE P == manifest.parts
              N == Len(manifest.parts)
  <2>1. ManifestOK /\ manifest.parts \in Seq(PartRec) /\ N \in Nat
    BY <1>1 DEF SnapshotInv, WriterOK, WriterType, ManifestRec
  <2>2. Lasting(log, seeded, k, manifest.lsn)
    BY <1>1 DEF Lasting, LiveAt, LiveIn, VersionAt, Ver, ChangeTo
  <2>3. Holds(Sums(P), N, k) /\ NotTwice(Sums(P), N)
    BY <1>1, <2>1, <2>2 DEF ManifestOK
  <2>4. \A i \in 1 .. N : /\ Sums(P)[i - 1] = P[i].sum
                          /\ P[i].sum \in Seq(SnapRow) /\ Len(P[i].sum) <= MaxPartRows
    <3>. TAKE i \in 1 .. N
    <3>1. i - 1 \in 0 .. N - 1 /\ (i - 1) + 1 = i
      BY <2>1
    <3>2. Sums(P)[i - 1] = P[i].sum
      BY <3>1 DEF Sums
    <3>. QED
      BY <1>1, <2>1, <3>2 DEF ManifestOK
  <2>5. PICK i \in 1 .. N : \E j \in DOMAIN Sums(P)[i - 1] : Sums(P)[i - 1][j].key = k
    BY <2>3 DEF Holds
  <2>6. PICK j \in DOMAIN P[i].sum : P[i].sum[j].key = k
    BY <2>4, <2>5
  <2>7. j \in 1 .. MaxPartRows
    <3>1. j \in 1 .. Len(P[i].sum) /\ Len(P[i].sum) <= MaxPartRows
      BY <2>4, <2>6
    <3>. QED
      BY <3>1, MaxPartRowsAssumption
  <2>8. \A h \in 1 .. N : \A m \in DOMAIN P[h].sum : P[h].sum[m].key = k => h = i /\ m = j
    <3>. SUFFICES ASSUME NEW h \in 1 .. N, NEW m \in DOMAIN P[h].sum, P[h].sum[m].key = k
                  PROVE  h = i /\ m = j
      OBVIOUS
    <3>1. \A x \in DOMAIN Sums(P)[h - 1], y \in DOMAIN Sums(P)[i - 1] :
            Sums(P)[h - 1][x].key = Sums(P)[i - 1][y].key => h = i /\ x = y
      BY <2>3 DEF NotTwice
    <3>. QED
      BY <2>4, <2>6, <3>1
  <2>9. Parted(k) = {<<i, j>>}
    <3>1. <<i, j>> \in Parted(k)
      BY <2>6, <2>7 DEF Parted
    <3>2. ASSUME NEW x \in Parted(k)
          PROVE  x = <<i, j>>
      <4>1. /\ x \in (1 .. N) \X (1 .. MaxPartRows)
            /\ x[2] \in DOMAIN P[x[1]].sum /\ P[x[1]].sum[x[2]].key = k
        BY DEF Parted
      <4>2. x[1] \in 1 .. N /\ x = <<x[1], x[2]>>
        BY <4>1
      <4>3. x[1] = i /\ x[2] = j
        BY <2>8, <4>1, <4>2
      <4>. QED
        BY <4>2, <4>3
    <3>. QED
      BY <3>1, <3>2
  <2>. QED
    BY <2>9, FS_Singleton
<1>2. SnapshotInv => CompleteManifestCoversTable
  BY <1>1 DEF CompleteManifestCoversTable
<1>. QED
  BY <1>2, Inductive, PTL

\* Once the snapshot is through and the stream has delivered every change the
\* target shows the source, but for the rows of parts that an extract run again
\* has replaced under a recorded index (docs/adr/0003, docs/adr/0007).
THEOREM MirrorsWhenThroughHolds == Spec => []MirrorsWhenThrough
<1>1. ASSUME SnapshotInv, Drained, IF strategy = "file" THEN Recorded ELSE done = DOMAIN Chunks,
             NEW k \in Keys \ tainted, ~Replaced(k)
      PROVE  Mirrors(k)
  <2>. DEFINE v == Ver(log, k, Len(log))
              t == target[k]
  <2>1. /\ log \in Seq(LogEntry) /\ pos = Len(log) /\ Len(log) \in Nat
        /\ RowOK(log, seeded, k, t) /\ Fresh(log, seeded, k, t)
    BY <1>1 DEF SnapshotInv, LogOK, TargetOK, Drained
  <2>2. /\ v \in 0 .. Len(log)
        /\ v # 0 => ChangeTo(log, k, v)
        /\ \A i \in 1 .. Len(log) : ChangeTo(log, k, i) => i <= v
    BY <2>1, VersionIs
  <2>. HIDE DEF v
  <2>3. v # 0 => t # NoRow /\ t.lsn >= v
    <3>. SUFFICES ASSUME v # 0
                  PROVE  t # NoRow /\ t.lsn >= v
      OBVIOUS
    <3>1. v \in 1 .. pos /\ IsChange(log[v]) /\ log[v].of = k
      BY <2>1, <2>2 DEF ChangeTo
    <3>. QED
      BY <1>1, <3>1 DEF SnapshotInv, TargetOK
  <2>4. ASSUME v = 0, k \in seeded
        PROVE  t # NoRow
    <3>1. CASE strategy # "file"
      <4>1. PICK c \in DOMAIN Chunks : k \in Chunks[c]
        BY ChunksAssumption
      <4>2. t # NoRow \/ Changed(log, k)
        BY <1>1, <2>4, <3>1, <4>1 DEF SnapshotInv, WindowOK, DoneCovers
      <4>3. ~Changed(log, k)
        BY <2>2, <2>4 DEF Changed
      <4>. QED
        BY <4>2, <4>3
    <3>2. CASE strategy = "file"
      <4>. DEFINE P == manifest.parts
                  N == Len(manifest.parts)
      <4>1. Recorded /\ manifest.complete /\ ManifestOK /\ P \in Seq(PartRec) /\ N \in Nat
            /\ manifest.lsn \in Nat
        BY <1>1, <3>2 DEF Recorded, SnapshotInv, WriterOK, WriterType, ManifestRec
      <4>2. Lasting(log, seeded, k, manifest.lsn)
        <5>. SUFFICES ASSUME NEW n \in manifest.lsn .. Len(log)
                      PROVE  LiveIn(log, seeded, k, n)
          BY DEF Lasting
        <5>1. n \in Nat /\ n <= Len(log)
          BY <2>1, <4>1
        <5>2. Ver(log, k, n) <= v /\ Ver(log, k, n) \in 0 .. n
          BY <2>1, <5>1, VersionMonotone, VersionIs DEF v
        <5>3. Ver(log, k, n) = 0
          BY <2>4, <5>1, <5>2
        <5>. QED
          BY <2>4, <5>3 DEF LiveIn
      <4>3. PICK i \in 1 .. N : \E j \in DOMAIN Sums(P)[i - 1] : Sums(P)[i - 1][j].key = k
        BY <4>1, <4>2 DEF ManifestOK, Holds
      <4>4. Sums(P)[i - 1] = P[i].sum /\ i \in DOMAIN P
        <5>1. i - 1 \in 0 .. N - 1 /\ (i - 1) + 1 = i
          BY <4>1
        <5>. QED
          BY <4>1, <5>1 DEF Sums
      <4>5. PICK j \in DOMAIN P[i].sum : P[i].sum[j].key = k
        BY <4>3, <4>4
      <4>6. PICK e \in partState : e.sum = P[i].sum
        BY <1>1, <4>4, <4>5 DEF Replaced
      <4>7. OnTarget(e.sum)
        BY <1>1, <4>1 DEF SnapshotInv, LoaderOK, WholeOnTarget, Recorded
      <4>. QED
        BY <4>5, <4>6, <4>7 DEF OnTarget
    <3>. QED
      BY <3>1, <3>2
  <2>5. /\ t # NoRow /\ ~t.deleted <=> LiveIn(log, seeded, k, Len(log))
        /\ t # NoRow /\ ~t.deleted => t.val = v
    BY <2>1, <2>3, <2>4, FreshMirrors DEF v
  <2>6. VersionAt(k, Len(log)) = v /\ (k \in Live <=> LiveIn(log, seeded, k, Len(log)))
    BY DEF Live, LiveAt, LiveIn, VersionAt, Ver, ChangeTo, v
  <2>. QED
    BY <2>5, <2>6 DEF Mirrors
<1>2. SnapshotInv => MirrorsWhenThrough
  BY <1>1 DEF MirrorsWhenThrough
<1>. QED
  BY <1>2, Inductive, PTL

=============================================================================
