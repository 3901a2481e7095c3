----------------------------- MODULE FencedRow ------------------------------
(***************************************************************************)
(* One row of the source and its copies on the two target engines.  The    *)
(* source changed the row as `history` says.  Every change reaches the     *)
(* target as a fenced write that may arrive in any order and any number of *)
(* times: redelivery, a retried batch, a late dead letter.  Parts of the   *)
(* bulk extract that contain the row are merged at any time too.           *)
(***************************************************************************)
EXTENDS Fence, Sequences, FiniteSets

CONSTANTS
  Columns,    \* the non-key columns of the table
  Values,     \* the values of a column, NULL included
  Histories,  \* the change histories a source row may have
  ExtractSets(_) \* for each history, the sets of extract LSNs whose parts may hold the row

Images == [Columns -> Values]

Change == [op : {"upsert", "delete"}, lsn : Nat, val : Images]

ASSUME ImagesAssumption ==
  /\ NullImage \in Images
  /\ NoRow \notin Row(Images)

ASSUME HistoryAssumption ==
  \A h \in Histories :
    /\ h \in Seq(Change)
    /\ \A i, j \in DOMAIN h : i < j => h[i].lsn < h[j].lsn

ASSUME ExtractAssumption ==
  \A h \in Histories : \A S \in ExtractSets(h) : S \subseteq Nat

VARIABLES
  history,   \* the changes of the source row, oldest first
  extracts,  \* the start LSNs of the extracts that read the row
  pg,        \* the row on Postgres
  my,        \* the row on MySQL
  arrived    \* the changes that have been applied at least once

vars == <<history, extracts, pg, my, arrived>>

Init ==
  /\ history \in Histories
  /\ extracts \in ExtractSets(history)
  /\ pg = NoRow
  /\ my = NoRow
  /\ arrived = {}

\* The applier or the repair worker writes change i.
Deliver(i) ==
  LET c == history[i] IN
  /\ pg' = IF c.op = "delete" THEN FencedDelete(pg, c.lsn)
                              ELSE FencedUpsert(pg, c.lsn, c.val)
  /\ my' = IF c.op = "delete" THEN MySQLFencedDelete(my, c.lsn)
                              ELSE MySQLFencedUpsert(my, c.lsn, c.val)
  /\ arrived' = arrived \cup {i}
  /\ UNCHANGED <<history, extracts>>

\* The change a reader at LSN x sees is the last one at or below x.  The
\* extract LSN is recorded before the chunk is read, so the image in the part
\* is that version or a later one; a deleted row is in no part.
InPart(i, x) ==
  /\ history[i].op = "upsert"
  /\ \A j \in DOMAIN history : j > i => history[j].lsn > x

\* The loader merges a part extracted at x that holds version i.
MergePart(x, i) ==
  /\ InPart(i, x)
  /\ pg' = MergeStaging(pg, x, history[i].val)
  /\ my' = MySQLMergeStaging(my, x, history[i].val)
  /\ UNCHANGED <<history, extracts, arrived>>

Next ==
  \/ \E i \in DOMAIN history : Deliver(i)
  \/ \E x \in extracts, i \in DOMAIN history : MergePart(x, i)

Spec == Init /\ [][Next]_vars

-----------------------------------------------------------------------------
(***************************************************************************)
(* Properties.                                                             *)
(***************************************************************************)

\* The rows are absent or well formed on both engines.
TypeOK ==
  /\ history \in Histories
  /\ extracts \in ExtractSets(history)
  /\ pg \in Row(Images) \cup {NoRow}
  /\ my \in Row(Images) \cup {NoRow}
  /\ arrived \subseteq DOMAIN history

\* The per-assignment fence of the MySQL statements leaves the same row as the
\* single WHERE of the Postgres ones, although MySQL's later assignments read
\* an LSN the earlier ones may have just overwritten (dialect/mysql.go:51-57).
EnginesAgree == my = pg

\* A write never takes a row back to an older LSN, and a row once written is
\* never physically removed (the fence and the tombstone of both dialects).
RowNeverRegresses ==
  [][pg # NoRow => pg' # NoRow /\ pg'.lsn >= pg.lsn]_pg

\* The row a reader of the source sees after change i is on the target.
Shows(row, i) ==
  /\ row # NoRow
  /\ row.deleted = (history[i].op = "delete")
  /\ ~row.deleted => row.val = history[i].val

\* Once every change has arrived, in whatever order and however often, the
\* target shows the last one: arrival order does not matter (README "LSN
\* fence", dialect/postgres.go:42-47).
SettlesOnSource ==
  history # <<>> /\ arrived = DOMAIN history => Shows(pg, Len(history))

=============================================================================
