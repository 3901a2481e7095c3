--------------------------- MODULE VersionedTable ---------------------------
(***************************************************************************)
(* What the sink promises about the target table, with no appliers, no     *)
(* batches and no failures: every row is a register that holds the effect  *)
(* of one change of the stream and only ever moves to a change of the same *)
(* row that is not older.                                                  *)
(***************************************************************************)
EXTENDS ChangeStream

VARIABLES
  log,     \* the stream
  version  \* key -> NoRow, or the LSN and the visible image of the row

\* The row change m produces; a deleted row has no visible image.
VersionOf(m) ==
  [lsn |-> m.lsn, deleted |-> m.kind = "delete",
   val |-> IF m.kind = "delete" THEN NullImage ELSE m.val]

Init ==
  /\ log \in Logs
  /\ version = [k \in Keys |-> NoRow]

\* Row k takes change x, unless it already holds a newer one.
Installs(k, x) ==
  /\ version[k] = NoRow \/ version[k].lsn <= At(log, x).lsn
  /\ version'[k] = VersionOf(At(log, x))

\* One transaction installs changes in any number of rows at once.
Transaction ==
  /\ version' \in [Keys -> Row(Vals) \cup {NoRow}]
  /\ \A k \in Keys :
       version'[k] = version[k] \/ \E x \in ChangesTo(log, k) : Installs(k, x)
  /\ UNCHANGED log

Spec == Init /\ [][Transaction]_<<log, version>>
=============================================================================
