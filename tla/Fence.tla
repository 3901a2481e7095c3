------------------------------- MODULE Fence --------------------------------
(***************************************************************************)
(* The three statements that write a row of the target, as functions from  *)
(* the stored row to the stored row.  A target row carries, beside its     *)
(* columns, _mig_lsn (the source change sequence number of the last write  *)
(* that touched it) and _mig_deleted (a delete leaves a tombstone).        *)
(*                                                                         *)
(* Postgres evaluates the fence once, in the WHERE clause of DO UPDATE.    *)
(* MySQL has no such clause: every assignment of ON DUPLICATE KEY UPDATE   *)
(* repeats the fence, and MySQL evaluates the assignments left to right,   *)
(* each one seeing the columns the earlier ones have already written.      *)
(***************************************************************************)
EXTENDS Naturals

CONSTANTS
  NoRow,      \* the key is not in the table
  NullImage   \* the value columns of a tombstone inserted for a missing row

Row(Images) == [lsn : Nat, deleted : BOOLEAN, val : Images]

-----------------------------------------------------------------------------
(***************************************************************************)
(* Postgres.                                                               *)
(***************************************************************************)

Fenced(stored, lsn) == stored.lsn <= lsn

FencedUpsert(stored, lsn, val) ==
  IF stored = NoRow \/ Fenced(stored, lsn)
    THEN [lsn |-> lsn, deleted |-> FALSE, val |-> val]
    ELSE stored

\* MUTANT: a delete that is a plain UPDATE and records nothing for a missing row.
FencedDeleteOnlyUpdates(stored, lsn) ==
  IF stored # NoRow /\ Fenced(stored, lsn)
    THEN [stored EXCEPT !.lsn = lsn, !.deleted = TRUE]
    ELSE stored

\* MUTANT: a delete that removes the row.
FencedDeletePhysical(stored, lsn) ==
  IF stored # NoRow /\ Fenced(stored, lsn) THEN NoRow ELSE stored

\* MUTANT: a tombstone inserted without its value columns.
FencedDeleteNoColumns(stored, lsn) ==
  IF stored = NoRow
    THEN [lsn |-> lsn, deleted |-> TRUE]
    ELSE stored

\* On conflict only _mig_deleted and _mig_lsn are assigned: the columns keep
\* the image the row had when it was deleted.
FencedDelete(stored, lsn) ==
  IF stored = NoRow
    THEN [lsn |-> lsn, deleted |-> TRUE, val |-> NullImage]
    ELSE IF Fenced(stored, lsn)
           THEN [stored EXCEPT !.lsn = lsn, !.deleted = TRUE]
           ELSE stored

\* MUTANT: a merge that overwrites whatever is there.
MergeStagingUnfenced(stored, extractLSN, val) ==
  IF stored = NoRow
    THEN [lsn |-> extractLSN, deleted |-> FALSE, val |-> val]
    ELSE [stored EXCEPT !.lsn = extractLSN, !.val = val]

\* On conflict the columns and _mig_lsn are assigned, _mig_deleted is not.
MergeStaging(stored, extractLSN, val) ==
  IF stored = NoRow
    THEN [lsn |-> extractLSN, deleted |-> FALSE, val |-> val]
    ELSE IF Fenced(stored, extractLSN)
           THEN [stored EXCEPT !.lsn = extractLSN, !.val = val]
           ELSE stored

-----------------------------------------------------------------------------
(***************************************************************************)
(* MySQL: one operator per assignment, composed in the order the dialect   *)
(* renders them.                                                           *)
(***************************************************************************)

SetColumns(row, lsn, val) ==
  [row EXCEPT !.val =
     [c \in DOMAIN val |-> IF Fenced(row, lsn) THEN val[c] ELSE row.val[c]]]

SetLSN(row, lsn) ==
  [row EXCEPT !.lsn = IF Fenced(row, lsn) THEN lsn ELSE row.lsn]

SetDeleted(row, lsn, flag) ==
  [row EXCEPT !.deleted = IF Fenced(row, lsn) THEN flag ELSE row.deleted]

MySQLFencedUpsert(stored, lsn, val) ==
  IF stored = NoRow
    THEN [lsn |-> lsn, deleted |-> FALSE, val |-> val]
    ELSE SetDeleted(SetLSN(SetColumns(stored, lsn, val), lsn), lsn, FALSE)

MySQLFencedDelete(stored, lsn) ==
  IF stored = NoRow
    THEN [lsn |-> lsn, deleted |-> TRUE, val |-> NullImage]
    ELSE SetLSN(SetDeleted(stored, lsn, TRUE), lsn)

\* MUTANT: the LSN is assigned first and without the fence.
MySQLMergeStagingLSNFirst(stored, extractLSN, val) ==
  IF stored = NoRow
    THEN [lsn |-> extractLSN, deleted |-> FALSE, val |-> val]
    ELSE SetColumns([stored EXCEPT !.lsn = extractLSN], extractLSN, val)

MySQLMergeStaging(stored, extractLSN, val) ==
  IF stored = NoRow
    THEN [lsn |-> extractLSN, deleted |-> FALSE, val |-> val]
    ELSE SetLSN(SetColumns(stored, extractLSN, val), extractLSN)

=============================================================================
