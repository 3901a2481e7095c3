---------------------------- MODULE MCFencedRow -----------------------------
(***************************************************************************)
(* TLC instances of FencedRow: the histories of up to MaxChanges changes.  *)
(***************************************************************************)
EXTENDS FencedRow

CONSTANTS MaxChanges, Null

MCNullImage == [c \in Columns |-> Null]

\* Consecutive changes write different values into every column.
ImageOf(i) ==
  LET first == CHOOSE v \in Values \ {Null} : TRUE
      other == CHOOSE v \in Values \ {Null} : v # first
  IN  [c \in Columns |-> IF i % 2 = 1 THEN first ELSE other]

\* A row is created first, and a deleted row can only be created again.
Ops(n) ==
  {ops \in [1..n -> {"upsert", "delete"}] :
     \A i \in 1..n : ops[i] = "delete" => i > 1 /\ ops[i - 1] = "upsert"}

\* LSNs are 1, 3, 5, ...: an extract can start between two changes.
HistoryOf(ops) ==
  [i \in DOMAIN ops |-> [op |-> ops[i], lsn |-> 2 * i - 1, val |-> ImageOf(i)]]

AllHistories == UNION {{HistoryOf(ops) : ops \in Ops(n)} : n \in 1..MaxChanges}

\* The source deleted the row and created it again.
Recreated(h) == \E i \in DOMAIN h : i < Len(h) /\ h[i].op = "delete"

RecreatedHistories == {h \in AllHistories : Recreated(h)}

\* Up to two extracts, each at any point of the history.
AnyExtracts(h) == {{x, y} : x, y \in 0..(2 * MaxChanges)} \cup {{}}

\* The changes of a recreated row arrive on their own: a part can hide them.
SafeExtracts(h) == IF Recreated(h) THEN {{}} ELSE AnyExtracts(h)
=============================================================================
