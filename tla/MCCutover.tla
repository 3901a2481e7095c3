----------------------------- MODULE MCCutover ------------------------------
(***************************************************************************)
(* Instances of Cutover.                                                   *)
(***************************************************************************)
EXTENDS Cutover, TLC

CONSTANTS v1, v2

MCImages == {v1, v2}

\* Two tables, each with two rows that share a value of the chunk column: the
\* range of the first cannot be split, the second is at the end of the key type.
TwoTables == <<{1, 2}, {3, 4}>>
Shared == <<1, 1, -1, -1>>

Lowest == -1

Live(v) == [deleted |-> FALSE, val |-> v]
Dead(v) == [deleted |-> TRUE, val |-> v]
Pair(s, t) == [src |-> s, tgt |-> t]

\* Every way two sides can agree on a row or differ, up to the names of the images.
EveryPair ==
  {Pair(Absent, Dead(v1)), Pair(v1, Live(v1)),
   Pair(Absent, Live(v1)), Pair(v1, NoRow), Pair(v1, Live(v2)),
   Pair(v1, Dead(v1)), Pair(v1, Dead(v2))}

InSync == Pair(v1, Live(v1))

SomePairs == <<EveryPair, {InSync}, {InSync}, {InSync}>>

\* The row that no statement of the platform inserts, and a missing one.
MCFirstStates == {NoState, NewState("ready_for_cutover", TRUE)}

RequestSymmetry == Permutations(Requests)

OpenGate ==
  [maxLag |-> 1, lagStableFor |-> 0, maxOpen |-> 0, maxFindings |-> 0, maxAge |-> 1,
   requireParts |-> TRUE, requireReverse |-> TRUE]

=============================================================================
