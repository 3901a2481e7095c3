---------------------------- MODULE DeadLetters -----------------------------
(***************************************************************************)
(* The life cycle of a dead letter: the pure decisions of internal/dlq and *)
(* the retry budget of internal/retryx.  An entry keeps the position of    *)
(* the record it holds, its status and its attempts; the payload is the    *)
(* message at that position.                                               *)
(***************************************************************************)
EXTENDS Naturals

CONSTANT DLQAttempts  \* retry.dlq max attempts; 0 means no budget

ASSUME DLQAssumption == DLQAttempts \in Nat

Statuses == {"pending", "retrying", "quarantined", "resolved", "discarded"}

Open(status) == status \in {"pending", "retrying", "quarantined"}

Exhausted(max, attempts) == max > 0 /\ attempts >= max

\* The first entry for a record that failed with an error of class `class`.
NewEntry(pos, class) ==
  [pos |-> pos,
   status |-> IF class = "permanent" THEN "quarantined" ELSE "pending",
   attempts |-> 1]

\* MUTANT: the budget is compared with the attempts before this one.
EvaluateStaleAttempts(attempts, class) ==
  [status |-> IF class = "permanent" \/ Exhausted(DLQAttempts, attempts)
                THEN "quarantined" ELSE "pending",
   attempts |-> attempts + 1]

\* MUTANT: a failed replay is not counted.
EvaluateUncounted(attempts, class) ==
  [status |-> IF class = "permanent" THEN "quarantined" ELSE "pending",
   attempts |-> attempts]

\* MUTANT: the class of the error ends up in the status column.
EvaluateClassAsStatus(attempts, class) ==
  [status |-> class, attempts |-> attempts + 1]

\* The decision after a replay failed.
Evaluate(attempts, class) ==
  [status |-> IF class = "permanent" \/ Exhausted(DLQAttempts, attempts + 1)
                THEN "quarantined" ELSE "pending",
   attempts |-> attempts + 1]

\* The decision after a replay succeeded.
EvaluateSuccess(attempts) == [status |-> "resolved", attempts |-> attempts + 1]
=============================================================================
