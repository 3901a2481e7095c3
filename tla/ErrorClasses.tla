---------------------------- MODULE ErrorClasses ----------------------------
(***************************************************************************)
(* internal/errclass: the retry disposition of an error, which decides     *)
(* whether a failed write is retried, bisected or dead-lettered.  An error *)
(* is what Classify can learn of it: the marker put on it by the platform, *)
(* the Go error at its root, its SQLSTATE, its MySQL number, and the       *)
(* fragments of the two tables that its text contains.                     *)
(***************************************************************************)
EXTENDS Naturals

Classes == {"transient", "permanent", "unknown"}

\* SQLSTATEs by their class.  Of the codes listed one by one only two are not in
\* a class that is transient anyway.
TransientStates == {"55P03", "25006", "08", "40", "53", "57", "58"}
PermanentStates == {"23", "22", "42", "3F", "0A"}

classifySQLState(state) ==
  IF state \in TransientStates THEN "transient"
  ELSE IF state \in PermanentStates THEN "permanent" ELSE "unknown"

transientMySQL == {1040, 1053, 1205, 1213, 1290, 1317, 2006, 2013, 1927}
permanentMySQL == {1062, 1264, 1265, 1292, 1366, 1406, 1452, 1054, 1146, 1364}

\* A transient fragment anywhere in the text outweighs every permanent one.
classifyText(text) ==
  IF "transient" \in text THEN "transient"
  ELSE IF "permanent" \in text THEN "permanent" ELSE "unknown"

\* "none" and 0 stand for a SQLSTATE and a number the error does not have, or
\* that no table lists.  The MySQL driver's error has neither method, so its
\* errors are told apart by their text alone.
Error ==
  [marked : {"no", "permanent", "transient"},
   root : {"context", "network", "other"},
   state : TransientStates \cup PermanentStates \cup {"none"},
   number : transientMySQL \cup permanentMySQL \cup {0},
   text : SUBSET {"transient", "permanent"}]

\* The first of these that says anything decides.
Classify(err) ==
  IF err.marked # "no" THEN err.marked
  ELSE IF err.root # "other" THEN "transient"
  ELSE IF classifySQLState(err.state) # "unknown" THEN classifySQLState(err.state)
  ELSE IF err.number \in transientMySQL THEN "transient"
  ELSE IF err.number \in permanentMySQL THEN "permanent"
  ELSE classifyText(err.text)

\* The errors a record can be refused with: from the database, or marked
\* permanent because the plan does not have its table.  Nothing in the platform
\* marks an error transient.
Refusals == {err \in Error : err.root = "other" /\ err.marked # "transient"}

CONSTANT
  Misjudged  \* the classes other than transient that an error no record caused may get:
             \* a full disk, a revoked grant, a driver message in no table

ASSUME MisjudgedAssumption ==
  Misjudged \subseteq {Classify(err) : err \in Error} \ {"transient"}
=============================================================================
