----------------------------- MODULE ChangeLog ------------------------------
(***************************************************************************)
(* The source table while a snapshot is taken: its rows, its transaction   *)
(* log, the position up to which the change stream has been applied, and   *)
(* the target the stream and the snapshot both write to.                   *)
(*                                                                         *)
(* An entry's LSN is its index in the log, and the image of a row is the   *)
(* LSN of the change that wrote it (0 for a row that was there before the  *)
(* log begins), so an image says how fresh it is.  The watermarks of the   *)
(* stream strategy are entries of the same log.                            *)
(***************************************************************************)
EXTENDS Fence, Sequences, FiniteSets, FiniteSetsExt

CONSTANTS
  Keys,       \* the primary keys, numbers: a chunk or an extract reads them in order
  Seeds       \* the sets of keys that may have a row before the log begins

ASSUME KeysAssumption ==
  /\ Keys \subseteq Nat \ {0} /\ IsFiniteSet(Keys)
  /\ Seeds \subseteq SUBSET Keys
  /\ NoRow \notin Row(Nat \cup {NullImage})

VARIABLES
  seeded,  \* the keys that had a row before the log begins
  log,     \* the source's log: changes and watermarks
  pos,     \* the entries the change stream has delivered
  target   \* the rows of the target

logVars == <<seeded, log, pos, target>>

IsChange(e) == e.kind \in {"upsert", "delete"}

\* The last change to k among the first n entries, 0 when there is none.
VersionAt(k, n) ==
  Max({0} \cup {i \in 1 .. n : IsChange(log[i]) /\ log[i].of = k})

LiveAt(k, n) ==
  IF VersionAt(k, n) = 0 THEN k \in seeded
                         ELSE log[VersionAt(k, n)].kind = "upsert"

Live == {k \in Keys : LiveAt(k, Len(log))}

\* What a SELECT returns for k now.
Current(k) == [key |-> k, ver |-> VersionAt(k, Len(log))]

LogInit ==
  /\ seeded \in Seeds
  /\ log = <<>>
  /\ pos = 0
  /\ target = [k \in Keys |-> NoRow]

Entry(kind, of) == [kind |-> kind, of |-> of]

\* An application changes the source.
SourceChange(k, kind) ==
  /\ kind = "delete" => k \in Live
  /\ log' = Append(log, Entry(kind, k))
  /\ UNCHANGED <<seeded, pos, target>>

\* The applier's write for the change e at this LSN.
Applied(rows, e, lsn) ==
  [rows EXCEPT ![e.of] = IF e.kind = "delete" THEN FencedDelete(@, lsn)
                                              ELSE FencedUpsert(@, lsn, lsn)]

-----------------------------------------------------------------------------
(***************************************************************************)
(* What the target should look like.                                       *)
(***************************************************************************)

\* The row never claims to be newer than what it shows.
FreshRow(k) ==
  LET t == target[k] IN
  t # NoRow =>
    IF t.deleted THEN ~LiveAt(k, t.lsn)
                 ELSE t.val >= VersionAt(k, t.lsn)

\* A reader of the target sees for k what a reader of the source sees.
Mirrors(k) ==
  LET t == target[k]
      visible == t # NoRow /\ ~t.deleted
  IN  /\ visible <=> k \in Live
      /\ visible => t.val = VersionAt(k, Len(log))

=============================================================================
