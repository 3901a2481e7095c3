----------------------------- MODULE Reconciler -----------------------------
(***************************************************************************)
(* The reconciler service: a pass compares every table of the plan on the  *)
(* source and the target by a descent over ranges of the chunk column and  *)
(* records what it found in the migration_state row.                       *)
(*                                                                         *)
(* Both sides are live: each query sees the rows of its own moment.  The   *)
(* digest of a range is the set of its rows (no two sets collide), where a *)
(* row is its key and its comparable columns.  The tables hold any rows to *)
(* begin with: what the other services can leave behind is not repeated    *)
(* here.                                                                   *)
(***************************************************************************)
EXTENDS Integers, Sequences, FiniteSets, FiniteSetsExt

CONSTANTS
  Keys,         \* the primary keys of all tables
  Tables,       \* the tables of the plan: a sequence of sets of keys
  ColOf,        \* the value of the chunk column of each key, or NullCol
  Images,       \* what the comparable columns of a row may hold
  Absent,       \* the source has no such row
  NoRow,        \* the target has no such row
  NullCol,      \* a NULL in the chunk column
  NoBound,      \* a range without a bound on this side
  NoMid,        \* the range cannot be split
  NoState,      \* there is no migration_state row
  LeafRows, MaxDepth, MaxFindings,  \* recon.Options
  Stride,       \* the step into an unbounded range
  MinInt, MaxInt,  \* the integers of the key type
  MaxEvents     \* bound: changes, failures, requests and ticks altogether

ASSUME TablesAssumption ==
  /\ Tables \in Seq(SUBSET Keys)
  /\ IsFiniteSet(Keys)
  /\ ColOf \in [Keys -> Int \cup {NullCol}]
ASSUME OptionsAssumption ==
  /\ LeafRows \in Nat \ {0} /\ MaxDepth \in Nat \ {0} /\ MaxFindings \in Nat \ {0}
  /\ Stride \in Nat \ {0}
  /\ MinInt \in Int /\ MaxInt \in Int
  /\ NullCol \notin Int /\ NoBound \notin Int /\ NoMid \notin Int

VARIABLES
  source,   \* the source's rows
  target,   \* the target's rows, tombstones included
  recon,    \* the pass: [step, table, stack, rows, findings, total, complete, began]
  state,    \* the migration_state row
  now,      \* the clock, in units of the staleness threshold's
  events,   \* events so far, a logical clock
  touched   \* history: when each key was last changed on either side

reconVars == <<source, target, recon, state, now, events, touched>>

-----------------------------------------------------------------------------
(***************************************************************************)
(* Ranges and bisection.                                                   *)
(***************************************************************************)

\* Range: half-open, (low, high].  A NULL satisfies no comparison.
InRange(k, r) ==
  /\ r.low # NoBound => ColOf[k] # NullCol /\ ColOf[k] > r.low
  /\ r.high # NoBound => ColOf[k] # NullCol /\ ColOf[k] <= r.high

FullRange == [low |-> NoBound, high |-> NoBound, depth |-> 0]

\* bigToInt64: clamped to the key type.
Clamp(n) == IF n > MaxInt THEN MaxInt ELSE IF n < MinInt THEN MinInt ELSE n

\* The integer bisector.  The text and the time bisector have the same shape.
Bisect(r) ==
  CASE r.low = NoBound /\ r.high = NoBound -> 0
    [] r.low = NoBound /\ r.high # NoBound -> Clamp(r.high - Stride)
    [] r.low # NoBound /\ r.high = NoBound -> Clamp(r.low + Stride)
    [] OTHER -> LET mid == (r.low + r.high) \div 2
                IN  IF r.low < mid /\ mid < r.high THEN Clamp(mid) ELSE NoMid

\* MUTANT: the range above the midpoint starts one value later.
HalvesWithGap(r) ==
  <<[low |-> r.low, high |-> Bisect(r), depth |-> r.depth + 1],
    [low |-> Bisect(r) + 1, high |-> r.high, depth |-> r.depth + 1]>>

Halves(r) ==
  <<[low |-> r.low, high |-> Bisect(r), depth |-> r.depth + 1],
    [low |-> Bisect(r), high |-> r.high, depth |-> r.depth + 1]>>

-----------------------------------------------------------------------------
(***************************************************************************)
(* The queries.                                                            *)
(***************************************************************************)

Table == IF recon.table \in DOMAIN Tables THEN Tables[recon.table] ELSE {}

SourceRows(r) ==
  {[key |-> k, val |-> source[k]] :
     k \in {k \in Table : source[k] # Absent /\ InRange(k, r)}}

\* Digest leaves the tombstones of the target out ...
TargetDigest(r) ==
  {[key |-> k, val |-> target[k].val] :
     k \in {k \in Table : target[k] # NoRow /\ ~target[k].deleted /\ InRange(k, r)}}

\* MUTANT: the leaf read leaves out the upper bound of the range.
TargetRowsBelow(r) ==
  {[key |-> k, val |-> target[k].val] :
     k \in {k \in Table : target[k] # NoRow /\ InRange(k, r) /\ ColOf[k] # r.high}}

\* ... and Rows does not.
TargetRows(r) ==
  {[key |-> k, val |-> target[k].val] :
     k \in {k \in Table : target[k] # NoRow /\ InRange(k, r)}}

KeysOf(rows) == {x.key : x \in rows}

-----------------------------------------------------------------------------
(***************************************************************************)
(* The descent.                                                            *)
(***************************************************************************)

Finding(kind, keys) == [kind |-> kind, keys |-> keys]

\* compareRows' two loops.
OnSource(src, tgt) ==
  {Finding("missing_in_target", {k}) : k \in KeysOf(src) \ KeysOf(tgt)}
  \cup {Finding("value_mismatch", {x.key}) :
          x \in {x \in src : x.key \in KeysOf(tgt) /\ x \notin tgt}}

OnTarget(src, tgt) ==
  {Finding("missing_in_source", {k}) : k \in KeysOf(tgt) \ KeysOf(src)}

\* A loop appends its findings until the limit is reached.  Which ones come
\* first is the order of the canonical key strings.
UpToLimit(found, new) ==
  {all \in {found \cup some : some \in SUBSET new} :
     /\ Cardinality(all) <= MaxFindings
     /\ all = found \cup new \/ Cardinality(all) = MaxFindings}

AtLimit == Cardinality(recon.findings) >= MaxFindings

\* A migration_state row no pass has touched.
NewState(phase, armed) ==
  [phase |-> phase, ranAt |-> 0, findings |-> 0, complete |-> FALSE,
   armed |-> armed, began |-> 0]

Off == [step |-> "off", table |-> 0, stack |-> <<>>, rows |-> {}, findings |-> {},
        total |-> 0, complete |-> TRUE, began |-> 0]

\* The next table, or the end of the pass.
Enter(p, table) ==
  IF table \in DOMAIN Tables
    THEN [p EXCEPT !.step = "range", !.table = table, !.stack = <<FullRange>>,
                   !.rows = {}, !.findings = {}]
    ELSE [p EXCEPT !.step = "record", !.table = 0, !.stack = <<>>, !.rows = {},
                   !.findings = {}]

BeginPass ==
  /\ recon.step = "off"
  /\ recon' = Enter([Off EXCEPT !.began = events], 1)
  /\ UNCHANGED <<source, target, state, now, events, touched>>

\* descend: the source's digest ...
DigestSource ==
  /\ recon.step = "range" /\ recon.stack # <<>>
  /\ ~AtLimit
  /\ recon' = [recon EXCEPT !.step = "digest", !.rows = SourceRows(Head(recon.stack))]
  /\ UNCHANGED <<source, target, state, now, events, touched>>

\* ... and the target's, at a later moment, with what follows from the two.
Return(p) == [p EXCEPT !.step = "range", !.stack = Tail(@), !.rows = {}]

IsLeaf(src, tgt, r) ==
  \/ Max({Cardinality(src), Cardinality(tgt)}) <= LeafRows
  \/ r.depth >= MaxDepth
  \/ Bisect(r) = NoMid

\* The two digests agree, the budget is exhausted, the rows are read, or the
\* range is split.
Descended(src, tgt, r) ==
  IF src = tgt THEN Return(recon)
  ELSE IF ~IsLeaf(src, tgt, r)
         THEN [recon EXCEPT !.step = "range", !.rows = {}, !.stack = Halves(r) \o Tail(@)]
  ELSE IF r.depth >= MaxDepth
         THEN [Return(recon) EXCEPT !.findings =
                 @ \cup {Finding("range_unresolved", {k \in Table : InRange(k, r)})}]
  ELSE [recon EXCEPT !.step = "leaf", !.rows = {}]

DigestTarget ==
  /\ recon.step = "digest"
  /\ recon' = Descended(recon.rows, TargetDigest(Head(recon.stack)), Head(recon.stack))
  /\ UNCHANGED <<source, target, state, now, events, touched>>

\* descend returns at once when the limit is reached.
StopAtLimit ==
  /\ recon.step = "range" /\ recon.stack # <<>>
  /\ AtLimit
  /\ recon' = [recon EXCEPT !.stack = <<>>]
  /\ UNCHANGED <<source, target, state, now, events, touched>>

ReadSourceRows ==
  /\ recon.step = "leaf"
  /\ recon' = [recon EXCEPT !.step = "rows", !.rows = SourceRows(Head(recon.stack))]
  /\ UNCHANGED <<source, target, state, now, events, touched>>

CompareRows ==
  /\ recon.step = "rows"
  /\ LET tgt == TargetRows(Head(recon.stack)) IN
     \E first \in UpToLimit(recon.findings, OnSource(recon.rows, tgt)) :
     \E all \in UpToLimit(first, OnTarget(recon.rows, tgt)) :
       recon' = [Return(recon) EXCEPT !.findings = all]
  /\ UNCHANGED <<source, target, state, now, events, touched>>

-----------------------------------------------------------------------------
(***************************************************************************)
(* The pass.                                                               *)
(***************************************************************************)

Event == events < MaxEvents /\ events' = events + 1

EndTable ==
  /\ recon.step = "range" /\ recon.stack = <<>>
  /\ recon' = Enter([recon EXCEPT !.total = @ + Cardinality(recon.findings)],
                    recon.table + 1)
  /\ UNCHANGED <<source, target, state, now, events, touched>>

\* MUTANT: a table that failed is skipped and nothing remembers it.
QueryFailsForgotten ==
  /\ recon.step \in {"range", "digest", "leaf", "rows"} /\ recon.stack # <<>>
  /\ recon.step = "range" => ~AtLimit
  /\ Event
  /\ recon' = Enter(recon, recon.table + 1)
  /\ UNCHANGED <<source, target, state, now, touched>>

\* A query fails: the pass is not complete, the table's findings are dropped
\* and the next table follows.
QueryFails ==
  /\ recon.step \in {"range", "digest", "leaf", "rows"} /\ recon.stack # <<>>
  /\ recon.step = "range" => ~AtLimit
  /\ Event
  /\ recon' = Enter([recon EXCEPT !.complete = FALSE], recon.table + 1)
  /\ UNCHANGED <<source, target, state, now, touched>>

\* An UPDATE: without a row it affects nothing and reports no error.
RecordReconcileRun ==
  /\ recon.step = "record"
  /\ state' = IF state = NoState THEN NoState
              ELSE [state EXCEPT !.ranAt = now, !.findings = recon.total,
                                 !.complete = recon.complete, !.began = recon.began]
  /\ recon' = Off
  /\ UNCHANGED <<source, target, now, events, touched>>

\* The UPDATE fails, which is only logged, or the process dies.
PassLost ==
  /\ recon.step # "off"
  /\ Event
  /\ recon' = Off
  /\ UNCHANGED <<source, target, state, now, touched>>

-----------------------------------------------------------------------------
(***************************************************************************)
(* The world around it.                                                    *)
(***************************************************************************)

\* An application writes or deletes a row of the source.
SourceChanges(k, v) ==
  /\ source[k] # v
  /\ Event
  /\ source' = [source EXCEPT ![k] = v]
  /\ touched' = [touched EXCEPT ![k] = events + 1]
  /\ UNCHANGED <<target, recon, state, now>>

Mirrors(k) ==
  LET t == target[k] IN
  IF source[k] = Absent THEN t = NoRow \/ t.deleted
  ELSE t # NoRow /\ ~t.deleted /\ t.val = source[k]

\* The target catches up: an upsert, or a delete that leaves a tombstone with
\* the columns it had.
Replicate(k) ==
  /\ ~Mirrors(k)
  /\ Event
  /\ target' = [target EXCEPT ![k] =
       IF source[k] = Absent THEN [@ EXCEPT !.deleted = TRUE]
       ELSE [deleted |-> FALSE, val |-> source[k]]]
  /\ touched' = [touched EXCEPT ![k] = events + 1]
  /\ UNCHANGED <<source, recon, state, now>>

ReconStep ==
  \/ BeginPass \/ DigestSource \/ DigestTarget \/ StopAtLimit \/ ReadSourceRows
  \/ CompareRows \/ EndTable \/ RecordReconcileRun

ReconNext ==
  \/ ReconStep \/ QueryFails \/ PassLost
  \/ \E k \in Keys, v \in Images \cup {Absent} : SourceChanges(k, v)
  \/ \E k \in Keys : Replicate(k)

-----------------------------------------------------------------------------
(***************************************************************************)
(* What a pass can and cannot see.                                         *)
(***************************************************************************)

Tombstone(k) == target[k] # NoRow /\ target[k].deleted

\* A difference the row comparison misses: a tombstone with the source's columns.
Hidden(k) == source[k] # Absent /\ Tombstone(k) /\ target[k].val = source[k]

\* A difference the pass cannot miss.  A NULL in the chunk column is in neither
\* half of a range.
Visible(k) == ~Mirrors(k) /\ ~Hidden(k) /\ ColOf[k] # NullCol

Reported(k) == \E f \in recon.findings : k \in f.keys

TableDone == recon.step = "range" /\ recon.stack = <<>>

Since(k, time) == touched[k] <= time

=============================================================================
