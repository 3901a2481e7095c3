----------------------------- MODULE CdcApplier -----------------------------
(***************************************************************************)
(* The cdc-applier service.  Every replica is assigned every partition     *)
(* (DiscoverPartitions), so several appliers consume the same stream side  *)
(* by side.  One action is one transaction against the target, or one step *)
(* of the loop in cmd/cdc-applier between two of them.                     *)
(***************************************************************************)
EXTENDS ChangeStream, DeadLetters

CONSTANTS
  Appliers,       \* replicas of the service
  BatchSize,      \* apply.batch_size
  ApplyAttempts,  \* retry.apply max attempts; 0 means no budget
  MaxCrashes,     \* bound on process crashes
  FlakyBroker     \* may a read fail before the linger window closes?

ASSUME ApplierAssumption ==
  /\ Appliers # {}
  /\ BatchSize \in Nat \ {0}
  /\ ApplyAttempts \in Nat
  /\ MaxCrashes \in Nat
  /\ FlakyBroker \in BOOLEAN

VARIABLES
  log,       \* the stream
  faulty,    \* the records the target refuses for the time being
  rows,      \* the target table: key -> row or NoRow
  offsets,   \* migration_ctl.applied_offset: partition -> last offset
  dead,      \* migration_ctl.dead_letter: a sequence of entries, id = index
  pc,        \* where the loop of each applier is
  next,      \* the offset each reader returns next
  batch,     \* polled messages still to be decoded
  events,    \* the decoded batch being applied
  todo,      \* sub-batches isolate has still to try, in order
  failed,    \* records isolate found to be bad, not yet dead-lettered
  attempts,  \* failed attempts of retryx.Do on this batch
  crashes,   \* crashes so far
  exposed,   \* history: bad records in memory whose offset is, or may be, stored
  dropped,   \* history: records an applier let go of, settled or not
  misjudged  \* history: records set aside for an error that none of them caused

target == <<rows, offsets, dead>>
local == <<pc, next, batch, events, todo, failed, attempts>>
history == <<exposed, dropped, misjudged>>
vars == <<log, faulty, target, local, crashes, history>>

Locations == {"down", "poll", "decode", "apply", "isolate", "deadletter"}

Init ==
  /\ log \in Logs
  /\ faulty = Faulty(log)
  /\ rows = [k \in Keys |-> NoRow]
  /\ offsets = [p \in Partitions |-> 0]
  /\ dead = <<>>
  /\ pc = [a \in Appliers |-> "down"]
  /\ next = [a \in Appliers |-> [p \in Partitions |-> 1]]
  /\ batch = [a \in Appliers |-> {}]
  /\ events = [a \in Appliers |-> {}]
  /\ todo = [a \in Appliers |-> <<>>]
  /\ failed = [a \in Appliers |-> {}]
  /\ attempts = [a \in Appliers |-> 0]
  /\ crashes = 0
  /\ exposed = [a \in Appliers |-> {}]
  /\ dropped = {}
  /\ misjudged = {}

-----------------------------------------------------------------------------
(***************************************************************************)
(* Start-up, polling and decoding.                                         *)
(***************************************************************************)

\* MUTANT: reading resumes at the stored offset instead of after it.
StartAtStored(a) ==
  /\ pc[a] = "down"
  /\ next' = [next EXCEPT ![a] = offsets]
  /\ pc' = [pc EXCEPT ![a] = "poll"]
  /\ UNCHANGED <<log, faulty, target, batch, events, todo, failed, attempts, crashes, history>>

\* LoadOffsets and NewConsumer: the stored offset decides where reading starts.
Start(a) ==
  /\ pc[a] = "down"
  /\ next' = [next EXCEPT ![a] = [p \in Partitions |-> offsets[p] + 1]]
  /\ pc' = [pc EXCEPT ![a] = "poll"]
  /\ UNCHANGED <<log, faulty, target, batch, events, todo, failed, attempts, crashes, history>>

\* The readers share one deadline.  A reader gives up its turn early only when
\* a read fails; otherwise it holds the turn until the batch is full or the
\* window has closed, and the readers after it are not asked at all.
Readable(a, upto) ==
  \A p, q \in Partitions :
    p < q /\ upto[q] > next[a][q] => FlakyBroker

Poll(a) ==
  /\ pc[a] = "poll"
  /\ \E upto \in [Partitions -> UNION {1..(Len(log[p]) + 1) : p \in Partitions}] :
       LET polled == {x \in Positions(log) : next[a][x[1]] <= x[2] /\ x[2] < upto[x[1]]} IN
       /\ \A p \in Partitions : next[a][p] <= upto[p] /\ upto[p] <= Len(log[p]) + 1
       /\ Readable(a, upto)
       /\ polled # {}
       /\ Cardinality(polled) <= BatchSize
       /\ next' = [next EXCEPT ![a] = upto]
       /\ batch' = [batch EXCEPT ![a] = polled]
  /\ pc' = [pc EXCEPT ![a] = "decode"]
  /\ UNCHANGED <<log, faulty, target, events, todo, failed, attempts, crashes, history>>

Undecodable(S) == {x \in S : At(log, x).kind = "undecodable"}

\* A message that cannot be decoded is dead-lettered on the spot.
DecodeFailure(a) ==
  /\ pc[a] = "decode"
  /\ Undecodable(batch[a]) # {}
  /\ LET x == First(Undecodable(batch[a])) IN
     /\ dead' = Append(dead, NewEntry(x, "permanent"))
     /\ batch' = [batch EXCEPT ![a] = @ \ {x}]
  /\ UNCHANGED <<log, faulty, rows, offsets, pc, next, events, todo, failed, attempts, crashes, history>>

\* The rest of the batch becomes events; compaction tombstones and watermarks
\* are skipped.  A batch with no event left goes back to Poll.
Decoded(a) ==
  /\ pc[a] = "decode"
  /\ Undecodable(batch[a]) = {}
  /\ LET evs == {x \in batch[a] : IsRow(log, x)} IN
     /\ events' = [events EXCEPT ![a] = evs]
     /\ pc' = [pc EXCEPT ![a] = IF evs = {} THEN "poll" ELSE "apply"]
  /\ batch' = [batch EXCEPT ![a] = {}]
  /\ UNCHANGED <<log, faulty, target, next, todo, failed, attempts, crashes, history>>

-----------------------------------------------------------------------------
(***************************************************************************)
(* Applying a batch: retryx.Do around ApplyWithIsolation.                  *)
(***************************************************************************)

\* Apply commits: the rows and the offsets in one transaction.
Apply(a) ==
  /\ pc[a] = "apply"
  /\ ~Rejected(log, faulty, events[a])
  /\ rows' = Write(log, rows, events[a])
  /\ offsets' = UpsertOffset(offsets, HighWaterMarks(events[a]))
  /\ events' = [events EXCEPT ![a] = {}]
  /\ attempts' = [attempts EXCEPT ![a] = 0]
  /\ pc' = [pc EXCEPT ![a] = "poll"]
  /\ exposed' = [exposed EXCEPT ![a] = {}]
  /\ UNCHANGED <<log, faulty, dead, next, batch, todo, failed, crashes, dropped, misjudged>>

\* The target refuses a record: roll back and isolate, whole batch first.
ApplyRejected(a) ==
  /\ pc[a] = "apply"
  /\ DataError(log, faulty, events[a])
  /\ todo' = [todo EXCEPT ![a] = <<events[a]>>]
  /\ failed' = [failed EXCEPT ![a] = {}]
  /\ pc' = [pc EXCEPT ![a] = "isolate"]
  /\ UNCHANGED <<log, faulty, target, next, batch, events, attempts, crashes, history>>

\* MUTANT: a refused sub-batch is given up whole.
IsolateWhole(a) ==
  /\ pc[a] = "isolate"
  /\ todo[a] # <<>>
  /\ LET S == Head(todo[a]) IN
     IF DataError(log, faulty, S)
       THEN failed' = [failed EXCEPT ![a] = @ \cup S] /\ UNCHANGED rows
       ELSE rows' = Write(log, rows, S) /\ UNCHANGED failed
  /\ todo' = [todo EXCEPT ![a] = Tail(@)]
  /\ UNCHANGED <<log, faulty, offsets, dead, pc, next, batch, events, attempts, crashes, history>>

\* MUTANT: the first refused sub-batch ends the bisection, and the batch is retried.
IsolateSurfaces(a) ==
  /\ pc[a] = "isolate"
  /\ todo[a] # <<>>
  /\ IF DataError(log, faulty, Head(todo[a]))
       THEN /\ pc' = [pc EXCEPT ![a] = "apply"]
            /\ todo' = [todo EXCEPT ![a] = <<>>]
            /\ UNCHANGED rows
       ELSE /\ rows' = Write(log, rows, Head(todo[a]))
            /\ todo' = [todo EXCEPT ![a] = Tail(@)]
            /\ UNCHANGED pc
  /\ UNCHANGED <<log, faulty, offsets, dead, next, batch, events, failed, attempts, crashes, history>>

\* The first sub-batch failed: it is halved, or its single record is the bad one.
Divide(a) ==
  LET S == Head(todo[a]) IN
  \/ /\ Cardinality(S) = 1
     /\ failed' = [failed EXCEPT ![a] = @ \cup S]
     /\ todo' = [todo EXCEPT ![a] = Tail(@)]
  \/ /\ Cardinality(S) > 1
     /\ todo' = [todo EXCEPT ![a] = <<LowerHalf(S), UpperHalf(S)>> \o Tail(@)]
     /\ UNCHANGED failed

\* isolate tries the next sub-batch in a transaction of its own, without
\* offsets: it commits, or it is refused.
Isolate(a) ==
  /\ pc[a] = "isolate"
  /\ todo[a] # <<>>
  /\ \/ /\ ~Rejected(log, faulty, Head(todo[a]))
        /\ rows' = Write(log, rows, Head(todo[a]))
        /\ todo' = [todo EXCEPT ![a] = Tail(@)]
        /\ UNCHANGED failed
     \/ /\ DataError(log, faulty, Head(todo[a]))
        /\ Divide(a)
        /\ UNCHANGED rows
  /\ UNCHANGED <<log, faulty, offsets, dead, pc, next, batch, events, attempts, crashes, history>>

\* Every sub-batch has been tried: the offsets are committed on their own, and
\* only then does the caller get the failed records to dead-letter.
CommitPositionsOnly(a) ==
  /\ pc[a] = "isolate"
  /\ todo[a] = <<>>
  /\ offsets' = UpsertOffset(offsets, HighWaterMarks(events[a]))
  /\ events' = [events EXCEPT ![a] = {}]
  /\ attempts' = [attempts EXCEPT ![a] = 0]
  /\ pc' = [pc EXCEPT ![a] = IF failed[a] = {} THEN "poll" ELSE "deadletter"]
  /\ exposed' = [exposed EXCEPT ![a] = failed[a]]
  /\ UNCHANGED <<log, faulty, rows, dead, next, batch, todo, failed, crashes, dropped, misjudged>>

\* The classes of the error record x may have been set aside with: its own
\* refusal's, or any but transient if the error was not about it.
FailedWith(x) ==
  IF At(log, x).fault \in {"none", "transient"} THEN Classes \ {"transient"}
  ELSE {At(log, x).fault} \cup Misjudged

\* One insert per failed record.
PutDeadLetters(a) ==
  /\ pc[a] = "deadletter"
  /\ LET x == First(failed[a]) IN
     /\ \E class \in FailedWith(x) : dead' = Append(dead, NewEntry(x, class))
     /\ failed' = [failed EXCEPT ![a] = @ \ {x}]
     /\ exposed' = [exposed EXCEPT ![a] = @ \ {x}]
     /\ pc' = [pc EXCEPT ![a] = IF failed[a] = {x} THEN "poll" ELSE "deadletter"]
  /\ UNCHANGED <<log, faulty, rows, offsets, next, batch, events, todo, attempts, crashes, dropped,
                 misjudged>>

\* What the transaction under way would have committed.  When the connection
\* dies during COMMIT the error says nothing about whether it did.
InDoubt(a) ==
  \/ UNCHANGED <<rows, offsets>>
  \/ /\ pc[a] = "apply"
     /\ ~Rejected(log, faulty, events[a])
     /\ rows' = Write(log, rows, events[a])
     /\ offsets' = UpsertOffset(offsets, HighWaterMarks(events[a]))
  \/ /\ pc[a] = "isolate" /\ todo[a] # <<>>
     /\ ~Rejected(log, faulty, Head(todo[a]))
     /\ rows' = Write(log, rows, Head(todo[a]))
     /\ UNCHANGED offsets
  \/ /\ pc[a] = "isolate" /\ todo[a] = <<>>
     /\ offsets' = UpsertOffset(offsets, HighWaterMarks(events[a]))
     /\ UNCHANGED rows

\* The bad records whose offset is stored, or may be if the error or the crash
\* interrupts commitPositionsOnly.
Exposing(a) ==
  exposed[a] \cup (IF pc[a] = "isolate" /\ todo[a] = <<>> THEN failed[a] ELSE {})

\* retryx.Do gets an error back.  With budget left the whole batch is tried
\* again; otherwise the loop backs off and polls on, and the batch is gone from
\* memory.
EndAttempt(a, last) ==
  /\ IF last
       THEN /\ attempts' = [attempts EXCEPT ![a] = 0]
            /\ pc' = [pc EXCEPT ![a] = "poll"]
            /\ events' = [events EXCEPT ![a] = {}]
            /\ exposed' = [exposed EXCEPT ![a] = {}]
            /\ dropped' = dropped \cup events[a]
       ELSE /\ attempts' = [attempts EXCEPT ![a] = @ + 1]
            /\ pc' = [pc EXCEPT ![a] = "apply"]
            /\ exposed' = [exposed EXCEPT ![a] = Exposing(a)]
            /\ UNCHANGED <<events, dropped>>
  /\ todo' = [todo EXCEPT ![a] = <<>>]
  /\ failed' = [failed EXCEPT ![a] = {}]

LastAttempt(a) == Exhausted(ApplyAttempts, attempts[a] + 1)

\* A transient error anywhere in ApplyWithIsolation ends the attempt.
TransientError(a) ==
  /\ pc[a] \in {"apply", "isolate"}
  /\ InDoubt(a)
  /\ EndAttempt(a, LastAttempt(a))
  /\ UNCHANGED <<log, faulty, dead, next, batch, crashes, misjudged>>

\* An error that no record caused and that Classify does not take for transient:
\* ApplyWithIsolation bisects the batch, and isolate sets aside whatever single
\* record it happens to be writing.
MisjudgedError(a) ==
  /\ Misjudged # {}
  /\ \/ /\ pc[a] = "apply"
        /\ todo' = [todo EXCEPT ![a] = <<events[a]>>]
        /\ failed' = [failed EXCEPT ![a] = {}]
        /\ pc' = [pc EXCEPT ![a] = "isolate"]
        /\ UNCHANGED misjudged
     \/ /\ pc[a] = "isolate" /\ todo[a] # <<>>
        /\ Divide(a)
        /\ misjudged' = misjudged \cup (failed'[a] \ failed[a])
        /\ UNCHANGED pc
  /\ InDoubt(a)
  /\ UNCHANGED <<log, faulty, dead, next, batch, events, attempts, crashes, exposed, dropped>>

\* The same error out of commitPositionsOnly is returned as it is, and retryx.Do
\* gives up at once on a permanent one.
MisjudgedCommit(a) ==
  /\ pc[a] = "isolate" /\ todo[a] = <<>>
  /\ \E class \in Misjudged : EndAttempt(a, class = "permanent" \/ LastAttempt(a))
  /\ InDoubt(a)
  /\ UNCHANGED <<log, faulty, dead, next, batch, crashes, misjudged>>

-----------------------------------------------------------------------------
(***************************************************************************)
(* Crashes and the environment.                                            *)
(***************************************************************************)

\* The process dies, or leaves the loop because a dead letter could not be
\* written.  Everything in memory is lost; a transaction may still land.
Crash(a) ==
  /\ pc[a] # "down"
  /\ crashes < MaxCrashes
  /\ crashes' = crashes + 1
  /\ InDoubt(a)
  /\ dropped' = dropped \cup Exposing(a)
  /\ exposed' = [exposed EXCEPT ![a] = {}]
  /\ pc' = [pc EXCEPT ![a] = "down"]
  /\ batch' = [batch EXCEPT ![a] = {}]
  /\ events' = [events EXCEPT ![a] = {}]
  /\ todo' = [todo EXCEPT ![a] = <<>>]
  /\ failed' = [failed EXCEPT ![a] = {}]
  /\ attempts' = [attempts EXCEPT ![a] = 0]
  /\ UNCHANGED <<log, faulty, dead, next, misjudged>>

\* The cause of a refusal goes away: a column is widened, a referenced row has
\* been loaded.
Heal(x) ==
  /\ faulty' = faulty \ {x}
  /\ UNCHANGED <<log, target, local, crashes, history>>

Step(a) ==
  \/ Start(a)
  \/ Poll(a)
  \/ DecodeFailure(a)
  \/ Decoded(a)
  \/ Apply(a)
  \/ ApplyRejected(a)
  \/ Isolate(a)
  \/ CommitPositionsOnly(a)
  \/ PutDeadLetters(a)
  \/ TransientError(a)
  \/ MisjudgedError(a)
  \/ MisjudgedCommit(a)

Next ==
  \/ \E a \in Appliers : Step(a) \/ Crash(a)
  \/ \E x \in faulty : Heal(x)

Spec == Init /\ [][Next]_vars

\* A running applier keeps taking steps, and a stopped one is started again by
\* the orchestrator.  Nothing is assumed about which outcome a step has.
FairSpec == Spec /\ \A a \in Appliers : WF_vars(Step(a))

-----------------------------------------------------------------------------
(***************************************************************************)
(* Properties.                                                             *)
(***************************************************************************)

TypeOK ==
  /\ log \in Logs
  /\ faulty \subseteq Faulty(log)
  /\ rows \in [Keys -> Row(Vals) \cup {NoRow}]
  /\ offsets \in [Partitions -> Nat]
  /\ dead \in Seq([pos : Positions(log), status : Statuses, attempts : Nat])
  /\ pc \in [Appliers -> Locations]
  /\ next \in [Appliers -> [Partitions -> Nat \ {0}]]
  /\ batch \in [Appliers -> SUBSET Positions(log)]
  /\ events \in [Appliers -> SUBSET Positions(log)]
  /\ todo \in [Appliers -> Seq(SUBSET Positions(log))]
  /\ failed \in [Appliers -> SUBSET Positions(log)]
  /\ attempts \in [Appliers -> Nat]
  /\ crashes \in 0..MaxCrashes
  /\ exposed \in [Appliers -> SUBSET Positions(log)]
  /\ dropped \subseteq Positions(log)
  /\ misjudged \subseteq Positions(log)

\* The target refuses x, or Decode does, with an error that blames the record.
Bad(x) == At(log, x).kind = "undecodable" \/ At(log, x).fault \notin {"none", "transient"}

DeadLettered(x) == \E i \in DOMAIN dead : dead[i].pos = x

\* x needs no write, or its write is on the target, or it is a dead letter.
Settled(x) ==
  \/ At(log, x).kind = "skip"
  \/ IsRow(log, x) /\ Covered(log, rows, x)
  \/ DeadLettered(x)

\* The bad record x is in the memory of an applier, on its way to the dead-letter table.
InFlight(x) == \E a \in Appliers : x \in exposed[a]

Committed == {x \in Positions(log) : x[2] <= offsets[x[1]]}

Accounted(x) == Settled(x) \/ InFlight(x) \/ x \in dropped

\* A committed offset has only settled records at or below it, whatever the
\* interleaving of appliers, crashes and bisections, except for the records in
\* the two windows of the loop: those on their way to the dead-letter table
\* after commitPositionsOnly (applier.go:171), and those let go of, by a crash in
\* that window or by an applier whose retry budget ran out.
LossOnlyInKnownWindows == \A x \in Committed : Accounted(x)

\* No record below a committed offset is gone for good: "No data loss. Every
\* committed change reaches the target exactly once in effect"
\* (docs/architecture.md:15).
NoRecordLost == \A x \in Committed : Settled(x) \/ InFlight(x)

\* Bisection dead-letters the records the target refuses and no other, even
\* when the database goes away halfway through it (applier.go:192-196), except
\* for a record that was on its own when an outage struck that Classify does not
\* take for one.  A refusal that looks like an outage dead-letters nothing.
OnlyBadRecordsDeadLettered ==
  \A i \in DOMAIN dead : Bad(dead[i].pos) \/ dead[i].pos \in misjudged

Table == INSTANCE VersionedTable WITH version <- [k \in Keys |-> Visible(rows[k])]

\* The appliers implement the versioned table: whichever of them writes a row,
\* however late, however often and in whatever batch, the row moves from one
\* change of its own to one that is not older, and nothing else ever shows
\* (Coalesce and the fence of FencedUpsert and FencedDelete).
ImplementsVersionedTable == Table!Spec

\* A slower replica that commits the same partition later never takes the
\* stored offset back (UpsertOffset of both dialects).
OffsetsNeverRegress ==
  [][\A p \in Partitions : offsets'[p] >= offsets[p]]_offsets

\* Applier a has read every partition to its end and holds nothing.
DrainedBy(a) ==
  /\ pc[a] = "poll"
  /\ \A p \in Partitions : next[a][p] > Len(log[p])

Drained == \A a \in Appliers : DrainedBy(a)

\* No record of row k is a dead letter or was let go of.
Undisturbed(k) ==
  /\ ChangesTo(log, k) # {}
  /\ \A x \in dropped : At(log, x).key # k
  /\ \A i \in DOMAIN dead : At(log, dead[i].pos).key # k

\* When the appliers have drained the stream, a row of which no record is a dead
\* letter or was let go of shows the last change the source made to it: redelivery,
\* coalescing, bisection and overlapping replicas all end in the same table.
ConvergedWhenDrained ==
  Drained =>
    \A k \in Keys : Undisturbed(k) => Shows(rows[k], At(log, LastChange(log, k)))

\* Every applier gets through every partition to its end: a bad record, a crash
\* or an outage of the target does not stop the stream ("what keeps one bad row
\* from stopping the stream", applier.go:148).
StreamDrains == \A a \in Appliers : <>[]DrainedBy(a)

-----------------------------------------------------------------------------
(***************************************************************************)
(* The inductive invariants: behind LossOnlyInKnownWindows, and behind     *)
(* OnlyBadRecordsDeadLettered and ConvergedWhenDrained.                    *)
(***************************************************************************)

\* What applier a holds at each place of its loop.
Holdings(a) ==
  /\ pc[a] # "decode" => batch[a] = {}
  /\ pc[a] \notin {"apply", "isolate"} => events[a] = {}
  /\ \A x \in events[a] : IsRow(log, x)
  /\ pc[a] \in {"down", "poll", "decode"} => exposed[a] = {}
  /\ pc[a] \in {"apply", "isolate"} => exposed[a] \subseteq events[a]
  /\ pc[a] = "deadletter" => failed[a] # {} /\ exposed[a] = failed[a]

\* A record the reader of a is past is in the hands of a or accounted for, and a
\* holds only records its reader is past.
ReadOrHeld(a) ==
  pc[a] # "down" =>
    \A x \in Positions(log) :
      /\ x \in batch[a] \cup events[a] => x[2] < next[a][x[1]]
      /\ x[2] < next[a][x[1]] => x \in batch[a] \cup events[a] \/ Accounted(x)

\* A bisection loses no record: each is bad, on the target, or still to be tried.
BisectionComplete(a) ==
  pc[a] = "isolate" =>
    /\ failed[a] \subseteq events[a]
    /\ \A i \in DOMAIN todo[a] : todo[a][i] \subseteq events[a]
    /\ \A x \in events[a] :
         \/ x \in failed[a]
         \/ Covered(log, rows, x)
         \/ \E i \in DOMAIN todo[a] : x \in todo[a][i]

IndInv ==
  /\ LossOnlyInKnownWindows
  /\ \A a \in Appliers : Holdings(a) /\ ReadOrHeld(a) /\ BisectionComplete(a)

\* What isolate set aside the target did refuse, on its own.
FailedAreBad == \A a \in Appliers : \A x \in failed[a] : Bad(x) \/ x \in misjudged

BadInv == OnlyBadRecordsDeadLettered /\ FailedAreBad
=============================================================================
