# A verification development for db-migration-platform

The platform migrates a live database to Postgres or MySQL. A bulk extract and a
change stream (Debezium messages in Kafka) run at the same time; every write to
the target carries the source LSN of the change and is *fenced*: a row is only
overwritten by a write whose LSN is not older than the stored one. Records the
target refuses go to a dead-letter table and are replayed later. A reconciler
compares the two databases, and a gate decides whether the application may be
switched over.

This directory holds TLA+ modules that model the parts of the platform that can
be checked, TLC configurations for small instances, and TLAPS proofs of the most
important results for every instance. `PROJECT.json` links every definition to
the lines it models, every property to a run and every hazard to the properties
that watch it. Paths below are relative to the repository.

## 1. Inventory

| Component | State | Operations | What makes it correct |
|---|---|---|---|
| fenced writes, `internal/dialect` | the target rows with `_mig_lsn`, `_mig_deleted` | `FencedUpsert`, `FencedDelete`, `MergeStaging`, `UpsertOffset`, the claim statements | arrival order and repetition do not matter; both engines agree |
| sink, `internal/sink` | none of its own; one transaction per call | `Apply`, `ApplyWithIsolation`, `isolate`, `commitPositionsOnly`, `Coalesce`, `HighWaterMarks` | rows and offset move together; bisection finds exactly the bad records |
| stream consumer, `internal/stream` | the position of one Kafka reader per partition | `NewConsumer`, `Poll`, `DiscoverPartitions` | resumes after the stored offset; reads every partition |
| cdc-applier, `cmd/cdc-applier` | the batch in memory | the loop: poll, decode, apply with retry, dead-letter | no record below a stored offset is lost; the stream drains |
| change decoder, `internal/cdc`, `internal/model/event.go` | none | `Decode`, `IsWatermark`, `extractLSN` | LSNs order the changes of a row |
| error classes, `internal/errclass`; retry, `internal/retryx` | none | `Classify`; `Do`, `Exhausted`, `NextAt` | an outage is never taken for bad data, nor the reverse |
| dead letters, `internal/dlq` | none (pure decisions) | `NewEntry`, `Evaluate`, `EvaluateSuccess` | the budget is respected, the life cycle is followed |
| store, `internal/store` | tables `applied_offset`, `dead_letter`, `migration_state`, `part_state` | `LoadOffsets`, `PutDeadLetters`, `Claim`, `Resolve`, `Reschedule`, `Requeue`, `SetPhase`, `RecordReconcileRun`, `MarkPartLoaded`, `PartCounts` | claims are exclusive; a decision rests on what is in the table |
| repair-worker, `cmd/repair-worker` | the claimed entries in memory | the loop: claim, replay, record | resolved means applied; every entry settles |
| control plane, `cmd/controlplane`; gate, `internal/control` | `migration_state` | `Evaluate`, `Transition`, `ValidateOverride`, `handleRequeue`, `handlePhase` | cutover only when the gate is open |
| snapshot window, `internal/snapshot/window.go` | one chunk, its rows and a phase | `Buffer`, `OnLowWatermark`, `OnEvent`, `OnHighWatermark`, `Abort` | a row changed inside the window is not emitted stale |
| snapshot writer and manifest, `internal/snapshot` | part files, manifest | write, seal, resume, verify | a sealed part is complete |
| snapshot-loader, `cmd/snapshot-loader` | staging table, `part_state` | `pass`, `loadManifest`, `loadPart` | every part is merged, with its own LSN |
| reconciliation, `internal/recon`, `cmd/reconciler` | findings of a pass | `descend`, `bisect`, `compareRows`, `RecordReconcileRun` | a difference is found; "clean" means the same |
| key and table model, configuration, bootstrap, cryptography, observability | static, or no state the migration depends on | | |

The services share nothing but the target database: the appliers (three replicas
in the Terraform default, each reading every partition), the repair workers
(two), the loader and the reconciler meet in its tables, and their statements
interleave freely. The hard behaviours are therefore: the same record written
twice by two replicas or after a retry; a COMMIT whose reply is lost; a crash
between two transactions that belong together; a record that comes back long
after newer ones; one resource (a Poll window, a claim) that somebody never gives
back. `PROJECT.json` lists the hazards line by line.

## 2. The modules

    Fence ............ the three fenced statements, both engines
      FencedRow ...... one row of the source and its copy on each engine
      ChangeStream ... messages, batches, and the pure operators of the sink
                       (also ErrorClasses)
        VersionedTable the abstract specification of the target table
        CdcApplier ... the cdc-applier service            (also DeadLetters)
        RepairWorker . the repair-worker and the requeue  (also DeadLetters)
        Pipeline ..... CdcApplier and RepairWorker on one target
      ChangeLog ...... the source's log, the stream position and the target
        SnapshotWindow the watermark window (stream strategy)
        PartWriter ... part files and manifest (file strategy, extract)
          PartLoader . the snapshot-loader service (file strategy, load)
        Snapshot ..... either strategy beside the change stream
    ErrorClasses ..... Classify and its tables
    DeadLetters ...... the decisions of internal/dlq, the retry budget
    Reconciler ....... a pass of the reconciler over two moving databases
      Cutover ........ the gate, the phase machine and the control plane
    MC*.tla, MC*_*.cfg the instances for TLC
    FenceProofs, FencedRowProofs, StreamProofs, CdcApplierProofs,
    RepairWorkerProofs, PipelineProofs, CutoverProofs, SnapshotProofs

**Fence.** A target row is a record of `lsn`, `deleted` and `val`; `NoRow` is a
key that is not in the table. Each statement is a function from the stored row
to the stored row. Postgres evaluates its fence once (`WHERE ... <= EXCLUDED`).
MySQL has no such clause and repeats the fence in every assignment, which MySQL
evaluates left to right with the earlier assignments visible: `SetColumns`,
`SetLSN` and `SetDeleted` are composed in the order `mysql.go` renders them, so
that the order is part of the model.

**FencedRow.** The source changed a row as `history` says. `Deliver(i)` writes
change `i` on both engines, any number of times and in any order (an applier, a
redelivery, a repair). `MergePart(x, i)` merges a part whose extract started at
LSN `x` and that holds version `i`. The extract LSN is recorded before the chunk
is read, so `i` is the version current at `x` or a later one.

**ErrorClasses.** An error is what `Classify` can learn of it: the marker the
platform put on it, the Go error at its root, its SQLSTATE, its MySQL number, and
which of the two tables of text fragments its message matches. `Classify` asks them
in that order. `Misjudged` is the set of classes other than transient that an error
no record caused may get.

**ChangeStream.** A message is found by its position `<<partition, offset>>` and
has a kind (what `Decode` makes of it), a key, an LSN, an image and a fault: the
class `Classify` gives the error the target answers to it with until its cause is
repaired, which may well be "transient". A batch
is a *set* of positions, since a reader never returns a message twice and the
order of `Poll` is the order of positions; offsets count from 1, and 0 in the
offset table stands for "no row". `Coalesce`, `Write`, `Rejected`, `LowerHalf`,
`HighWaterMarks` and `UpsertOffset` are the operators of `internal/sink`.

**CdcApplier.** One action is one transaction against the target, or one step of
the loop between two transactions. `pc` follows the loop: `poll`, `decode`,
`apply`, `isolate`, `deadletter`, and `down`.

| Action | Code |
|---|---|
| `Start` | `LoadOffsets`, `NewConsumer`: every partition from the stored offset + 1 |
| `Poll` | up to `BatchSize` messages; the readers share one deadline (`Readable`) |
| `DecodeFailure`, `Decoded` | undecodable messages are dead-lettered one statement each; tombstones and watermarks are skipped; an empty batch goes back to `Poll` without a commit |
| `Apply` | coalesced rows and offsets in one transaction |
| `ApplyRejected`, `Isolate` | the whole batch again, then halves, each in a transaction without offsets; `todo` is the recursion's stack |
| `CommitPositionsOnly` | offsets on their own, *before* the failed records reach the caller |
| `PutDeadLetters` | one insert per failed record |
| `TransientError` | any transient failure inside `ApplyWithIsolation`, an outage or a refusal that looks like one; the transaction under way may have landed (`InDoubt`); with no budget left the batch is gone and the loop polls on (`EndAttempt`) |
| `MisjudgedError` | an outage whose error is classed unknown or permanent: the batch is bisected (`Divide`), and a record that is being written on its own is set aside |
| `MisjudgedCommit` | the same out of `commitPositionsOnly`: the error goes back to `retryx.Do`, which gives up at once if it is permanent |
| `Crash` | process death, or the loop's `return err` when a dead letter cannot be written |
| `Heal` | environment: the cause of a refusal goes away |

`exposed`, `dropped` and `misjudged` are history variables: bad records in memory
whose offset is or may be stored, records an applier has let go of, and records set
aside because of an outage. No action reads them.

**RepairWorker.** `Claim` is the locking SELECT and the UPDATE of `Store.Claim`;
`held[w]` keeps, per claimed entry, the attempts that were *read*, because the
decision is computed from them and written back by id. `Replay` rebuilds and
applies one entry; after an error that is not about it (`Outages`) the write may have
landed. `Record` is
`Resolve` or `Reschedule`. `ClaimLost` is a claim whose COMMIT lands and whose
reply does not; `CrashWorker` is process death or the loop's `return err`.
`Requeue` is the operator's request. Which pending entries are due is up to the
clock, so any of them may be.

**Pipeline** runs both services on the same rows and the same dead-letter table.

**VersionedTable** is what the sink promises: every row is a register that holds
the effect of one change of its own and only moves to one that is not older. The
refinement mapping hides the columns of a tombstone, which `FencedDelete` leaves
as they were.

**ChangeLog.** The source's transaction log while a snapshot is taken. The LSN of
an entry is its index and the image of a row is the LSN of the change that wrote
it, so a row says how fresh it is. `pos` is how far the change stream has been
applied. `FreshRow` and `Mirrors` say what the target should look like.

**SnapshotWindow.** `Buffer`, `OnLowWatermark`, `OnEvent`, `OnHighWatermark` and
`Abort` are functions on a window `[state, chunk, rows]`, error cases included: a
duplicate key leaves the chunk id and the rows before it behind (`again`, empty
when no row comes twice). The rows of a chunk are a set: the order in which they
are emitted does not matter to the rows of the target. The repository
has the window and not its callers; `WriteLow`, `ReadChunk`, `BufferChunk`,
`WriteHigh`, `AbortChunk` and the `Observe*` actions follow the five steps of the
window's comment and are marked external. The steps may interleave in every way,
so `Buffer` may come after the low watermark was observed (`late`, a history
field), and the consumer may restart and replay.

**PartWriter.** One action per step of `internal/snapshot/partition.go` between
which a process can die: the first file is truncated, the first manifest written,
a row appended, a part sealed with its digest and the manifest replaced, the seal
announced (`OnSeal`, where the caller copies the part to the object store, the
only external step), the next file opened, `Close` in its three cases. An extract
that is run again writes over the files and the manifest of the one before.
`SealedParts`, `Validate` and `VerifyPart` are the manifest's. A digest is the
content it was computed over.

**PartLoader.** `pass` is the loop over a manifest, which takes the sealed parts in
index order (`NextPart`), `load[g]` one goroutine of
`loadPart`: `queued` for the semaphore, `verified`, staging table `created`,
`imported`, (`merged`,) `committed`. Each pass makes its own semaphore (`sem`), so
goroutines left over from a failed pass do not count against the next one. On Postgres the DDL is transactional: a
second creator waits, and merge, DROP and COMMIT are one step for the others. On
MySQL CREATE and DROP commit implicitly, so each statement takes effect by
itself and the goroutines share the staging table. `LoadRefused` is a step that
cannot succeed, `LoadFails` a lost connection before or after the statement took
effect, `PassFails` the pass that returns without waiting for its goroutines.
History: `tainted`, the keys merged from rows that the verified digest does not
stand for, and `whole`, whether a load merged all rows it verified.

**Snapshot** composes the two strategies with the change stream and states the
properties of the seam between them.

**Reconciler.** A pass over every table of the plan. `recon.stack` is the
recursion of `descend`, `recon.rows` what the source answered and the target is
still to be compared with: `DigestSource` and `DigestTarget`, `ReadSourceRows` and
`CompareRows` are separate steps, and both databases may change in between.
`Bisect` is the integer bisector with its clamping; `Halves`, `IsLeaf`,
`Descended`, `OnSource`, `OnTarget` and `UpToLimit` are `descend` and
`compareRows`. `EndTable`, `QueryFails`, `RecordReconcileRun` and `PassLost` are
the service loop. The target's rows may be tombstones, which `Digest` leaves out
and `Rows` does not. History: `began`, when a pass began, and `touched`, when a
key was last changed.

**Cutover.** `validTransitions`, `Transition` and `Evaluate` are
`internal/control/phase.go`. `ReadState`, `ReadCounts` and `ReadParts` are the
three reads of one evaluation; `RequestPhase` and `SetPhase` are the check and the
unconditional UPDATE of `Store.SetPhase`, for several requests at a time. Dead
letters, loaded parts and the clock change at any moment.

## 3. The runs

| Run | Instance | Result |
|---|---|---|
| `rows` | histories of up to 4 changes, up to 2 extracts, 2 columns, 2 values and NULL | passes: `EnginesAgree`, `SettlesOnSource`, `RowNeverRegresses` |
| `recreated` | rows deleted and created again, with extracts | **violates** `SettlesOnSource` |
| `replicas` | 2 appliers, 2 partitions, batches of 3, retry budget 2, 1 crash, flaky broker, every outage recognised (1.5 million states) | passes: `LossOnlyInKnownWindows`, `OnlyBadRecordsDeadLettered`, `ConvergedWhenDrained`, `ImplementsVersionedTable`, `OffsetsNeverRegress` |
| `drains` | 1 applier, 1 partition, outages of every class, fairness (0.4 million states) | passes: `LossOnlyInKnownWindows`, `OnlyBadRecordsDeadLettered`, `StreamDrains` |
| `starved` | 1 applier, 2 partitions, no read ever fails early, fairness | **violates** `StreamDrains` |
| `dropped` | 1 applier, good records only, no crash | **violates** `NoRecordLost` |
| `claims` | 2 workers, outages that may look permanent, claims of 2, 3 entries, DLQ budget 3, 1 requeue, 1 lost claim or crash, fairness | passes: `ExclusiveClaim`, `ResolvedMeansCovered`, `PendingHasBudget`, `LifecycleRespected`, `SettlesUnlessOrphaned` |
| `orphaned` | 1 worker, 1 lost claim, fairness | **violates** `EveryDeadLetterSettles` |
| `repair` | 1 applier and 1 worker, outages that may be unknown, records of one row failing before, between and after good ones | passes: `ConvergedWhenRepaired`, `ResolvedMeansCovered`, `ImplementsVersionedTable` |
| `samelsn` | two changes of one row with one LSN, the first dead-lettered | **violates** `ConvergedWhenRepaired` |
| `snapshot` | both strategies; 2 keys, parts of at most 2 rows, 2 extracts, 2 goroutines, both engines, 1 fault; one chunk, 1 abort, 1 restart (2.8 million states) | passes: `NeverStale`, `StagingIsPrivate`, `CompleteManifestCoversTable`, `MirrorsWhenThrough`, `OnlyLateChunksStick` |
| `gate` | 2 tables of 2 rows, every way two sides can differ on one row, 2 events, 2 phase requests (4.7 million states) | passes: `DifferencesLocalised`, `NoFalseAlarm`, `ReadyMeansVerified`, `IllegalMovesAreRaces` |

Each passing property has a mutant of the model (an operator marked `MUTANT`
before the definition it replaces) that breaks it.

*Bounds.* A batch of three records is the smallest whose bisection has an uneven
split and a committed half before a failing one. Two appliers are enough to
overlap and to commit out of order; replicas are alike, so they are permuted.
Two partitions give a batch that spans partitions and an idle reader. A retry
budget of two has a retry and an exhaustion. One crash covers every crash point,
since the state after a restart is that of a fresh process on the tables it
finds. The streams put a bad record before, between and after changes of the
same row, with each class of error, an undecodable message and a skipped one.
`Misjudged` is {"unknown", "permanent"} in `drains`, where one applier meets every
class of outage in every place of its loop, with a record whose refusal looks
transient. In `replicas` it is empty: two appliers that may both bisect at any time
exceed the run's time, and what a misjudged outage does concerns the batch of one
applier. `claims` and `repair` have one class each.
For the worker, three entries with claims of two let two workers hold entries at
once and leave one over; a DLQ budget of three separates the first failure, a
retry with budget left and the exhausting one.

In `snapshot` two extracts are what it takes to write over the parts of a load
under way, and parts roll at one row or at two, so a table is one part, two parts
or one with an empty trailing part. Two goroutines meet in the staging table. The
file strategy has one source change, which may fall before, during or after the
extract and be applied at any time; the stream strategy has two, so that one can
precede a low watermark and one fall into the window. One fault strikes every step of a
Postgres load; on MySQL the goroutines interleave by statement and no fault is
added, since the state space is already the largest part of the run. In `gate` the
first table's rows share a value of the chunk column, so its range cannot be split
and ends as a leaf; the second table's lie at the lowest integer of the key type,
where the midpoint clamps and the descent ends at `MaxDepth`. `MaxFindings` of two
is reached by a pass with two differences. `MaxEvents` bounds changes, failures,
requests and ticks together: two of them put a change between two queries of a
range, between the pass and the gate, or two requests beside each other. The pairs
of `SomePairs` are all that two sides can show of a row, up to the names of
images; `Targets` has a phase that is legal after the first one and one that is
not.

*Deadlock.* The services have no end of their own; when the stream is drained and
the dead letters settled nothing is left to do, so deadlock checking is off in
those runs; likewise when every part is loaded or every event is used up in
`snapshot` and `gate`. In `FencedRow` a delivery is always possible and it stays on.

*Fairness.* `WF(Step(a))` for every applier and `WF(Step(w))` for every worker:
the loop of a running process takes its next step, and ECS starts a stopped task
again. Which outcome a step has (a commit, an error) is left open, so an outage
may last as long as it likes; that the retry budget is finite is what makes
`StreamDrains` hold, and also what makes `dropped` fail. Nothing is assumed of
`Heal`, `Requeue` or `Crash`. In `starved` the broker never fails a read before
the deadline, which is the normal case for a healthy broker: the assumption that
makes reading go on is exactly that reads *fail*. `snapshot` and `gate` check
safety only and assume no fairness.

## 4. Findings

1. **`recreated`.** `MergeStaging` does not reset `_mig_deleted`
   (`internal/dialect/postgres.go:192`, `mysql.go:182`). A part merged onto a
   tombstone raises the row's LSN and leaves it deleted; the insert that created
   the row again is then fenced out. With the parts left out of recreated rows,
   `rows` passes.
2. **`dropped`.** After the retry budget the loop goes on to the next `Poll`
   (`cmd/cdc-applier/main.go:140-151`); the next commit passes the dropped batch.
3. **`starved`.** The readers of one `Poll` share one deadline
   (`internal/stream/consumer.go:123-151`).
4. **`orphaned`.** Nothing releases entries in status `retrying`
   (`internal/store/store.go:122-170`, `cmd/repair-worker/main.go:113-128`).
5. **`samelsn`.** The fence admits equal LSNs, which the changes of one source
   transaction share; a late replay of the older one wins.

Three more disagreements with comments are visible in the model without a run of
their own. `internal/sink/applier.go:171` says offsets advance only once every
record is applied or *durably dead-lettered*, but the dead letters are written
after `commitPositionsOnly`; `LossOnlyInKnownWindows` names that window. And
`docs/adr/0006-durable-dead-letters.md:34` says a record is never both
dead-lettered and re-consumed, but undecodable messages are dead-lettered before
the offset commits, so a restart writes a second entry.

A third is about error classes. `internal/errclass/errclass.go:11-13` and `:33` say that
an error which cannot be classified is "treated as transient but with a bounded
attempt budget" and "retried with a bounded budget, then dead-lettered". The sink only
asks whether the class is transient (`internal/sink/applier.go:159,192`), so an
unknown error is bisected at once and, if it lasts, every record of the batch becomes a
dead letter without a retry of the batch. `misjudged` in `OnlyBadRecordsDeadLettered`
is this window. It is wider on MySQL: the driver's error has `Number` as a field and
no `SQLState` method, so neither table of codes is reached and only the text decides
(`errclass.go:78-86`).

The properties of the snapshot and of the gate name the windows they leave open:

- *A part extracted again is skipped* (`Replaced` in `MirrorsWhenThrough`).
  `PartLoaded` asks by index, not by digest (`internal/store/store.go:353-362`),
  so after "re-extract that part" (`docs/architecture.md:388`) a part that was
  recorded before is never loaded again.
- *What is verified is not what is imported* (`tainted`). `VerifyPart` digests the
  local file, the import reads the object; an extract run again may have changed
  one and not the other (`cmd/snapshot-loader/main.go`,
  `docs/architecture.md:387`).
- *MySQL loads share their staging table* (`tainted`, `whole`; `StagingIsPrivate`
  is stated for Postgres): rows of two parts are merged under one LSN, and rows
  left behind by a failed load are merged by the next one.
- *A chunk buffered late is stuck* (`late` in `OnlyLateChunksStick`): a low
  watermark that comes before `Buffer` is ignored
  (`internal/snapshot/window.go:149`).
- *Hidden differences* (`Hidden`). `Rows` reads tombstones that `Digest` leaves out
  (`internal/recon/sqlsource.go:32-96`): a row that is wrongly deleted on the target and
  kept the source's columns makes the digests differ and the row comparison come
  out equal.
- *NULL in the chunk column*: such a row is in the full range and in no half of it.
- *Racing phase requests* (`IllegalMovesAreRaces`): `SetPhase` checks one phase and
  overwrites another (`internal/store/store.go:309-324`).

Some of what the code does shuts the gate or leaves it meaningless whatever the
interleaving, and shows in the definitions: `migration_state` is only updated,
never inserted, so on a fresh schema a pass and a phase change leave no trace
(`NoState`); `PartCounts` counts rows of `part_state`, which has loaded parts only,
so `parts_not_loaded` never blocks; `currentLag` is a placeholder, so the gate
opens only with `lag_stable_for` at zero; `handlePhase` does not ask the gate; the
source digest filters on `_mig_deleted`, a column only target tables have.

## 5. The proofs

Everything below is proved for every value of the constants: any number of
appliers, workers, partitions and loads, any stream, any budget, any table and
part size. Every safety property of every passing run is a theorem.

*FencedRow* (`FencedRowProofs`, from the lemmas of `FenceProofs`).
`EnginesAlwaysAgree`: the MySQL statements equal the Postgres ones, because an
assignment after the LSN's sees either the new LSN, which its fence admits, or
the unchanged one. `RowMonotone` follows from what each statement does to the
LSN. `ChangesSettle`: with no extract parts, the invariant is that the stored row
is exactly the newest arrived change; the strict order of LSNs within a history
(`HistoryAssumption`) makes that change unique, and when all have arrived it is
the last. Equal LSNs are finding 5. `TypeCorrect` is the type invariant.

*CdcApplier* (`CdcApplierProofs`, from the lemmas about sets of positions and
the sink's operators in `StreamProofs`). `LossOnlyInKnownWindows` is not
inductive: a commit moves the offset over records of which the invariant knows
nothing. `IndInv` adds

- `Holdings`: what an applier holds at each place of its loop, and that while a
  batch is being retried its exposed records are still in that batch;
- `ReadOrHeld`: a record the reader of a running applier is past is held by it or
  accounted for, and it holds only such records;
- `BisectionComplete`: during a bisection each record of the batch is found bad,
  on the target, or still in a sub-batch to be tried.

`Inductive` shows `[](TypeOK /\ IndInv)`, one step per action, each with one part
per conjunct. The facts it needs of the code are that coalescing keeps for every
record one at least as new, that a fenced write covers its record and uncovers no
other, that the two halves are the whole, and that a high-water mark is the
offset of a record in the batch. `TypeCorrect` and `NoSilentLoss` follow.
`OffsetsMonotone` is the action property of `UpsertOffset`, and `Refinement` maps
every step to a `Transaction` of `VersionedTable` or a stutter.

`BisectionIsExact` (`OnlyBadRecordsDeadLettered`) needs that the records an applier
has put aside are bad as well (`BadInv`): a sub-batch of one record that is refused
is a record the target refuses by itself, or one that was on its own when an outage
struck that `Classify` did not take for one (`misjudged`). `RowsAreChanges` says that every row is
the effect of one change of its key, with that change's LSN. With it,
`Convergence` (`ConvergedWhenDrained`) is the argument that when nothing of a row
is lost or dead-lettered all its changes are covered, so the stored LSN is that of
the last. It has the hypothesis `LSNsIdentifyChanges`: two changes of a row with
one LSN are one change delivered twice. The hypothesis is needed. With equal LSNs
and two replicas, a write in doubt that lands late puts the older change back, and
`ConvergedWhenDrained` fails; finding 5 is the same weakness by way of a repair.

*RepairWorker* (`RepairWorkerProofs`). None of the invariants is inductive by
itself: that a resolved entry is covered needs that a worker with an "ok" in hand
has committed the write of the entry it is about to resolve, and that its decision
goes to an entry nobody else has touched needs the exclusive claim. `IndInv` is
`ExclusiveClaim`, `ResolvedMeansCovered`, `PendingHasBudget` and `ResultInHand`
(a worker has a result only for an entry it holds, and "ok" only for a covered
record); `Inductive` shows it with the type, one lemma per action. What it needs
of the code: a claim takes only pending entries and a requeue only quarantined
ones, so neither meets a held one; a replay goes through the fence, so it uncovers
nothing; a decision counts its attempt before it is held against the budget.
`TypeCorrect`, `ClaimsExclusive`, `ResolvedIsCovered`, `BudgetHolds` and the action
property `LifecycleHolds` follow. The list of failed records the initial state starts from
is finite because a stream is (`PositionsFinite`).

*Pipeline* (`PipelineProofs`). The two services write the same rows and the same
dead-letter table, so neither invariant may be taken over as it is. Each proof
module states what its invariant survives from outside (`RelyKeeps`: the stream is
the same, a covered record stays covered, dead letters that exist keep their place)
and what its own steps grant (`Guarantee`); `ApplierStepKeeps` and
`WorkerStepKeeps` put the one's grant under the other's reliance. `AP` and `WP`
are the two services' proof modules instantiated on the shared variables; their
assumptions follow from `PipelineAssumption`. `PipelineInductive` is the conjunction
of both invariants. From it come `ResolvedIsCovered`, `Refinement` (appliers and
workers together implement the versioned table), `NoSilentLossInPipeline` and
`ClaimsExclusiveInPipeline`, and `ConvergenceAfterRepair`
(`ConvergedWhenRepaired`), again under `LSNsIdentifyChanges`, without which
`samelsn` refutes it.

*Snapshot* (`SnapshotProofs`). All five properties of `snapshot`, from one
invariant of five parts, `SnapshotInv`:

- `LogOK`: under the file strategy no row is created again after a delete;
- `TargetOK`: a row of the target stands for something that was read or changed, it
  is fresh unless tainted, and every change the stream has delivered is there with
  an LSN at least its own;
- `WindowOK`: the rows in the window were read after the chunk's low watermark and
  lack no row that never changed (`WindowHolds`); an open window holds no row older
  than the stream position; a chunk buffered in time is still waiting before its
  high watermark (`InTime`);
- `WriterOK`: part `i` of the writer is the file with index `i - 1`, and sealed when
  it should be (`PartPlaced`); no key is written twice (`NotTwice`), and a row that
  was there all the time is written once the scan has passed it (`ScanComplete`). A
  complete manifest says the same of its digests (`ManifestOK`);
- `LoaderOK`: the parts in hand were listed with their digest, on Postgres the
  staging table exists only inside the one load transaction (`StagingHeld`), and a
  load that merged all its rows has them on the target (`WholeOnTarget`).

`NeverStale` is not inductive: what an emitted chunk or a merged part does to a row
depends on when its rows were read, which only the other parts know. The lemmas at
the head of the module say what the log tells of a row: its version is monotone
(`VersionMonotone`), a longer log changes nothing already known (`ExtendedKeeps`),
and `UpsertFresh`, `DeleteFresh` and `MergeFresh` are the freshness of each fenced
statement. The last is the heart of the file strategy: a row that was read after
the extract LSN is at least as new as that LSN says, and a tombstone that the merge
would raise is of a delete the extract had not seen, so it is newer and stays.
Each component has its step lemma (`ChangesStep`, `WindowStep`, `WriterStep`,
`LoaderStep`, over one lemma per action) and one that says its part survives the
steps of the others (`TargetUntouched`, `WindowUntouched`, `WriterUntouched`,
`LoaderUntouched`): the log only grows and no row of the target is lost. From
`Inductive` follow `NeverStaleHolds`, `StagingIsPrivateHolds`,
`CompleteManifestCoversTableHolds`, `OnlyLateChunksStickHolds` and
`MirrorsWhenThroughHolds`; the last joins the seam: a row that changed is fresh and
as new as the stream (`FreshMirrors`), one that never changed came with a chunk or
with a part that the manifest lists and a whole load brought.

*Cutover* (`CutoverProofs`), with the reconciler: all four properties of `gate`.
A pass compares answers that the two databases gave at different moments, so the
invariant speaks of the keys nobody has touched since the pass began (`Since`).
`Undisturbed` is what every step grants: such a key has the rows it had. On it
rests

- `RowsInHand`: the source rows a query returned are, for untouched keys, still
  the source's rows of the range at the head of the stack;
- `DescentComplete`: below the limit, a lasting visible difference of the table is
  reported or in a range on the stack. The facts it needs of the code are that the
  halves of a range cover it (`HalvesCover`, whatever the midpoint is clamped to),
  that equal digests leave no lasting difference (`EqualDigests`), and that the row
  comparison tells apart every pair of rows but the hidden one (`Distinguished`);
- `PassVouches`, `StateVouches`, `GateVouches`: a complete pass without findings
  vouches for the tables behind it, the row that records it for all tables, and an
  evaluation for as long as it holds that row. A table with no finding was not cut
  off at the limit, since the limit is positive;
- `RequestsChecked`: a request in flight has a legal move from the phase it read.

`Inductive` shows the conjunction, `PassLocalises`, `ReadyIsVerified` and
`PhaseMovesAreLegalOrRaces` follow. `AlarmsAreReal` adds that each finding about
an untouched key is justified (`AlarmInv`).

The assumptions on constants are those of `MisjudgedAssumption` (classes that
`Classify` returns), `StreamAssumption`, `ApplierAssumption`, `WorkerAssumption`, `DLQAssumption`, `PipelineAssumption` and,
for rows, `ImagesAssumption`, `HistoryAssumption` and `ExtractAssumption`; for the
snapshot `KeysAssumption` (finitely many keys, in scan order, and `NoRow` is no
row), `ChunksAssumption`, `MaxPartRowsAssumption`, `EnginesAssumption` and
`ConcurrencyAssumption`; for the reconciler and the gate `TablesAssumption`,
`OptionsAssumption` (positive limits), `ThresholdsAssumption` (no finding is
tolerated, the default), `FirstRowsAssumption`, `FirstStatesAssumption` and
`TargetsAssumption`. TLC evaluates them in every run of the module. The two
convergence theorems have the further hypothesis `LSNsIdentifyChanges`.

*Only model-checked:* liveness (`StreamDrains`, `SettlesUnlessOrphaned`), since
reasoning about fairness is out of the prover's reach, and the violations of
section 4, which are counterexamples.

## 6. Abstractions and limits

- A transaction is one step. Row locks inside it are not modelled: `write` sorts
  its tables, and a deadlock is a transient error like any other.
- What an error's text matches is two bits, one per table of fragments.
- The target refuses a record by itself, not because of its neighbours in the
  batch, and its class does not change between attempts.
- A stored offset of "none" starts at the first message
  (`start_offset: earliest`).
- Delays, jitter and due times are left out: a retry may come at any time.
- `MaxCrashes`, `MaxRequeues` and `MaxLosses` bound the environment, and
  `MaxLSN`, `MaxOffset` and `MaxPartition` are the ceilings of the integer types.
- Digests do not collide: the digest of a part or a range is its content. Row
  encoding, compression and the canonical form of keys are left out.
- Only the integer bisector is modelled, and it is the only one the code reaches. A
  pass starts from the full range, for which `bisect` answers with `int64(0)`
  whatever the column's type (`internal/recon/reconcile.go:231-243`); the comment
  there says the string bisector takes over once a bound exists, but every later
  bound is an integer, so `StringBisector` and `TimeBisector` never run. What a
  database makes of a text or time column compared with an integer is outside the
  model: the chunk column is taken to be an integer.
- A pass without a row reader, which reports every unequal leaf as a range, is not
  modelled; the service always configures one.
- The source digest is taken to succeed, although it filters on a column the source
  lacks (section 4): with a failing query every pass fails, the gate stays shut, and
  nothing is left to say of the descent.
- Payload encryption is left out, and with it an entry whose payload cannot be
  decrypted. In the code one such entry among the due ones makes `Claim` return an
  error before it marks any (`internal/store/store.go:142-146`), on every poll:
  `SettlesUnlessOrphaned` is about tables without one.
- The file strategy leaves out rows that are created again after a delete, which
  is finding 1.
- `ValidateOverride` has no caller and is not modelled.
- `MaxExtracts`, `MaxFaults`, `MaxAborts`, `MaxRestarts`, `MaxChanges`,
  `Goroutines`, `MaxEvents`, `Requests`, `FirstStates`, `FirstRows`, `Targets` and
  `MaxParts` bound the two newer runs.
- The status `discarded` exists in the type and no code writes it.

## 7. Plan

Done: `Fence`, `FencedRow`, `ChangeStream`, `DeadLetters`, `CdcApplier`,
`RepairWorker`, `Pipeline`, `VersionedTable`; `ChangeLog`, `SnapshotWindow`,
`PartWriter`, `PartLoader`, `Snapshot`; `Reconciler`, `Cutover`; and the proofs of
section 5.

Next, in this order:

1. **Proofs**: that on Postgres only an extract run again can taint a key
   (`tainted` stays empty with one extract), and the life cycle of a dead letter as
   an abstract specification that `RepairWorker` and `Pipeline` refine.
2. **Decoder numerics**: `extractLSN` and `toUint64` with their widths, checked
   against the order of the source positions.

Not modelled: the encoding of keys and the table model, configuration and
bootstrap, cryptography and observability. They are pure functions of static input
or have no state the migration's correctness rests on; `PROJECT.json` gives the
reason for each.
