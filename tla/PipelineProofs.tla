--------------------------- MODULE PipelineProofs ---------------------------
(***************************************************************************)
(* Proofs about the appliers and the repair workers at work on one target, *)
(* for any number of either and every stream.  The argument is by rely and *)
(* guarantee: each service keeps its own invariant, and what a step of one *)
(* guarantees is what the invariant of the other relies on.                *)
(***************************************************************************)
EXTENDS Pipeline, StreamProofs

\* What is proved of each service on its own.
AP == INSTANCE CdcApplierProofs
WP == INSTANCE RepairWorkerProofs

-----------------------------------------------------------------------------
(***************************************************************************)
(* The services of the pipeline are the services those proofs are about.   *)
(***************************************************************************)

\* The constants of the pipeline satisfy the assumptions of both services.
LEMMA ServiceAssumptions ==
  /\ Appliers # {} /\ BatchSize \in Nat \ {0} /\ ApplyAttempts \in Nat /\ MaxCrashes \in Nat
  /\ FlakyBroker \in BOOLEAN
  /\ ClaimLimit \in Nat \ {0} /\ MaxRequeues \in Nat /\ MaxLosses \in Nat
  /\ DLQAttempts \in Nat
  /\ MaxPartition \in Nat /\ MaxOffset \in Nat /\ Partitions \subseteq 0..MaxPartition
  /\ MaxLSN \in Nat /\ NullImage \in Vals
  /\ NoRow \notin AP!Row(Vals) /\ NoRow \notin WP!Row(Vals)
  /\ Misjudged \subseteq {AP!Classify(err) : err \in AP!Error} \ {"transient"}
  /\ Misjudged \subseteq {WP!Classify(err) : err \in WP!Error} \ {"transient"}
  /\ \A l \in Logs : /\ l \in [Partitions -> Seq(AP!Message)]
                     /\ l \in [Partitions -> Seq(WP!Message)]
                     /\ \A p \in Partitions : Len(l[p]) <= MaxOffset
<1>1. AP!Row(Vals) = Row(Vals) /\ WP!Row(Vals) = Row(Vals)
  BY DEF AP!Row, WP!Row, Row
<1>2. AP!Error = Error /\ WP!Error = Error
  BY DEF AP!Error, AP!TransientStates, AP!PermanentStates, AP!transientMySQL, AP!permanentMySQL,
         WP!Error, WP!TransientStates, WP!PermanentStates, WP!transientMySQL, WP!permanentMySQL,
         Error, TransientStates, PermanentStates, transientMySQL, permanentMySQL
<1>3. \A err : AP!Classify(err) = Classify(err)
  BY DEF AP!Classify, AP!classifySQLState, AP!classifyText, AP!TransientStates,
         AP!PermanentStates, AP!transientMySQL, AP!permanentMySQL, Classify, classifySQLState,
         classifyText, TransientStates, PermanentStates, transientMySQL, permanentMySQL
<1>4. \A err : WP!Classify(err) = Classify(err)
  BY DEF WP!Classify, WP!classifySQLState, WP!classifyText, WP!TransientStates,
         WP!PermanentStates, WP!transientMySQL, WP!permanentMySQL, Classify, classifySQLState,
         classifyText, TransientStates, PermanentStates, transientMySQL, permanentMySQL
<1>5. AP!Faults = Faults /\ WP!Faults = Faults
  BY <1>2, <1>3, <1>4 DEF AP!Faults, AP!Refusals, WP!Faults, WP!Refusals, Faults, Refusals
<1>6. AP!Message = Message /\ WP!Message = Message
  BY <1>5 DEF AP!Message, AP!Kinds, WP!Message, WP!Kinds, Message, Kinds
<1>. QED
  BY <1>1, <1>2, <1>3, <1>4, <1>6, StreamAssumption, DLQAssumption, PipelineAssumption,
     MisjudgedAssumption

\* The operators on the stream mean the same in the appliers.
LEMMA ApplierVocabulary ==
  /\ AP!Tables = Tables
  /\ \A l : AP!Positions(l) = Positions(l)
  /\ \A l, x : AP!At(l, x) = At(l, x) /\ (AP!IsRow(l, x) <=> IsRow(l, x))
  /\ \A l, r, x : AP!Covered(l, r, x) <=> Covered(l, r, x)
  /\ \A l, r, S : AP!Write(l, r, S) = Write(l, r, S)
<1>1. AP!Tables = Tables
  BY DEF AP!Tables, AP!Row, Tables, Row
<1>2. \A l : AP!Positions(l) = Positions(l)
  BY DEF AP!Positions, Positions
<1>3. \A l, x : AP!At(l, x) = At(l, x) /\ (AP!IsRow(l, x) <=> IsRow(l, x))
  BY DEF AP!At, AP!IsRow, At, IsRow
<1>4. \A l, r, x : AP!Covered(l, r, x) <=> Covered(l, r, x)
  BY DEF AP!Covered, AP!At, Covered, At
<1>5. \A l, r, S : AP!Write(l, r, S) = Write(l, r, S)
  BY DEF AP!Write, AP!Coalesce, AP!Supersedes, AP!WriteRow, AP!FencedUpsert, AP!FencedDelete,
         AP!Fenced, AP!At, Write, Coalesce, Supersedes, WriteRow, FencedUpsert, FencedDelete,
         Fenced, At
<1>. QED
  BY <1>1, <1>2, <1>3, <1>4, <1>5

\* And in the workers.
LEMMA WorkerVocabulary ==
  /\ WP!Tables = Tables
  /\ \A l : WP!Positions(l) = Positions(l)
  /\ \A l, x : WP!At(l, x) = At(l, x) /\ (WP!IsRow(l, x) <=> IsRow(l, x))
  /\ \A l, r, x : WP!Covered(l, r, x) <=> Covered(l, r, x)
  /\ \A l, r, S : WP!Write(l, r, S) = Write(l, r, S)
<1>1. WP!Tables = Tables
  BY DEF WP!Tables, WP!Row, Tables, Row
<1>2. \A l : WP!Positions(l) = Positions(l)
  BY DEF WP!Positions, Positions
<1>3. \A l, x : WP!At(l, x) = At(l, x) /\ (WP!IsRow(l, x) <=> IsRow(l, x))
  BY DEF WP!At, WP!IsRow, At, IsRow
<1>4. \A l, r, x : WP!Covered(l, r, x) <=> Covered(l, r, x)
  BY DEF WP!Covered, WP!At, Covered, At
<1>5. \A l, r, S : WP!Write(l, r, S) = Write(l, r, S)
  BY DEF WP!Write, WP!Coalesce, WP!Supersedes, WP!WriteRow, WP!FencedUpsert, WP!FencedDelete,
         WP!Fenced, WP!At, Write, Coalesce, Supersedes, WriteRow, FencedUpsert, FencedDelete,
         Fenced, At
<1>. QED
  BY <1>1, <1>2, <1>3, <1>4, <1>5

\* A step of the appliers in the pipeline is a step of the service.
LEMMA ApplierStepIs == Applier!Next => AP!Next
BY DEF Applier!Next, Applier!Step, Applier!Start, Applier!Poll, Applier!Readable,
       Applier!Undecodable, Applier!DecodeFailure, Applier!Decoded, Applier!Apply,
       Applier!ApplyRejected, Applier!Isolate, Applier!CommitPositionsOnly,
       Applier!Divide, Applier!Classes, Applier!FailedWith, Applier!PutDeadLetters,
       Applier!EndAttempt, Applier!LastAttempt, Applier!MisjudgedError,
       Applier!MisjudgedCommit, Applier!InDoubt, Applier!Exposing, Applier!TransientError,
       Applier!Crash, Applier!Heal, Applier!target, Applier!local, Applier!history,
       Applier!Row, Applier!Fenced, Applier!FencedUpsert, Applier!FencedDelete,
       Applier!Positions, Applier!At, Applier!IsRow, Applier!Before, Applier!First,
       Applier!Supersedes, Applier!Coalesce, Applier!WriteRow, Applier!Write,
       Applier!Rejected, Applier!DataError, Applier!LowerHalf, Applier!UpperHalf,
       Applier!HighWaterMarks, Applier!UpsertOffset, Applier!Exhausted, Applier!NewEntry, Applier!Max,
       Applier!Cardinality,
       AP!Next, AP!Step, AP!Start, AP!Poll, AP!Readable, AP!Undecodable, AP!DecodeFailure,
       AP!Decoded, AP!Apply, AP!ApplyRejected, AP!Isolate, AP!CommitPositionsOnly,
       AP!Divide, AP!Classes, AP!FailedWith, AP!PutDeadLetters, AP!EndAttempt,
       AP!LastAttempt, AP!MisjudgedError, AP!MisjudgedCommit, AP!InDoubt, AP!Exposing,
       AP!TransientError, AP!Crash, AP!Heal,
       AP!target, AP!local, AP!history, AP!Row, AP!Fenced, AP!FencedUpsert,
       AP!FencedDelete, AP!Positions, AP!At, AP!IsRow, AP!Before, AP!First, AP!Supersedes,
       AP!Coalesce, AP!WriteRow, AP!Write, AP!Rejected, AP!DataError, AP!LowerHalf, AP!UpperHalf,
       AP!HighWaterMarks, AP!UpsertOffset, AP!Exhausted, AP!NewEntry, AP!Max, AP!Cardinality

\* A step of the workers in the pipeline is a step of the service.
LEMMA WorkerStepIs ==
  ASSUME WorkerStep
  PROVE  WP!Next /\ UNCHANGED applierOnly
<1>1. ASSUME NEW w \in Workers, Worker!Step(w) \/ Worker!ClaimLost(w) \/ Worker!CrashWorker(w)
      PROVE  WP!Step(w) \/ WP!ClaimLost(w) \/ WP!CrashWorker(w)
  BY <1>1 DEF Worker!Step, Worker!Claim, Worker!ClaimLost, Worker!Claimable, Worker!MarkClaimed,
       Worker!Replay, Worker!Rebuilds, Worker!Outages, Worker!Record, Worker!Decision,
       Worker!CrashWorker,
       Worker!EvaluateSuccess, Worker!Evaluate, Worker!Exhausted, Worker!private, Worker!bounds,
       Worker!Row, Worker!Fenced, Worker!FencedUpsert, Worker!FencedDelete,
       Worker!At, Worker!IsRow, Worker!Supersedes, Worker!Coalesce, Worker!WriteRow,
       Worker!Write, Worker!Cardinality, Worker!Restrict,
       WP!Step, WP!Claim, WP!ClaimLost, WP!Claimable, WP!MarkClaimed, WP!Replay, WP!Rebuilds,
       WP!Outages,
       WP!Record, WP!Decision, WP!CrashWorker, WP!EvaluateSuccess, WP!Evaluate, WP!Exhausted,
       WP!private, WP!bounds, WP!Row, WP!Fenced, WP!FencedUpsert, WP!FencedDelete,
       WP!At, WP!IsRow, WP!Supersedes, WP!Coalesce, WP!WriteRow, WP!Write, WP!Cardinality,
       WP!Restrict
<1>2. ASSUME NEW ids \in SUBSET DOMAIN dead \ {{}}, Worker!Requeue(ids)
      PROVE  WP!Requeue(ids)
  BY <1>2 DEF Worker!Requeue, Worker!private, WP!Requeue, WP!private
<1>. QED
  BY <1>1, <1>2 DEF WorkerStep, WP!Next

-----------------------------------------------------------------------------
(***************************************************************************)
(* The invariant of the pipeline.                                          *)
(***************************************************************************)

\* Both services are as they would be alone, and every row is a change of its own.
PipelineInv ==
  /\ AP!TypeOK /\ AP!IndInv
  /\ WP!TypeOK /\ WP!IndInv
  /\ RowsFromStream(log, rows)

\* At the start nothing is written, dead-lettered or claimed.
LEMMA PipelineInit == Init => PipelineInv
<1>. SUFFICES ASSUME Init
              PROVE  PipelineInv
  OBVIOUS
<1>1. AP!Init
  BY DEF Init, Applier!Init, AP!Init, Applier!Faulty, AP!Faulty, Applier!Positions,
         AP!Positions, Applier!IsRow, AP!IsRow, Applier!At, AP!At
<1>2. AP!TypeOK /\ AP!IndInv
  BY <1>1, ServiceAssumptions, AP!TypeInit, AP!InvariantInit
<1>3. /\ log \in Logs /\ rows = [k \in Keys |-> NoRow] /\ dead = <<>>
      /\ faulty = AP!Faulty(log)
  BY <1>1 DEF AP!Init
<1>4. AP!Faulty(log) = WP!Faulty(log)
  BY DEF AP!Faulty, WP!Faulty, AP!Positions, WP!Positions, AP!IsRow, WP!IsRow, AP!At, WP!At
<1>5. /\ held = [w \in Workers |-> <<>>] /\ current = [w \in Workers |-> 0]
      /\ result = [w \in Workers |-> "none"] /\ requeues = 0 /\ losses = 0
  BY DEF Init
<1>6. WP!TypeOK
  <2>1. held = [w \in Workers |-> <<>>] /\ \A w \in Workers : DOMAIN held[w] = {}
    BY <1>5
  <2>2. DOMAIN held = Workers /\ \A w \in Workers : /\ DOMAIN held[w] \subseteq DOMAIN dead
                                                    /\ held[w] \in [DOMAIN held[w] -> Nat]
    BY <2>1
  <2>3. requeues \in 0..MaxRequeues /\ losses \in 0..MaxLosses
    BY <1>5, PipelineAssumption
  <2>. QED
    BY <1>3, <1>4, <1>5, <2>2, <2>3 DEF WP!TypeOK, WP!Results
<1>7. WP!IndInv
  BY <1>3, <1>5 DEF WP!IndInv, WP!ExclusiveClaim, WP!ResolvedMeansCovered,
                    WP!PendingHasBudget, WP!ResultInHand
<1>8. RowsFromStream(log, rows)
  BY <1>3 DEF RowsFromStream
<1>. QED
  BY <1>2, <1>6, <1>7, <1>8 DEF PipelineInv

\* What both services do to the table: nothing, or one batch of row changes.
TableStep ==
  /\ log' = log
  /\ \/ rows' = rows
     \/ \E S \in SUBSET Positions(log) :
          rows' = Write(log, rows, S) /\ \A x \in S : IsRow(log, x)

\* Such a step takes no row back and leaves every row a change of its own.
LEMMA TableStepEffect ==
  ASSUME log \in Logs, rows \in Tables, RowsFromStream(log, rows), TableStep
  PROVE  /\ rows' \in Tables /\ RowsFromStream(log', rows')
         /\ \A k \in Keys : rows[k] # NoRow => rows'[k] # NoRow /\ rows'[k].lsn >= rows[k].lsn
<1>1. CASE rows' = rows
  <2>1. \A k \in Keys : rows[k] # NoRow => rows[k].lsn \in Nat
    BY DEF Tables, Row
  <2>. QED
    BY <1>1, <2>1 DEF TableStep
<1>2. CASE \E S \in SUBSET Positions(log) :
             rows' = Write(log, rows, S) /\ \A x \in S : IsRow(log, x)
  <2>1. PICK S \in SUBSET Positions(log) : rows' = Write(log, rows, S) /\ \A x \in S : IsRow(log, x)
    BY <1>2
  <2>2. log' = log
    BY DEF TableStep
  <2>. QED
    BY <2>1, <2>2, WriteCovers, WriteFromStream
<1>. QED
  BY <1>1, <1>2 DEF TableStep

\* A step of the appliers keeps the invariant of the workers.
LEMMA ApplierStepKeeps ==
  ASSUME PipelineInv, ApplierStep
  PROVE  PipelineInv' /\ TableStep
<1>1. AP!Next /\ UNCHANGED <<held, current, result, requeues, losses>>
  BY ApplierStepIs DEF ApplierStep, workerOnly
<1>2. AP!TypeOK /\ AP!IndInv /\ WP!TypeOK /\ WP!IndInv
  BY DEF PipelineInv
<1>3. AP!TypeOK' /\ AP!IndInv'
  BY <1>1, <1>2, ServiceAssumptions, AP!InvariantStep
<1>4. TableStep
  <2>1. /\ log' = log
        /\ \/ rows' = rows
           \/ \E S \in SUBSET AP!Positions(log) :
                rows' = AP!Write(log, rows, S) /\ \A x \in S : AP!IsRow(log, x)
    BY <1>1, <1>2, ServiceAssumptions, AP!RowsStep
  <2>. QED
    BY <2>1, ApplierVocabulary DEF TableStep
<1>5. log \in Logs /\ rows \in Tables
  BY <1>2, ApplierVocabulary DEF AP!TypeOK, AP!Tables
<1>6. /\ rows' \in Tables /\ RowsFromStream(log', rows')
      /\ \A k \in Keys : rows[k] # NoRow => rows'[k] # NoRow /\ rows'[k].lsn >= rows[k].lsn
  BY <1>4, <1>5, TableStepEffect DEF PipelineInv
<1>7. /\ log' = log /\ faulty' \subseteq faulty
      /\ \/ dead' = dead
         \/ \E e \in AP!Entries : /\ dead' = Append(dead, e)
                                  /\ e.status \in {"pending", "quarantined"} /\ e.attempts = 1
  BY <1>1, <1>2, ServiceAssumptions, AP!Guarantee
<1>8. AP!Entries = WP!Entry
  BY DEF AP!Entries, WP!Entry, AP!Statuses, WP!Statuses, AP!Positions, WP!Positions
<1>9. dead \in Seq(WP!Entry)
  BY <1>2 DEF WP!TypeOK
<1>10. /\ dead' \in Seq(WP!Entry)
       /\ \A i \in DOMAIN dead : i \in DOMAIN dead' /\ dead'[i] = dead[i]
       /\ \A i \in DOMAIN dead' \ DOMAIN dead :
            dead'[i].status \in {"pending", "quarantined"} /\ dead'[i].attempts = 1
  <2>1. CASE dead' = dead
    BY <1>9, <2>1
  <2>2. CASE \E e \in WP!Entry : /\ dead' = Append(dead, e)
                                 /\ e.status \in {"pending", "quarantined"} /\ e.attempts = 1
    <3>1. PICK e \in WP!Entry : /\ dead' = Append(dead, e)
                                /\ e.status \in {"pending", "quarantined"} /\ e.attempts = 1
      BY <2>2
    <3>2. /\ dead' \in Seq(WP!Entry)
          /\ \A i \in DOMAIN dead : i \in DOMAIN dead' /\ dead'[i] = dead[i]
          /\ \A i \in DOMAIN dead' \ DOMAIN dead : dead'[i] = e
      BY <1>9, <3>1
    <3>. QED
      BY <3>1, <3>2
  <2>. QED
    BY <1>7, <1>8, <2>1, <2>2
<1>11. WP!RowsKept /\ rows' \in WP!Tables
  BY <1>6, WorkerVocabulary DEF WP!RowsKept
<1>12. WP!TypeOK' /\ WP!IndInv'
  BY <1>1, <1>2, <1>7, <1>10, <1>11, ServiceAssumptions, WP!RelyKeeps
<1>. QED
  BY <1>3, <1>4, <1>6, <1>12 DEF PipelineInv

\* A step of the workers keeps the invariant of the appliers.
LEMMA WorkerStepKeeps ==
  ASSUME PipelineInv, WorkerStep
  PROVE  PipelineInv' /\ TableStep
<1>1. WP!Next /\ UNCHANGED <<offsets, pc, next, batch, events, todo, failed, attempts, crashes,
                             exposed, dropped, misjudged>>
  BY WorkerStepIs DEF applierOnly
<1>2. AP!TypeOK /\ AP!IndInv /\ WP!TypeOK /\ WP!IndInv
  BY DEF PipelineInv
<1>3. WP!TypeOK' /\ WP!IndInv'
  BY <1>1, <1>2, ServiceAssumptions, WP!TypeStep, WP!InvStep
<1>4. /\ log' = log /\ faulty' \subseteq faulty
      /\ DOMAIN dead' = DOMAIN dead /\ \A i \in DOMAIN dead : dead'[i].pos = dead[i].pos
      /\ \/ rows' = rows
         \/ \E S \in SUBSET WP!Positions(log) :
              rows' = WP!Write(log, rows, S) /\ \A x \in S : WP!IsRow(log, x)
  BY <1>1, <1>2, ServiceAssumptions, WP!Guarantee
<1>5. TableStep
  BY <1>4, WorkerVocabulary DEF TableStep
<1>6. log \in Logs /\ rows \in Tables
  BY <1>2, ApplierVocabulary DEF AP!TypeOK, AP!Tables
<1>7. /\ rows' \in Tables /\ RowsFromStream(log', rows')
      /\ \A k \in Keys : rows[k] # NoRow => rows'[k] # NoRow /\ rows'[k].lsn >= rows[k].lsn
  BY <1>5, <1>6, TableStepEffect DEF PipelineInv
<1>8. dead' \in Seq(AP!Entries)
  <2>1. dead' \in Seq(WP!Entry')
    BY <1>3 DEF WP!TypeOK
  <2>2. WP!Entry' = AP!Entries
    BY <1>4 DEF AP!Entries, WP!Entry, AP!Statuses, WP!Statuses, AP!Positions, WP!Positions
  <2>. QED
    BY <2>1, <2>2
<1>9. AP!RowsKept /\ rows' \in AP!Tables
  BY <1>7, ApplierVocabulary DEF AP!RowsKept
<1>10. AP!TypeOK' /\ AP!IndInv'
  BY <1>1, <1>2, <1>4, <1>8, <1>9, ServiceAssumptions, AP!RelyKeeps
<1>. QED
  BY <1>3, <1>5, <1>7, <1>10 DEF PipelineInv

\* Every step of the pipeline keeps the invariant and moves the table by a fenced
\* batch at most.
LEMMA PipelineStep ==
  ASSUME PipelineInv, [Next]_vars
  PROVE  PipelineInv' /\ TableStep
<1>1. CASE UNCHANGED vars
  <2>1. UNCHANGED <<log, faulty, rows, dead, offsets, pc, next, batch, events, todo, failed,
                    attempts, crashes, exposed, dropped, misjudged, held, current, result,
                    requeues, losses>>
    BY <1>1 DEF vars, applierOnly, workerOnly
  <2>2. UNCHANGED AP!vars /\ UNCHANGED WP!vars
    BY <2>1 DEF AP!vars, AP!target, AP!local, AP!history, WP!vars, WP!private, WP!bounds
  <2>3. AP!TypeOK' /\ AP!IndInv'
    BY <2>2, ServiceAssumptions, AP!InvariantStep DEF PipelineInv
  <2>4. WP!TypeOK' /\ WP!IndInv'
    BY <2>2, ServiceAssumptions, WP!TypeStep, WP!InvStep DEF PipelineInv
  <2>. QED
    BY <2>1, <2>3, <2>4 DEF PipelineInv, TableStep
<1>. QED
  BY <1>1, ApplierStepKeeps, WorkerStepKeeps DEF Next

\* The invariant holds in every reachable state of the pipeline.
THEOREM PipelineInductive == Spec => []PipelineInv
<1>1. Init => PipelineInv
  BY PipelineInit
<1>2. PipelineInv /\ [Next]_vars => PipelineInv'
  BY PipelineStep
<1>. QED
  BY <1>1, <1>2, PTL DEF Spec

-----------------------------------------------------------------------------
(***************************************************************************)
(* Correctness of the pipeline.                                            *)
(***************************************************************************)

\* With any number of appliers writing the same rows and adding entries, an entry is
\* resolved only when its record, or a newer change to its row, is on the target
\* (EvaluateSuccess, Resolve).
THEOREM ResolvedIsCovered == Spec => []ResolvedMeansCovered
<1>1. PipelineInv => ResolvedMeansCovered
  BY DEF PipelineInv, WP!IndInv, WP!ResolvedMeansCovered, ResolvedMeansCovered,
         Worker!ResolvedMeansCovered, WP!Covered, WP!At, Worker!Covered, Worker!At
<1>. QED
  BY <1>1, PipelineInductive, PTL

\* With repair workers beside them no applier ever commits an offset past a record
\* that is neither settled nor in one of the two known windows.
THEOREM NoSilentLossInPipeline == Spec => []Applier!LossOnlyInKnownWindows
<1>1. PipelineInv => Applier!LossOnlyInKnownWindows
  BY DEF PipelineInv, AP!IndInv, AP!LossOnlyInKnownWindows, AP!Committed, AP!Accounted,
         AP!Settled, AP!InFlight, AP!DeadLettered, AP!Covered, AP!IsRow, AP!At, AP!Positions,
         Applier!LossOnlyInKnownWindows, Applier!Committed, Applier!Accounted, Applier!Settled,
         Applier!InFlight, Applier!DeadLettered, Applier!Covered, Applier!IsRow, Applier!At,
         Applier!Positions
<1>. QED
  BY <1>1, PipelineInductive, PTL

\* With appliers beside them no two workers ever work on the same entry.
THEOREM ClaimsExclusiveInPipeline == Spec => []Worker!ExclusiveClaim
<1>1. PipelineInv => Worker!ExclusiveClaim
  BY DEF PipelineInv, WP!IndInv, WP!ExclusiveClaim, Worker!ExclusiveClaim
<1>. QED
  BY <1>1, PipelineInductive, PTL

\* Appliers and repair workers together refine the versioned table: a dead letter
\* replayed out of its place in the stream is one more fenced write, and no row ever
\* moves to a change that is older or not its own (README.md:287-288).
THEOREM Refinement == Spec => ImplementsVersionedTable
<1>1. Init => Applier!Table!Init
  BY DEF Init, Applier!Init, Applier!Table!Init, Applier!Visible
<1>2. PipelineInv /\ [Next]_vars
        => [Applier!Table!Transaction]_<<log, [k \in Keys |-> Applier!Visible(rows[k])]>>
  <2>. SUFFICES ASSUME PipelineInv, [Next]_vars
                PROVE  [Applier!Table!Transaction]_<<log, [k \in Keys |-> Applier!Visible(rows[k])]>>
    OBVIOUS
  <2>1. log \in Logs /\ rows \in AP!Tables
    BY DEF PipelineInv, AP!TypeOK, AP!Tables
  <2>2. /\ log' = log
        /\ \/ rows' = rows
           \/ \E S \in SUBSET AP!Positions(log) :
                rows' = AP!Write(log, rows, S) /\ \A x \in S : AP!IsRow(log, x)
    BY PipelineStep, ApplierVocabulary DEF TableStep
  <2>3. [AP!Table!Transaction]_<<log, [k \in Keys |-> AP!Visible(rows[k])]>>
    BY <2>1, <2>2, ServiceAssumptions, AP!TransactionRefined
  <2>. QED
    BY <2>3 DEF AP!Table!Transaction, AP!Table!Installs, AP!Table!VersionOf, AP!Table!ChangesTo,
         AP!Table!Positions, AP!Table!IsRow, AP!Table!At, AP!Table!Row, AP!Visible,
         Applier!Table!Transaction, Applier!Table!Installs, Applier!Table!VersionOf,
         Applier!Table!ChangesTo, Applier!Table!Positions, Applier!Table!IsRow,
         Applier!Table!At, Applier!Table!Row, Applier!Visible
<1>. QED
  BY <1>1, <1>2, PipelineInductive, PTL DEF Spec, ImplementsVersionedTable, Applier!Table!Spec

\* Once the stream is drained, every dead letter resolved and nothing let go of, every
\* row shows the last change the source made to it, whatever the order of appliers,
\* crashes, bisections, requeues and late replays was.  An LSN must identify a change
\* of its row: with two changes of one LSN a late replay of the first does resurrect
\* an old value.
THEOREM ConvergenceAfterRepair ==
  ASSUME LSNsIdentifyChanges
  PROVE  Spec => []ConvergedWhenRepaired
<1>1. PipelineInv => ConvergedWhenRepaired
  <2>. SUFFICES ASSUME PipelineInv, Applier!Drained, AllRepaired,
                       NEW k \in Keys, ChangesTo(log, k) # {}
                PROVE  Shows(rows[k], At(log, LastChange(log, k)))
    BY DEF ConvergedWhenRepaired
  <2>1. /\ AP!TypeOK /\ AP!IndInv /\ WP!TypeOK /\ WP!IndInv /\ RowsFromStream(log, rows)
        /\ log \in Logs /\ rows \in Tables
    BY ApplierVocabulary DEF PipelineInv, AP!TypeOK, AP!Tables
  <2>2. PICK a \in Appliers : TRUE
    BY PipelineAssumption
  <2>3. /\ \A b \in Appliers : pc[b] = "poll" /\ batch[b] = {} /\ events[b] = {} /\ exposed[b] = {}
        /\ \A p \in Partitions : next[a][p] > Len(log[p])
    BY <2>1, <2>2 DEF Applier!Drained, Applier!DrainedBy, AP!IndInv, AP!Holdings
  <2>4. ASSUME NEW x \in ChangesTo(log, k)
        PROVE  Covered(log, rows, x)
    <3>1. x \in Positions(log) /\ IsRow(log, x)
      BY DEF ChangesTo
    <3>2. /\ x[1] \in Partitions /\ x[2] \in Nat /\ Len(log[x[1]]) \in Nat
          /\ x[2] \in 1..Len(log[x[1]])
      BY <2>1, <3>1, PositionsTyped
    <3>3. next[a][x[1]] \in Nat /\ next[a][x[1]] > Len(log[x[1]])
      BY <2>1, <2>2, <2>3, <3>2 DEF AP!TypeOK
    <3>4. x[2] < next[a][x[1]]
      BY <3>2, <3>3
    <3>5. AP!Accounted(x)
      BY <2>1, <2>2, <2>3, <3>1, <3>4, ApplierVocabulary DEF AP!IndInv, AP!ReadOrHeld
    <3>6. x \notin dropped /\ ~AP!InFlight(x)
      BY <2>3 DEF AllRepaired, AP!InFlight
    <3>7. AP!DeadLettered(x) => Covered(log, rows, x)
      BY <2>1, WorkerVocabulary DEF AP!DeadLettered, AllRepaired, WP!IndInv, WP!ResolvedMeansCovered
    <3>. QED
      BY <3>1, <3>5, <3>6, <3>7, ApplierVocabulary DEF AP!Accounted, AP!Settled, IsRow
  <2>. QED
    BY <2>1, <2>4, CoveredShowsLast
<1>. QED
  BY <1>1, PipelineInductive, PTL
=============================================================================
