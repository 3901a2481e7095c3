------------------------------ MODULE Pipeline ------------------------------
(***************************************************************************)
(* The appliers and the repair workers at work on the same target: a       *)
(* record an applier could not write comes back later, out of its place in *)
(* the stream, while the appliers go on writing the same rows.             *)
(***************************************************************************)
EXTENDS ChangeStream, DeadLetters

CONSTANTS
  Appliers, BatchSize, ApplyAttempts, MaxCrashes, FlakyBroker,  \* CdcApplier
  Workers, ClaimLimit, MaxRequeues, MaxLosses                   \* RepairWorker

ASSUME PipelineAssumption ==
  /\ Appliers # {}
  /\ BatchSize \in Nat \ {0} /\ ApplyAttempts \in Nat /\ MaxCrashes \in Nat
  /\ FlakyBroker \in BOOLEAN
  /\ ClaimLimit \in Nat \ {0} /\ MaxRequeues \in Nat /\ MaxLosses \in Nat

VARIABLES
  log, faulty, rows, dead,                                 \* shared
  offsets, pc, next, batch, events, todo, failed,          \* CdcApplier
  attempts, crashes, exposed, dropped, misjudged,
  held, current, result, requeues, losses                  \* RepairWorker

Applier == INSTANCE CdcApplier
Worker == INSTANCE RepairWorker

applierOnly ==
  <<offsets, pc, next, batch, events, todo, failed, attempts, crashes, exposed, dropped,
    misjudged>>
workerOnly == <<held, current, result, requeues, losses>>
vars == <<log, faulty, rows, dead, applierOnly, workerOnly>>

Init ==
  /\ Applier!Init
  /\ held = [w \in Workers |-> <<>>]
  /\ current = [w \in Workers |-> 0]
  /\ result = [w \in Workers |-> "none"]
  /\ requeues = 0
  /\ losses = 0

ApplierStep == Applier!Next /\ UNCHANGED workerOnly

\* Heal is a step of the applier's environment already.
WorkerStep ==
  /\ \/ \E w \in Workers : Worker!Step(w) \/ Worker!ClaimLost(w) \/ Worker!CrashWorker(w)
     \/ \E ids \in SUBSET DOMAIN dead \ {{}} : Worker!Requeue(ids)
  /\ UNCHANGED applierOnly

Next == ApplierStep \/ WorkerStep

Spec == Init /\ [][Next]_vars

-----------------------------------------------------------------------------
(***************************************************************************)
(* Properties.                                                             *)
(***************************************************************************)

\* Every dead letter was replayed and nothing was let go of.
AllRepaired ==
  /\ \A i \in DOMAIN dead : dead[i].status = "resolved"
  /\ dropped = {}

\* Once the stream is drained and every dead letter resolved, the target shows
\* the last change to every row: "A dead letter replayed forty minutes late
\* cannot resurrect an old value" (README.md:287-288, docs/architecture.md:147).
ConvergedWhenRepaired ==
  Applier!Drained /\ AllRepaired =>
    \A k \in Keys :
      ChangesTo(log, k) # {} => Shows(rows[k], At(log, LastChange(log, k)))

\* With repair workers beside them the appliers still implement the versioned
\* table: a replay out of stream order is one more fenced write.
ImplementsVersionedTable == Applier!Table!Spec

\* A dead letter is resolved only when its record, or a newer change to the same
\* row, is on the target, whoever wrote it.
ResolvedMeansCovered == Worker!ResolvedMeansCovered
=============================================================================
