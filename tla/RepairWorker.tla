---------------------------- MODULE RepairWorker ----------------------------
(***************************************************************************)
(* The repair-worker service and the dead-letter table it drains, with the *)
(* operator's requeue.  One action is one transaction against the target.  *)
(***************************************************************************)
EXTENDS ChangeStream, DeadLetters, SequencesExt

CONSTANTS
  Workers,      \* replicas of the service
  ClaimLimit,   \* entries claimed at once
  MaxRequeues,  \* bound on operator requeues
  MaxLosses     \* bound on claims that a crash or a lost reply orphans

ASSUME WorkerAssumption ==
  /\ ClaimLimit \in Nat \ {0}
  /\ MaxRequeues \in Nat
  /\ MaxLosses \in Nat

VARIABLES
  log,       \* the stream: the payload of an entry is the message at its position
  faulty,    \* the records the target refuses for the time being
  rows,      \* the target table
  dead,      \* the dead-letter table: a sequence of entries, id = index
  held,      \* per worker, the entries it has claimed and not yet recorded, each with
             \* the attempts it had when it was read
  current,   \* the entry each worker has replayed; 0 for none
  result,    \* what the replay of the current entry came to
  requeues,  \* requeues so far
  losses     \* orphaned claims so far

private == <<held, current, result>>
bounds == <<requeues, losses>>
vars == <<log, faulty, rows, dead, private, bounds>>

Results == {"none", "ok", "transient", "unknown", "permanent"}

\* The records the applier dead-letters.
Failing(l) ==
  {x \in Positions(l) :
     \/ At(l, x).kind = "undecodable"
     \/ x \in Faulty(l) /\ At(l, x).fault # "transient"}

FirstClass(l, x) ==
  IF At(l, x).kind = "undecodable" THEN "permanent" ELSE At(l, x).fault

\* The applier has read the whole stream and dead-lettered what failed.
Init ==
  /\ log \in Logs
  /\ faulty = Faulty(log)
  /\ rows = Write(log, [k \in Keys |-> NoRow],
                  {x \in Positions(log) \ Faulty(log) : IsRow(log, x)})
  /\ dead \in {[i \in DOMAIN s |-> NewEntry(s[i], FirstClass(log, s[i]))] :
                 s \in SetToSeqs(Failing(log))}
  /\ held = [w \in Workers |-> <<>>]
  /\ current = [w \in Workers |-> 0]
  /\ result = [w \in Workers |-> "none"]
  /\ requeues = 0
  /\ losses = 0

-----------------------------------------------------------------------------
(***************************************************************************)
(* The worker.                                                             *)
(***************************************************************************)

\* Pending entries, up to the limit.  Which of them are due is up to the clock.
Claimable ==
  {ids \in SUBSET {i \in DOMAIN dead : dead[i].status = "pending"} :
     ids # {} /\ Cardinality(ids) <= ClaimLimit}

\* MUTANT: the locks are taken and the status is not.
MarkClaimedNot(ids) == dead' = [i \in DOMAIN dead |-> dead[i]]

MarkClaimed(ids) ==
  dead' = [i \in DOMAIN dead |->
             IF i \in ids THEN [dead[i] EXCEPT !.status = "retrying"] ELSE dead[i]]

\* The locking SELECT and the UPDATE are one transaction.
Claim(w) ==
  /\ DOMAIN held[w] = {}
  /\ \E ids \in Claimable :
       /\ MarkClaimed(ids)
       /\ held' = [held EXCEPT ![w] = [i \in ids |-> dead[i].attempts]]
  /\ UNCHANGED <<log, faulty, rows, current, result, bounds>>

\* The COMMIT of a claim lands and its reply is lost: Claim returns an error
\* and no entries, and the loop goes on.
ClaimLost(w) ==
  /\ DOMAIN held[w] = {}
  /\ losses < MaxLosses
  /\ losses' = losses + 1
  /\ \E ids \in Claimable : MarkClaimed(ids)
  /\ UNCHANGED <<log, faulty, rows, private, requeues>>

\* rebuild finds a row change in the payload of the entry.
Rebuilds(x) == IsRow(log, x)

\* The classes of an error that is not about the record.
Outages == {"transient"} \cup Misjudged

\* Rebuild the event from its payload and apply it on its own, without offsets.
\* After an error that is not about it the write may have landed all the same.
Replay(w, id) ==
  LET x == dead[id].pos
      Outcome(r) == result' = [result EXCEPT ![w] = r]
  IN
  /\ id \in DOMAIN held[w]
  /\ current[w] = 0
  /\ current' = [current EXCEPT ![w] = id]
  /\ \/ ~Rebuilds(x) /\ Outcome("permanent") /\ UNCHANGED rows
     \/ Rebuilds(x) /\ x \in faulty /\ Outcome(At(log, x).fault) /\ UNCHANGED rows
     \/ /\ Rebuilds(x) /\ x \notin faulty
        /\ \E r \in {"ok"} \cup Outages : Outcome(r)
        /\ rows' = Write(log, rows, {x})
     \/ Rebuilds(x) /\ (\E r \in Outages : Outcome(r)) /\ UNCHANGED rows
  /\ UNCHANGED <<log, faulty, dead, held, bounds>>

\* MUTANT: a write whose outcome is unknown counts as done.
DecisionOptimistic(attempts, r) ==
  IF r \in {"ok", "transient"} THEN EvaluateSuccess(attempts) ELSE Evaluate(attempts, r)

\* The decision the worker writes back.
Decision(attempts, r) ==
  IF r = "ok" THEN EvaluateSuccess(attempts) ELSE Evaluate(attempts, r)

\* Resolve or Reschedule, by id.
Record(w) ==
  LET id == current[w]
      d == Decision(held[w][id], result[w])
  IN
  /\ id # 0
  /\ dead' = [dead EXCEPT ![id].status = d.status, ![id].attempts = d.attempts]
  /\ held' = [held EXCEPT ![w] = Restrict(@, DOMAIN @ \ {id})]
  /\ current' = [current EXCEPT ![w] = 0]
  /\ result' = [result EXCEPT ![w] = "none"]
  /\ UNCHANGED <<log, faulty, rows, bounds>>

\* The process dies, or leaves the loop because the decision could not be
\* written, and is started again.  Nothing releases what it had claimed.
CrashWorker(w) ==
  /\ DOMAIN held[w] # {}
  /\ losses < MaxLosses
  /\ losses' = losses + 1
  /\ held' = [held EXCEPT ![w] = <<>>]
  /\ current' = [current EXCEPT ![w] = 0]
  /\ result' = [result EXCEPT ![w] = "none"]
  /\ UNCHANGED <<log, faulty, rows, dead, requeues>>

-----------------------------------------------------------------------------
(***************************************************************************)
(* The operator and the environment.                                       *)
(***************************************************************************)

\* MUTANT: a requeue that does not look at the status.
RequeueAny(ids) ==
  /\ requeues < MaxRequeues
  /\ requeues' = requeues + 1
  /\ dead' = [i \in DOMAIN dead |->
                IF i \in ids THEN [dead[i] EXCEPT !.status = "pending", !.attempts = 0]
                             ELSE dead[i]]
  /\ UNCHANGED <<log, faulty, rows, private, losses>>

\* POST /v1/deadletters/requeue names ids; only quarantined entries move.
Requeue(ids) ==
  /\ requeues < MaxRequeues
  /\ requeues' = requeues + 1
  /\ dead' = [i \in DOMAIN dead |->
                IF i \in ids /\ dead[i].status = "quarantined"
                  THEN [dead[i] EXCEPT !.status = "pending", !.attempts = 0]
                  ELSE dead[i]]
  /\ UNCHANGED <<log, faulty, rows, private, losses>>

Heal(x) ==
  /\ faulty' = faulty \ {x}
  /\ UNCHANGED <<log, rows, dead, private, bounds>>

Step(w) ==
  \/ Claim(w)
  \/ \E id \in DOMAIN held[w] : Replay(w, id)
  \/ Record(w)

Next ==
  \/ \E w \in Workers : Step(w) \/ ClaimLost(w) \/ CrashWorker(w)
  \/ \E ids \in SUBSET DOMAIN dead \ {{}} : Requeue(ids)
  \/ \E x \in faulty : Heal(x)

Spec == Init /\ [][Next]_vars

\* A worker keeps polling, and a decision it has reached it writes.
FairSpec == Spec /\ \A w \in Workers : WF_vars(Step(w))

-----------------------------------------------------------------------------
(***************************************************************************)
(* Properties.                                                             *)
(***************************************************************************)

Entry == [pos : Positions(log), status : Statuses, attempts : Nat]

TypeOK ==
  /\ log \in Logs
  /\ faulty \subseteq Faulty(log)
  /\ rows \in [Keys -> Row(Vals) \cup {NoRow}]
  /\ dead \in Seq(Entry)
  /\ DOMAIN held = Workers
  /\ \A w \in Workers : /\ DOMAIN held[w] \subseteq DOMAIN dead
                        /\ held[w] \in [DOMAIN held[w] -> Nat]
  /\ current \in [Workers -> {0} \cup DOMAIN dead]
  /\ result \in [Workers -> Results]
  /\ requeues \in 0..MaxRequeues
  /\ losses \in 0..MaxLosses

\* No two workers ever work on the same entry, and an entry being worked on is
\* marked so and is as its worker read it, so the decision written back by id
\* rests on nothing stale: SKIP LOCKED and the claim update leave no gap that another claim,
\* a requeue or a late decision could slip into (store.go:117-170).
ExclusiveClaim ==
  \A w \in Workers : \A id \in DOMAIN held[w] :
    /\ dead[id].status = "retrying" /\ dead[id].attempts = held[w][id]
    /\ \A v \in Workers \ {w} : id \notin DOMAIN held[v]

\* An entry the worker reports as resolved is on the target, or something newer
\* is (EvaluateSuccess and Resolve only follow a committed write).
ResolvedMeansCovered ==
  \A i \in DOMAIN dead : dead[i].status = "resolved" => Covered(log, rows, dead[i].pos)

\* An entry waits for another retry only while it has budget left, however its
\* retries, requeues and outages interleave (Evaluate, policy.Exhausted).  The
\* first failure, in the applier, is not checked against the budget.
PendingHasBudget ==
  \A i \in DOMAIN dead :
    dead[i].status = "pending" => dead[i].attempts = 1 \/ ~Exhausted(DLQAttempts, dead[i].attempts)

\* An entry leaves quarantine only by a requeue that gives it its budget back,
\* is never taken back once resolved, and every replay counts as an attempt
\* (dlq/entry.go:34-49, Requeue's WHERE clause).
LifecycleRespected ==
  [][\A i \in DOMAIN dead :
       dead'[i] # dead[i] =>
         \/ dead[i].status = "pending" /\ dead'[i] = [dead[i] EXCEPT !.status = "retrying"]
         \/ /\ dead[i].status = "retrying"
            /\ dead'[i].status \in {"pending", "quarantined", "resolved"}
            /\ dead'[i].attempts = dead[i].attempts + 1
         \/ /\ dead[i].status = "quarantined"
            /\ dead'[i] = [dead[i] EXCEPT !.status = "pending", !.attempts = 0]]_dead

\* A claim nobody works on: the claimant is gone, or never learnt of it.
Orphaned(i) == dead[i].status = "retrying" /\ \A w \in Workers : i \notin DOMAIN held[w]

\* Every dead letter ends up resolved or in front of an operator: it is "retried
\* later without an operator having to reconstruct it by hand"
\* (dlq/entry.go:5-6).
EveryDeadLetterSettles ==
  <>[](\A i \in DOMAIN dead : dead[i].status \in {"resolved", "quarantined"})

\* The same, but for the claims that a crash or a lost reply orphans: outages,
\* requeues and competing workers never leave an entry waiting or being retried
\* for ever (Claim, Evaluate, Reschedule).
SettlesUnlessOrphaned ==
  <>[](\A i \in DOMAIN dead : dead[i].status \in {"resolved", "quarantined"} \/ Orphaned(i))

-----------------------------------------------------------------------------
(***************************************************************************)
(* The inductive invariant.                                                *)
(***************************************************************************)

\* A worker only has a result for an entry it holds, and "ok" means its write
\* was committed.
ResultInHand(w) ==
  current[w] # 0 =>
    /\ current[w] \in DOMAIN held[w]
    /\ result[w] # "none"
    /\ result[w] = "ok" => Covered(log, rows, dead[current[w]].pos)

IndInv ==
  /\ ExclusiveClaim
  /\ ResolvedMeansCovered
  /\ PendingHasBudget
  /\ \A w \in Workers : ResultInHand(w)
=============================================================================
