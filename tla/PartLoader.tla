----------------------------- MODULE PartLoader -----------------------------
(***************************************************************************)
(* The file strategy, load side: the snapshot-loader's passes.  A pass     *)
(* reads the manifest and starts a goroutine for every sealed part that    *)
(* part_state does not list; the goroutine verifies the part's local file, *)
(* imports its object into the staging table of the target table, merges   *)
(* the staging table and records the part.                                 *)
(*                                                                         *)
(* All parts of a table share one staging table.  On Postgres creating and *)
(* dropping it are part of the load's transaction: a second creator waits  *)
(* for the first transaction to end, and the merge's row locks make merge, *)
(* drop and commit one step for everyone else.  On MySQL CREATE and DROP   *)
(* commit implicitly and end the transaction, so every statement of the    *)
(* load takes effect by itself, and the staging table (LIKE the target)    *)
(* has the target's primary key.                                           *)
(***************************************************************************)
EXTENDS PartWriter

CONSTANTS
  Engines,      \* the engines a target may run on, of "postgres" and "mysql"
  Goroutines,   \* bound: goroutines that load parts at one time
  Concurrency,  \* extract.loader_concurrency
  MaxFaults(_), \* bound: statements that fail and loaders that die, per engine
  NoTable       \* the staging table does not exist

ASSUME EnginesAssumption == Engines \subseteq {"postgres", "mysql"}
ASSUME ConcurrencyAssumption == Concurrency \in Nat \ {0}

VARIABLES
  engine,     \* the target's engine
  pass,       \* the loader's loop: [on, todo, mine, sem]; mine are the goroutines it waits for
  load,       \* the goroutines: [phase, part, rows, whole, sem]
  staging,    \* the rows of the staging table, or NoTable
  partState,  \* the rows of part_state
  faults,     \* statements that failed and loaders that died so far
  tainted     \* history: keys merged from rows the part's digest does not vouch for

loaderVars == <<engine, pass, load, staging, partState, faults, tainted>>

IdlePass == [on |-> FALSE, todo |-> {}, mine |-> {}, sem |-> 0]

FreeSlot == [phase |-> "free", part |-> Part(0, 0, "writing", NoFile),
             rows |-> {}, whole |-> FALSE, sem |-> 0]

LoaderInit ==
  /\ engine \in Engines
  /\ pass = IdlePass
  /\ load = [g \in Goroutines |-> FreeSlot]
  /\ staging = NoTable
  /\ partState = {}
  /\ faults = 0
  /\ tainted = {}

Fault == faults < MaxFaults(engine) /\ faults' = faults + 1

-----------------------------------------------------------------------------
(***************************************************************************)
(* A pass.                                                                 *)
(***************************************************************************)

\* A manifest that does not validate is skipped until the next pass.  Each pass
\* makes its own semaphore, here named by the number of faults so far: only a
\* fault lets a pass begin beside goroutines of an earlier one.
BeginPass ==
  /\ ~pass.on
  /\ manifest.parts # <<>> /\ Validate(manifest)
  /\ pass' = [on |-> TRUE, todo |-> SealedParts(manifest), mine |-> {}, sem |-> faults]
  /\ UNCHANGED <<logVars, writerVars, engine, load, staging, partState, faults, tainted>>

\* The pass takes its parts in index order.
NextPart == CHOOSE p \in pass.todo : \A q \in pass.todo : p.index <= q.index

\* part_state is asked by index only.
PartLoaded(i) == \E e \in partState : e.index = i

SkipLoaded ==
  /\ pass.on /\ pass.todo # {}
  /\ PartLoaded(NextPart.index)
  /\ pass' = [pass EXCEPT !.todo = @ \ {NextPart}]
  /\ UNCHANGED <<logVars, writerVars, engine, load, staging, partState, faults, tainted>>

Spawn(g) ==
  /\ pass.on /\ pass.todo # {}
  /\ ~PartLoaded(NextPart.index)
  /\ load[g].phase = "free"
  /\ load' = [load EXCEPT ![g] = [FreeSlot EXCEPT !.phase = "queued", !.part = NextPart,
                                                  !.sem = pass.sem]]
  /\ pass' = [pass EXCEPT !.todo = @ \ {NextPart}, !.mine = @ \cup {g}]
  /\ UNCHANGED <<logVars, writerVars, engine, staging, partState, faults, tainted>>

\* PartLoaded's query fails: the pass returns and does not wait for the
\* goroutines it has started.
PassFails ==
  /\ pass.on /\ pass.todo # {}
  /\ Fault
  /\ pass' = IdlePass
  /\ UNCHANGED <<logVars, writerVars, engine, load, staging, partState, tainted>>

EndPass ==
  /\ pass.on /\ pass.todo = {}
  /\ pass.mine = {}
  /\ pass' = IdlePass
  /\ UNCHANGED <<logVars, writerVars, engine, load, staging, partState, faults, tainted>>

-----------------------------------------------------------------------------
(***************************************************************************)
(* loadPart.                                                               *)
(***************************************************************************)

\* The goroutines inside the semaphore of g's pass.
Running(g) ==
  {h \in Goroutines : load[h].sem = load[g].sem /\ load[h].phase \notin {"free", "queued"}}

Acquire(g) ==
  /\ load[g].phase = "queued"
  /\ Cardinality(Running(g)) < Concurrency
  /\ VerifyPart(load[g].part)
  /\ load' = [load EXCEPT ![g].phase = "verified"]
  /\ UNCHANGED <<logVars, writerVars, engine, pass, staging, partState, faults, tainted>>

InTransaction(g) == load[g].phase \in {"created", "imported"}

\* MUTANT: Postgres creators do not wait for each other.
CreateStagingUnlocked(g) ==
  /\ load[g].phase = "verified"
  /\ staging' = IF staging = NoTable THEN {} ELSE staging
  /\ load' = [load EXCEPT ![g].phase = "created"]
  /\ UNCHANGED <<logVars, writerVars, engine, pass, partState, faults, tainted>>

\* CREATE TABLE IF NOT EXISTS.
CreateStaging(g) ==
  /\ load[g].phase = "verified"
  /\ engine = "postgres" => \A h \in Goroutines : ~InTransaction(h)
  /\ staging' = IF staging = NoTable THEN {} ELSE staging
  /\ load' = [load EXCEPT ![g].phase = "created"]
  /\ UNCHANGED <<logVars, writerVars, engine, pass, partState, faults, tainted>>

KeysOf(rows) == {r.key : r \in rows}

\* A missing table or object fails the import, and on MySQL so does a key that
\* is staged already.
ImportFails(o) ==
  IF staging = NoTable \/ o = NoFile THEN TRUE
  ELSE engine = "mysql" /\ KeysOf(Range(o)) \cap KeysOf(staging) # {}

\* The rows are added to whatever is staged.
BulkImport(g) ==
  LET o == object[load[g].part.index] IN
  /\ load[g].phase = "created"
  /\ ~ImportFails(o)
  /\ staging' = staging \cup Range(o)
  /\ load' = [load EXCEPT ![g].phase = "imported", ![g].rows = Range(o)]
  /\ UNCHANGED <<logVars, writerVars, engine, pass, partState, faults, tainted>>

\* The target after the staged rows are merged under an extract LSN; of several
\* rows with one key the statement takes any one.
MergedOnto(rows, staged, lsn) ==
  [k \in Keys |->
     IF k \in KeysOf(staged)
       THEN MergeStaging(rows[k], lsn, (CHOOSE r \in staged : r.key = k).ver)
       ELSE rows[k]]

\* The merge statement of part p.  The rows its digest does not vouch for are
\* remembered.
MergePart(p) ==
  /\ staging # NoTable
  /\ target' = MergedOnto(target, staging, p.lsn)
  /\ tainted' = tainted \cup KeysOf(staging \ Range(p.sum))

\* Postgres: merge, DROP and COMMIT.
CommitLoad(g) ==
  /\ engine = "postgres"
  /\ load[g].phase = "imported"
  /\ MergePart(load[g].part)
  /\ staging' = NoTable
  /\ load' = [load EXCEPT ![g].phase = "committed", ![g].rows = {},
                          ![g].whole = Range(load[g].part.sum) \subseteq staging]
  /\ UNCHANGED <<seeded, log, pos, writerVars, engine, pass, partState, faults>>

\* MySQL: the merge, and then the DROP with the COMMIT that has nothing left
\* to commit.
MergeStaged(g) ==
  /\ engine = "mysql"
  /\ load[g].phase = "imported"
  /\ MergePart(load[g].part)
  /\ load' = [load EXCEPT ![g].phase = "merged", ![g].rows = {},
                          ![g].whole = Range(load[g].part.sum) \subseteq staging]
  /\ UNCHANGED <<seeded, log, pos, writerVars, engine, pass, staging, partState, faults>>

DropStaging(g) ==
  /\ load[g].phase = "merged"
  /\ staging' = NoTable
  /\ load' = [load EXCEPT ![g].phase = "committed"]
  /\ UNCHANGED <<logVars, writerVars, engine, pass, partState, faults, tainted>>

\* The goroutine returns.
Leave(g) ==
  /\ load' = [load EXCEPT ![g] = FreeSlot]
  /\ pass' = [pass EXCEPT !.mine = @ \ {g}]

\* part_state's key is the index: a second insert fails.
MarkPartLoaded(g) ==
  LET p == load[g].part IN
  /\ load[g].phase = "committed"
  /\ ~PartLoaded(p.index)
  /\ partState' = partState \cup {[index |-> p.index, sum |-> p.sum, whole |-> load[g].whole]}
  /\ Leave(g)
  /\ UNCHANGED <<logVars, writerVars, engine, staging, faults, tainted>>

\* What a Postgres ROLLBACK does to the staging table.
RolledBack(aborted) ==
  IF engine = "postgres" /\ \E g \in aborted : InTransaction(g) THEN NoTable ELSE staging

Release(g) ==
  /\ staging' = RolledBack({g})
  /\ Leave(g)
  /\ UNCHANGED <<logVars, writerVars, engine, partState, tainted>>

\* The steps of loadPart that cannot succeed: the digest does not match, there
\* is no object or no staging table, a key is staged twice, or the part is
\* recorded already.
Refused(g) ==
  LET p == load[g].part IN
  CASE load[g].phase = "queued"    -> ~VerifyPart(p)
    [] load[g].phase = "created"   -> ImportFails(object[p.index])
    [] load[g].phase = "imported"  -> staging = NoTable
    [] load[g].phase = "committed" -> PartLoaded(p.index)
    [] OTHER -> FALSE

LoadRefused(g) == Refused(g) /\ Release(g) /\ UNCHANGED faults

\* The connection is lost, before or after the statement took effect.
LoadFails(g) == load[g].phase # "free" /\ Fault /\ Release(g)

LoaderCrashes ==
  /\ pass.on \/ \E g \in Goroutines : load[g].phase # "free"
  /\ Fault
  /\ staging' = RolledBack(Goroutines)
  /\ load' = [g \in Goroutines |-> FreeSlot]
  /\ pass' = IdlePass
  /\ UNCHANGED <<logVars, writerVars, engine, partState, tainted>>

\* The applier, which runs all the while.
ApplyChange ==
  /\ pos < Len(log)
  /\ target' = Applied(target, log[pos + 1], pos + 1)
  /\ pos' = pos + 1
  /\ UNCHANGED <<seeded, log, writerVars, loaderVars>>

LoaderNext ==
  \/ BeginPass \/ SkipLoaded \/ PassFails \/ EndPass \/ LoaderCrashes \/ ApplyChange
  \/ \E g \in Goroutines :
       \/ Spawn(g) \/ Acquire(g) \/ CreateStaging(g) \/ BulkImport(g)
       \/ CommitLoad(g) \/ MergeStaged(g) \/ DropStaging(g)
       \/ MarkPartLoaded(g) \/ LoadRefused(g) \/ LoadFails(g)

=============================================================================
