------------------------- MODULE RepairWorkerProofs -------------------------
(***************************************************************************)
(* Proofs about the repair-worker service, for any number of workers,      *)
(* claims, requeues and orphaned claims and every stream.                  *)
(***************************************************************************)
EXTENDS RepairWorker, StreamProofs

-----------------------------------------------------------------------------
(***************************************************************************)
(* Types.                                                                  *)
(***************************************************************************)

\* A table rewritten entry by entry is a table with the same ids.
LEMMA Rewritten ==
  ASSUME NEW S, NEW s \in Seq(S), NEW f \in [DOMAIN s -> S]
  PROVE  f \in Seq(S) /\ DOMAIN f = DOMAIN s
<1>1. DOMAIN s = 1..Len(s) /\ Len(s) \in Nat
  OBVIOUS
<1>. QED
  BY <1>1

\* The initial state is well formed.
LEMMA TypeInit == Init => TypeOK
<1>. SUFFICES ASSUME Init
              PROVE  TypeOK
  OBVIOUS
<1>1. log \in Logs /\ Failing(log) \subseteq Positions(log)
  BY DEF Init, Failing
<1>2. rows \in Tables
  <2>1. [k \in Keys |-> NoRow] \in Tables
    BY DEF Tables
  <2>2. {x \in Positions(log) \ Faulty(log) : IsRow(log, x)} \in SUBSET Positions(log)
    OBVIOUS
  <2>. QED
    BY <1>1, <2>1, <2>2, WriteCovers DEF Init
<1>3. dead \in Seq(Entry)
  <2>1. PICK s \in SetToSeqs(Failing(log)) :
          dead = [i \in DOMAIN s |-> NewEntry(s[i], FirstClass(log, s[i]))]
    BY DEF Init
  <2> DEFINE n == Cardinality(Failing(log))
  <2>2. n \in Nat
    BY <1>1, PositionsFinite
  <2>3. s \in [1..n -> Failing(log)]
    BY <2>1 DEF SetToSeqs
  <2>4. \A i \in 1..n : NewEntry(s[i], FirstClass(log, s[i])) \in Entry
    BY <1>1, <2>3 DEF NewEntry, Entry, Statuses
  <2>. HIDE DEF n
  <2>5. dead \in [1..n -> Entry]
    BY <2>1, <2>3, <2>4
  <2>. QED
    BY <2>2, <2>5
<1>4. /\ requeues \in 0..MaxRequeues /\ losses \in 0..MaxLosses
      /\ faulty \subseteq Faulty(log)
  BY WorkerAssumption DEF Init
<1>5. /\ DOMAIN held = Workers
      /\ \A w \in Workers : DOMAIN held[w] = {} /\ held[w] \in [DOMAIN held[w] -> Nat]
  BY DEF Init
<1>6. current \in [Workers -> {0} \cup DOMAIN dead] /\ result \in [Workers -> Results]
  BY DEF Init, Results
<1>. QED
  BY <1>1, <1>2, <1>3, <1>4, <1>5, <1>6 DEF TypeOK, Tables

\* Taking a claim touches the status of pending entries and nothing else.
LEMMA ClaimEffect ==
  ASSUME TypeOK, NEW ids \in Claimable, MarkClaimed(ids), log' = log
  PROVE  /\ dead' \in Seq(Entry) /\ DOMAIN dead' = DOMAIN dead
         /\ ids \subseteq DOMAIN dead
         /\ \A i \in ids : /\ dead[i].status = "pending"
                           /\ dead'[i] = [dead[i] EXCEPT !.status = "retrying"]
                           /\ dead'[i].status = "retrying"
                           /\ dead'[i].attempts = dead[i].attempts
         /\ \A i \in DOMAIN dead \ ids : dead'[i] = dead[i]
         /\ \A i \in DOMAIN dead : dead'[i].pos = dead[i].pos
<1>1. dead \in Seq(Entry) /\ \A i \in DOMAIN dead : dead[i] \in Entry
  BY DEF TypeOK
<1>2. /\ ids \subseteq DOMAIN dead
      /\ \A i \in ids : dead[i].status = "pending"
  BY DEF Claimable
<1>3. dead' = [i \in DOMAIN dead |->
                IF i \in ids THEN [dead[i] EXCEPT !.status = "retrying"] ELSE dead[i]]
  BY DEF MarkClaimed
<1>4. \A i \in DOMAIN dead : [dead[i] EXCEPT !.status = "retrying"] \in Entry
  BY <1>1 DEF Entry, Statuses
<1>5. dead' \in [DOMAIN dead -> Entry]
  BY <1>1, <1>3, <1>4
<1>6. dead' \in Seq(Entry) /\ DOMAIN dead' = DOMAIN dead
  BY <1>1, <1>5, Rewritten
<1>7. \A i \in DOMAIN dead : [dead[i] EXCEPT !.status = "retrying"].pos = dead[i].pos
                          /\ [dead[i] EXCEPT !.status = "retrying"].attempts = dead[i].attempts
                          /\ [dead[i] EXCEPT !.status = "retrying"].status = "retrying"
  BY <1>1 DEF Entry
<1>. QED
  BY <1>2, <1>3, <1>6, <1>7

\* A requeue moves quarantined entries back to pending with a fresh budget and
\* touches nothing else.
LEMMA RequeueEffect ==
  ASSUME TypeOK, NEW ids, Requeue(ids)
  PROVE  /\ dead' \in Seq(Entry) /\ DOMAIN dead' = DOMAIN dead
         /\ \A i \in DOMAIN dead :
              \/ dead'[i] = dead[i]
              \/ /\ dead[i].status = "quarantined"
                 /\ dead'[i] = [dead[i] EXCEPT !.status = "pending", !.attempts = 0]
                 /\ dead'[i].status = "pending" /\ dead'[i].attempts = 0
         /\ \A i \in DOMAIN dead : dead'[i].pos = dead[i].pos
<1>1. dead \in Seq(Entry) /\ \A i \in DOMAIN dead : dead[i] \in Entry
  BY DEF TypeOK
<1>2. dead' = [i \in DOMAIN dead |->
                IF i \in ids /\ dead[i].status = "quarantined"
                  THEN [dead[i] EXCEPT !.status = "pending", !.attempts = 0]
                  ELSE dead[i]]
  BY DEF Requeue
<1>3. \A i \in DOMAIN dead :
        LET e == [dead[i] EXCEPT !.status = "pending", !.attempts = 0] IN
        e \in Entry /\ e.pos = dead[i].pos /\ e.status = "pending" /\ e.attempts = 0
  BY <1>1 DEF Entry, Statuses
<1>4. dead' \in [DOMAIN dead -> Entry]
  BY <1>1, <1>2, <1>3
<1>5. dead' \in Seq(Entry) /\ DOMAIN dead' = DOMAIN dead
  BY <1>1, <1>4, Rewritten
<1>. QED
  BY <1>2, <1>3, <1>5

\* The decision counts the attempt, resolves only what was written, and leaves an
\* entry pending only with budget to spare (Evaluate, EvaluateSuccess).
LEMMA DecisionEffect ==
  ASSUME NEW n \in Nat, NEW r
  PROVE  LET d == Decision(n, r) IN
         /\ d.status \in {"resolved", "quarantined", "pending"}
         /\ d.attempts = n + 1
         /\ d.status = "resolved" => r = "ok"
         /\ d.status = "pending" => ~Exhausted(DLQAttempts, n + 1)
<1>1. CASE r = "ok"
  BY <1>1 DEF Decision, EvaluateSuccess
<1>2. CASE r # "ok"
  BY <1>2 DEF Decision, Evaluate
<1>. QED
  BY <1>1, <1>2

\* A worker writes its decision to the entry it holds, which nobody has touched
\* since it was read, and lets go of that entry.
LEMMA RecordEffect ==
  ASSUME TypeOK, IndInv, NEW w \in Workers, Record(w)
  PROVE  LET id == current[w] IN
         /\ id \in DOMAIN dead /\ id \in DOMAIN held[w]
         /\ dead' \in Seq(Entry) /\ DOMAIN dead' = DOMAIN dead
         /\ \A i \in DOMAIN dead \ {id} : dead'[i] = dead[i]
         /\ dead[id].status = "retrying" /\ dead'[id].pos = dead[id].pos
         /\ dead'[id].status \in {"resolved", "quarantined", "pending"}
         /\ dead'[id].attempts = dead[id].attempts + 1
         /\ dead'[id].status = "resolved" => Covered(log, rows, dead[id].pos)
         /\ dead'[id].status = "pending" => ~Exhausted(DLQAttempts, dead'[id].attempts)
         /\ DOMAIN held' = Workers
         /\ DOMAIN held'[w] = DOMAIN held[w] \ {id}
         /\ \A i \in DOMAIN held'[w] : held'[w][i] = held[w][i]
         /\ held'[w] \in [DOMAIN held'[w] -> Nat]
         /\ \A v \in Workers \ {w} : held'[v] = held[v]
<1> DEFINE id == current[w]
           d == Decision(held[w][id], result[w])
<1>1. /\ id # 0
      /\ dead' = [dead EXCEPT ![id].status = d.status, ![id].attempts = d.attempts]
      /\ held' = [held EXCEPT ![w] = Restrict(held[w], DOMAIN held[w] \ {id})]
      /\ log' = log
  BY DEF Record
<1>2. /\ id \in DOMAIN held[w] /\ id \in DOMAIN dead
      /\ result[w] = "ok" => Covered(log, rows, dead[id].pos)
  BY <1>1 DEF TypeOK, IndInv, ResultInHand
<1>3. /\ dead[id].status = "retrying" /\ dead[id].attempts = held[w][id]
      /\ held[w][id] \in Nat
  BY <1>2 DEF TypeOK, IndInv, ExclusiveClaim
<1>4. /\ d.status \in {"resolved", "quarantined", "pending"}
      /\ d.attempts = held[w][id] + 1
      /\ d.status = "resolved" => result[w] = "ok"
      /\ d.status = "pending" => ~Exhausted(DLQAttempts, held[w][id] + 1)
  BY <1>3, DecisionEffect
<1>5. dead \in Seq(Entry) /\ \A i \in DOMAIN dead : dead[i] \in Entry
  BY DEF TypeOK
<1>. HIDE DEF d
<1> DEFINE e == [dead[id] EXCEPT !.status = d.status, !.attempts = d.attempts]
<1>6. e \in Entry /\ e.pos = dead[id].pos /\ e.status = d.status /\ e.attempts = d.attempts
  <2>1. dead[id] \in Entry /\ d.status \in Statuses /\ d.attempts \in Nat
    BY <1>2, <1>3, <1>4, <1>5 DEF Statuses
  <2> DEFINE entry == dead[id]
             status == d.status
             attempts == d.attempts
  <2>2. e = [entry EXCEPT !.status = status, !.attempts = attempts]
    OBVIOUS
  <2>. HIDE DEF e
  <2>3. entry \in Entry /\ status \in Statuses /\ attempts \in Nat
    BY <2>1
  <2>. HIDE DEF entry, status, attempts
  <2>4. e \in Entry /\ e.pos = entry.pos /\ e.status = status /\ e.attempts = attempts
    BY <2>2, <2>3 DEF Entry
  <2>. QED
    BY <2>4 DEF entry, status, attempts
<1>7. /\ DOMAIN dead' = DOMAIN dead
      /\ dead'[id] = e
      /\ \A i \in DOMAIN dead \ {id} : dead'[i] = dead[i]
      /\ dead' = [i \in DOMAIN dead |-> dead'[i]]
  BY <1>1, <1>2, <1>5
<1>. HIDE DEF e
<1>8. dead' \in [DOMAIN dead -> Entry]
  BY <1>5, <1>6, <1>7
<1>9. dead' \in Seq(Entry)
  BY <1>5, <1>8, Rewritten
<1>10. /\ DOMAIN held' = Workers
       /\ held'[w] = Restrict(held[w], DOMAIN held[w] \ {id})
       /\ \A v \in Workers \ {w} : held'[v] = held[v]
  BY <1>1 DEF TypeOK
<1>11. /\ DOMAIN held'[w] = DOMAIN held[w] \ {id}
       /\ \A i \in DOMAIN held'[w] : held'[w][i] = held[w][i]
       /\ held'[w] \in [DOMAIN held'[w] -> Nat]
  BY <1>10 DEF Restrict, TypeOK
<1>. QED
  BY <1>2, <1>3, <1>4, <1>6, <1>7, <1>9, <1>10, <1>11

\* What no replay does: take a row of the target back.
RowsKept ==
  \A k \in Keys : rows[k] # NoRow => rows'[k] # NoRow /\ rows'[k].lsn >= rows[k].lsn

\* A replay takes no row back, and reports success only for a committed write.
LEMMA ReplayEffect ==
  ASSUME TypeOK, NEW w \in Workers, NEW id \in DOMAIN held[w], Replay(w, id)
  PROVE  /\ id \in DOMAIN dead /\ id # 0
         /\ rows' \in Tables /\ RowsKept
         /\ \E r \in Results \ {"none"} :
              /\ result' = [result EXCEPT ![w] = r]
              /\ r = "ok" => Covered(log, rows', dead[id].pos)
<1> DEFINE x == dead[id].pos
<1>1. id \in DOMAIN dead /\ dead \in Seq(Entry) /\ dead[id] \in Entry
  BY DEF TypeOK
<1>2. id # 0 /\ x \in Positions(log)
  BY <1>1 DEF Entry
<1>3. log \in Logs /\ rows \in Tables /\ faulty \subseteq Faulty(log)
  BY DEF TypeOK, Tables
<1>4. At(log, x).fault \in Faults
  BY <1>2, <1>3, PositionsTyped DEF Message
<1>5. /\ x \in faulty => At(log, x).fault \in Classes
      /\ Outages \subseteq Classes
  BY <1>3, <1>4, ClassesTyped DEF Faulty, Outages, Classes
<1>. HIDE DEF x
<1>6. \/ result' = [result EXCEPT ![w] = "permanent"] /\ rows' = rows
      \/ x \in faulty /\ result' = [result EXCEPT ![w] = At(log, x).fault] /\ rows' = rows
      \/ /\ \E r \in {"ok"} \cup Outages : result' = [result EXCEPT ![w] = r]
         /\ rows' = Write(log, rows, {x})
      \/ (\E r \in Outages : result' = [result EXCEPT ![w] = r]) /\ rows' = rows
  BY DEF Replay, x
<1>7. \A k \in Keys : rows[k] # NoRow => rows[k].lsn \in Nat
  BY <1>3 DEF Tables, Row
<1>8. CASE \E r \in Classes :
             result' = [result EXCEPT ![w] = r] /\ rows' = rows
  <2>1. RowsKept
    BY <1>7, <1>8 DEF RowsKept
  <2>. QED
    BY <1>1, <1>2, <1>3, <1>8, <2>1 DEF Results, Classes
<1>9. CASE \E r \in {"ok"} \cup Classes :
             result' = [result EXCEPT ![w] = r] /\ rows' = Write(log, rows, {x})
  <2>1. /\ Write(log, rows, {x}) \in Tables
        /\ \A k \in Keys : rows[k] # NoRow => /\ Write(log, rows, {x})[k] # NoRow
                                             /\ Write(log, rows, {x})[k].lsn >= rows[k].lsn
        /\ Covered(log, Write(log, rows, {x}), x)
    <3>1. {x} \in SUBSET Positions(log)
      BY <1>2 DEF x
    <3>. QED
      BY <1>3, <3>1, WriteCovers
  <2>2. rows' = Write(log, rows, {x})
    BY <1>9
  <2>3. rows' \in Tables /\ RowsKept /\ Covered(log, rows', x)
    BY <2>1, <2>2 DEF RowsKept
  <2>. QED
    BY <1>1, <1>2, <1>9, <2>3 DEF Results, Classes, x
<1>10. "permanent" \in Classes
  BY DEF Classes
<1>. QED
  BY <1>5, <1>6, <1>8, <1>9, <1>10

-----------------------------------------------------------------------------
(***************************************************************************)
(* Every step preserves the type and the invariant.                        *)
(***************************************************************************)

\* The initial state satisfies the invariant: nobody holds anything yet, and a
\* first entry is pending or quarantined.
LEMMA InvInit == Init => IndInv
<1>. SUFFICES ASSUME Init
              PROVE  IndInv
  OBVIOUS
<1>1. \A w \in Workers : DOMAIN held[w] = {} /\ current[w] = 0
  BY DEF Init
<1>2. \A i \in DOMAIN dead : dead[i].status \in {"pending", "quarantined"} /\ dead[i].attempts = 1
  <2>1. PICK s \in SetToSeqs(Failing(log)) :
          dead = [i \in DOMAIN s |-> NewEntry(s[i], FirstClass(log, s[i]))]
    BY DEF Init
  <2>. QED
    BY <2>1 DEF NewEntry
<1>. QED
  BY <1>1, <1>2 DEF IndInv, ExclusiveClaim, ResolvedMeansCovered, PendingHasBudget, ResultInHand

\* Every step leaves a well-formed state.
LEMMA TypeStep ==
  ASSUME TypeOK, IndInv, [Next]_vars
  PROVE  TypeOK'
<1>. USE DEF private, bounds
<1>1. ASSUME NEW w \in Workers, Claim(w)
      PROVE  TypeOK'
  <2>1. PICK ids \in Claimable :
          MarkClaimed(ids) /\ held' = [held EXCEPT ![w] = [i \in ids |-> dead[i].attempts]]
    BY <1>1 DEF Claim
  <2>2. UNCHANGED <<log, faulty, rows, current, result, requeues, losses>>
    BY <1>1 DEF Claim
  <2>3. dead' \in Seq(Entry) /\ DOMAIN dead' = DOMAIN dead /\ ids \subseteq DOMAIN dead
    BY <2>1, <2>2, ClaimEffect
  <2>4. \A i \in ids : dead[i].attempts \in Nat
    <3>1. \A i \in DOMAIN dead : dead[i] \in Entry
      BY DEF TypeOK
    <3>. QED
      BY <2>3, <3>1 DEF Entry
  <2>5. /\ DOMAIN held' = Workers
        /\ \A v \in Workers : /\ DOMAIN held'[v] \subseteq DOMAIN dead
                              /\ held'[v] \in [DOMAIN held'[v] -> Nat]
    BY <2>1, <2>3, <2>4 DEF TypeOK
  <2>. QED
    BY <2>2, <2>3, <2>5 DEF TypeOK, Entry
<1>2. ASSUME NEW w \in Workers, ClaimLost(w)
      PROVE  TypeOK'
  <2>1. PICK ids \in Claimable : MarkClaimed(ids)
    BY <1>2 DEF ClaimLost
  <2>2. UNCHANGED <<log, faulty, rows, held, current, result, requeues>>
    BY <1>2 DEF ClaimLost
  <2>3. dead' \in Seq(Entry) /\ DOMAIN dead' = DOMAIN dead
    BY <2>1, <2>2, ClaimEffect
  <2>4. losses' \in 0..MaxLosses
    BY <1>2, WorkerAssumption DEF ClaimLost, TypeOK
  <2>. QED
    BY <2>2, <2>3, <2>4 DEF TypeOK, Entry
<1>3. ASSUME NEW w \in Workers, NEW id \in DOMAIN held[w], Replay(w, id)
      PROVE  TypeOK'
  <2>1. UNCHANGED <<log, faulty, dead, held, requeues, losses>>
    BY <1>3 DEF Replay
  <2>2. id \in DOMAIN dead /\ rows' \in Tables
    BY <1>3, ReplayEffect
  <2>3. PICK r \in Results : result' = [result EXCEPT ![w] = r]
    BY <1>3, ReplayEffect
  <2>4. current' = [current EXCEPT ![w] = id]
    BY <1>3 DEF Replay
  <2>. QED
    BY <2>1, <2>2, <2>3, <2>4 DEF TypeOK, Entry, Tables
<1>4. ASSUME NEW w \in Workers, Record(w)
      PROVE  TypeOK'
  <2>1. UNCHANGED <<log, faulty, rows, requeues, losses>>
    BY <1>4 DEF Record
  <2>2. /\ current' = [current EXCEPT ![w] = 0]
        /\ result' = [result EXCEPT ![w] = "none"]
    BY <1>4 DEF Record
  <2>3. dead' \in Seq(Entry) /\ DOMAIN dead' = DOMAIN dead /\ DOMAIN held' = Workers
    BY <1>4, RecordEffect
  <2>4. \A v \in Workers : /\ DOMAIN held'[v] \subseteq DOMAIN dead
                           /\ held'[v] \in [DOMAIN held'[v] -> Nat]
    BY <1>4, RecordEffect DEF TypeOK
  <2>. QED
    BY <2>1, <2>2, <2>3, <2>4 DEF TypeOK, Entry, Results
<1>5. ASSUME NEW w \in Workers, CrashWorker(w)
      PROVE  TypeOK'
  <2>1. UNCHANGED <<log, faulty, rows, dead, requeues>>
    BY <1>5 DEF CrashWorker
  <2>2. /\ held' = [held EXCEPT ![w] = <<>>]
        /\ current' = [current EXCEPT ![w] = 0]
        /\ result' = [result EXCEPT ![w] = "none"]
    BY <1>5 DEF CrashWorker
  <2>3. losses' \in 0..MaxLosses
    BY <1>5, WorkerAssumption DEF CrashWorker, TypeOK
  <2>4. /\ DOMAIN held' = Workers
        /\ \A v \in Workers : /\ DOMAIN held'[v] \subseteq DOMAIN dead
                              /\ held'[v] \in [DOMAIN held'[v] -> Nat]
    BY <2>2 DEF TypeOK
  <2>. QED
    BY <2>1, <2>2, <2>3, <2>4 DEF TypeOK, Entry, Results
<1>6. ASSUME NEW ids, Requeue(ids)
      PROVE  TypeOK'
  <2>1. UNCHANGED <<log, faulty, rows, held, current, result, losses>>
    BY <1>6 DEF Requeue
  <2>2. dead' \in Seq(Entry) /\ DOMAIN dead' = DOMAIN dead
    BY <1>6, RequeueEffect
  <2>3. requeues' \in 0..MaxRequeues
    <3>1. requeues < MaxRequeues /\ requeues' = requeues + 1
      BY <1>6 DEF Requeue
    <3>. QED
      BY <3>1, WorkerAssumption DEF TypeOK
  <2>. QED
    BY <2>1, <2>2, <2>3 DEF TypeOK, Entry
<1>7. ASSUME NEW x \in faulty, Heal(x)
      PROVE  TypeOK'
  BY <1>7 DEF Heal, TypeOK, Entry
<1>8. CASE UNCHANGED vars
  BY <1>8 DEF vars, TypeOK, Entry
<1>. QED
  BY <1>1, <1>2, <1>3, <1>4, <1>5, <1>6, <1>7, <1>8 DEF Next, Step

\* A record on the target, or superseded there, stays so: the fence takes no row back.
LEMMA CoveredStays ==
  ASSUME TypeOK, rows' \in Tables, RowsKept, NEW x \in Positions(log), Covered(log, rows, x)
  PROVE  Covered(log, rows', x)
<1>1. At(log, x).key \in Keys /\ At(log, x).lsn \in Nat
  BY PositionsTyped, StreamAssumption DEF TypeOK, Message
<1>2. rows \in Tables
  BY DEF TypeOK, Tables
<1> DEFINE k == At(log, x).key
<1>3. /\ rows[k] # NoRow /\ rows[k].lsn >= At(log, x).lsn
      /\ rows'[k] # NoRow /\ rows'[k].lsn >= rows[k].lsn
  BY <1>1 DEF Covered, RowsKept
<1>4. rows[k].lsn \in Nat /\ rows'[k].lsn \in Nat
  BY <1>1, <1>2, <1>3 DEF Tables, Row
<1>. QED
  BY <1>1, <1>3, <1>4 DEF Covered

\* A claim keeps the invariant: it takes only pending entries, which nobody holds.
LEMMA InvClaim ==
  ASSUME TypeOK, IndInv, NEW w \in Workers, Claim(w)
  PROVE  IndInv'
<1>1. PICK ids \in Claimable :
        MarkClaimed(ids) /\ held' = [held EXCEPT ![w] = [i \in ids |-> dead[i].attempts]]
  BY DEF Claim
<1>2. UNCHANGED <<log, rows, current, result>> /\ DOMAIN held[w] = {}
  BY DEF Claim
<1>3. /\ DOMAIN dead' = DOMAIN dead /\ ids \subseteq DOMAIN dead
      /\ \A i \in ids : /\ dead[i].status = "pending" /\ dead'[i].status = "retrying"
                        /\ dead'[i].attempts = dead[i].attempts
      /\ \A i \in DOMAIN dead \ ids : dead'[i] = dead[i]
      /\ \A i \in DOMAIN dead : dead'[i].pos = dead[i].pos
  BY <1>1, <1>2, ClaimEffect
<1>4. /\ DOMAIN held'[w] = ids
      /\ \A i \in ids : held'[w][i] = dead[i].attempts
      /\ \A v \in Workers \ {w} : held'[v] = held[v]
  BY <1>1 DEF TypeOK
<1>5. \A v \in Workers : \A i \in DOMAIN held[v] :
        i \in DOMAIN dead /\ dead[i].status = "retrying" /\ dead[i].attempts = held[v][i] /\ i \notin ids
  BY <1>3 DEF TypeOK, IndInv, ExclusiveClaim
<1>6. ExclusiveClaim'
  <2>. SUFFICES ASSUME NEW v \in Workers, NEW id \in DOMAIN held'[v]
                PROVE  /\ dead'[id].status = "retrying" /\ dead'[id].attempts = held'[v][id]
                       /\ \A u \in Workers \ {v} : id \notin DOMAIN held'[u]
    BY DEF ExclusiveClaim
  <2>1. CASE v = w
    BY <1>3, <1>4, <1>5, <2>1
  <2>2. CASE v # w
    <3>1. held'[v] = held[v] /\ id \in DOMAIN held[v]
      BY <1>4, <2>2
    <3>2. \A u \in Workers \ {v} : id \notin DOMAIN held[u]
      BY <3>1 DEF IndInv, ExclusiveClaim
    <3>. QED
      BY <1>3, <1>4, <1>5, <3>1, <3>2
  <2>. QED
    BY <2>1, <2>2
<1>7. ResolvedMeansCovered'
  BY <1>2, <1>3 DEF IndInv, ResolvedMeansCovered
<1>8. PendingHasBudget'
  BY <1>3 DEF IndInv, PendingHasBudget
<1>9. ASSUME NEW v \in Workers
      PROVE  ResultInHand(v)'
  <2>1. current[w] = 0
    BY <1>2 DEF IndInv, ResultInHand
  <2>2. CASE v = w
    BY <1>2, <2>1, <2>2 DEF ResultInHand
  <2>3. CASE v # w
    BY <1>2, <1>3, <1>4, <1>5, <2>3 DEF IndInv, ResultInHand
  <2>. QED
    BY <2>2, <2>3
<1>. QED
  BY <1>6, <1>7, <1>8, <1>9 DEF IndInv

\* A claim whose reply is lost keeps the invariant: nobody holds its entries.
LEMMA InvClaimLost ==
  ASSUME TypeOK, IndInv, NEW w \in Workers, ClaimLost(w)
  PROVE  IndInv'
<1>1. PICK ids \in Claimable : MarkClaimed(ids)
  BY DEF ClaimLost
<1>2. UNCHANGED <<log, rows, held, current, result>>
  BY DEF ClaimLost, private
<1>3. /\ DOMAIN dead' = DOMAIN dead
      /\ \A i \in ids : dead[i].status = "pending" /\ dead'[i].status = "retrying"
      /\ \A i \in DOMAIN dead \ ids : dead'[i] = dead[i]
      /\ \A i \in DOMAIN dead : dead'[i].pos = dead[i].pos
  BY <1>1, <1>2, ClaimEffect
<1>4. \A v \in Workers : \A i \in DOMAIN held[v] :
        i \in DOMAIN dead /\ dead[i].status = "retrying" /\ dead'[i] = dead[i]
  BY <1>3 DEF TypeOK, IndInv, ExclusiveClaim
<1>5. ExclusiveClaim'
  BY <1>2, <1>4 DEF IndInv, ExclusiveClaim
<1>6. ResolvedMeansCovered' /\ PendingHasBudget'
  BY <1>2, <1>3 DEF IndInv, ResolvedMeansCovered, PendingHasBudget
<1>7. \A v \in Workers : ResultInHand(v)'
  BY <1>2, <1>4 DEF IndInv, ResultInHand
<1>. QED
  BY <1>5, <1>6, <1>7 DEF IndInv

\* A replay keeps the invariant: what was covered stays so, and a success is of a
\* write that the fence let through or found superseded.
LEMMA InvReplay ==
  ASSUME TypeOK, IndInv, NEW w \in Workers, NEW id \in DOMAIN held[w], Replay(w, id)
  PROVE  IndInv'
<1>1. UNCHANGED <<log, dead, held>> /\ current' = [current EXCEPT ![w] = id]
  BY DEF Replay
<1>2. rows' \in Tables /\ RowsKept
  BY ReplayEffect
<1>3. PICK r \in Results \ {"none"} :
        /\ result' = [result EXCEPT ![w] = r]
        /\ r = "ok" => Covered(log, rows', dead[id].pos)
  BY ReplayEffect
<1>4. \A i \in DOMAIN dead : Covered(log, rows, dead[i].pos) => Covered(log, rows', dead[i].pos)
  <2>1. \A i \in DOMAIN dead : dead[i] \in Entry
    BY DEF TypeOK
  <2>2. \A i \in DOMAIN dead : dead[i].pos \in Positions(log)
    BY <2>1 DEF Entry
  <2>. QED
    BY <1>2, <2>2, CoveredStays
<1>5. ExclusiveClaim' /\ PendingHasBudget'
  BY <1>1 DEF IndInv, ExclusiveClaim, PendingHasBudget
<1>6. ResolvedMeansCovered'
  BY <1>1, <1>4 DEF IndInv, ResolvedMeansCovered
<1>7. ASSUME NEW v \in Workers
      PROVE  ResultInHand(v)'
  <2>1. CASE v = w
    <3>1. current'[v] = id /\ result'[v] = r
      BY <1>1, <1>3, <2>1 DEF TypeOK
    <3>. QED
      BY <1>1, <1>3, <2>1, <3>1 DEF ResultInHand
  <2>2. CASE v # w
    <3>1. current'[v] = current[v] /\ result'[v] = result[v]
      BY <1>1, <1>3, <2>2 DEF TypeOK
    <3>2. current[v] # 0 => current[v] \in DOMAIN dead
      BY DEF TypeOK
    <3>. QED
      BY <1>1, <1>4, <3>1, <3>2 DEF IndInv, ResultInHand
  <2>. QED
    BY <2>1, <2>2
<1>. QED
  BY <1>5, <1>6, <1>7 DEF IndInv

\* Recording a decision keeps the invariant: the entry is the worker's alone, so no
\* other worker's view of the table changes.
LEMMA InvRecord ==
  ASSUME TypeOK, IndInv, NEW w \in Workers, Record(w)
  PROVE  IndInv'
<1> DEFINE id == current[w]
<1>1. /\ UNCHANGED <<log, rows>>
      /\ current' = [current EXCEPT ![w] = 0]
      /\ result' = [result EXCEPT ![w] = "none"]
  BY DEF Record
<1>2. /\ id \in DOMAIN dead /\ id \in DOMAIN held[w]
      /\ DOMAIN dead' = DOMAIN dead
      /\ \A i \in DOMAIN dead \ {id} : dead'[i] = dead[i]
      /\ dead'[id].pos = dead[id].pos
      /\ dead'[id].status = "resolved" => Covered(log, rows, dead[id].pos)
      /\ dead'[id].status = "pending" => ~Exhausted(DLQAttempts, dead'[id].attempts)
  BY RecordEffect
<1>3. /\ DOMAIN held'[w] = DOMAIN held[w] \ {id}
      /\ \A i \in DOMAIN held'[w] : held'[w][i] = held[w][i]
      /\ \A v \in Workers \ {w} : held'[v] = held[v]
  BY RecordEffect
<1>4. \A v \in Workers : \A i \in DOMAIN held'[v] :
        /\ i \in DOMAIN held[v] /\ i # id /\ held'[v][i] = held[v][i]
        /\ i \in DOMAIN dead /\ dead'[i] = dead[i]
  <2>. TAKE v \in Workers
  <2>. TAKE i \in DOMAIN held'[v]
  <2>1. i \in DOMAIN held[v] /\ held'[v][i] = held[v][i]
    BY <1>3
  <2>2. i # id
    BY <1>2, <1>3, <2>1 DEF IndInv, ExclusiveClaim
  <2>. QED
    BY <1>2, <2>1, <2>2 DEF TypeOK
<1>. HIDE DEF id
<1>5. ExclusiveClaim'
  BY <1>4 DEF IndInv, ExclusiveClaim
<1>6. ResolvedMeansCovered'
  BY <1>1, <1>2 DEF IndInv, ResolvedMeansCovered
<1>7. PendingHasBudget'
  BY <1>2 DEF IndInv, PendingHasBudget
<1>8. ASSUME NEW v \in Workers
      PROVE  ResultInHand(v)'
  <2>1. CASE v = w
    BY <1>1, <2>1 DEF ResultInHand, TypeOK
  <2>2. CASE v # w
    <3>1. current'[v] = current[v] /\ result'[v] = result[v] /\ held'[v] = held[v]
      BY <1>1, <1>3, <2>2 DEF TypeOK
    <3>. QED
      BY <1>1, <1>4, <3>1 DEF IndInv, ResultInHand
  <2>. QED
    BY <2>1, <2>2
<1>. QED
  BY <1>5, <1>6, <1>7, <1>8 DEF IndInv

\* A crash keeps the invariant: the worker holds nothing afterwards.
LEMMA InvCrash ==
  ASSUME TypeOK, IndInv, NEW w \in Workers, CrashWorker(w)
  PROVE  IndInv'
<1>1. /\ UNCHANGED <<log, rows, dead>>
      /\ held' = [held EXCEPT ![w] = <<>>]
      /\ current' = [current EXCEPT ![w] = 0]
      /\ result' = [result EXCEPT ![w] = "none"]
  BY DEF CrashWorker
<1>2. /\ DOMAIN held'[w] = {} /\ current'[w] = 0
      /\ \A v \in Workers \ {w} : /\ held'[v] = held[v] /\ current'[v] = current[v]
                                  /\ result'[v] = result[v]
  BY <1>1 DEF TypeOK
<1>3. ExclusiveClaim'
  BY <1>1, <1>2 DEF IndInv, ExclusiveClaim
<1>4. ResolvedMeansCovered' /\ PendingHasBudget'
  BY <1>1 DEF IndInv, ResolvedMeansCovered, PendingHasBudget
<1>5. \A v \in Workers : ResultInHand(v)'
  BY <1>1, <1>2 DEF IndInv, ResultInHand
<1>. QED
  BY <1>3, <1>4, <1>5 DEF IndInv

\* A requeue keeps the invariant: a held entry is being retried, so it is not
\* quarantined and is left alone.
LEMMA InvRequeue ==
  ASSUME TypeOK, IndInv, NEW ids, Requeue(ids)
  PROVE  IndInv'
<1>1. UNCHANGED <<log, rows, held, current, result>>
  BY DEF Requeue, private
<1>2. /\ DOMAIN dead' = DOMAIN dead
      /\ \A i \in DOMAIN dead :
           \/ dead'[i] = dead[i]
           \/ /\ dead[i].status = "quarantined"
              /\ dead'[i].status = "pending" /\ dead'[i].attempts = 0
  BY RequeueEffect
<1>3. \A v \in Workers : \A i \in DOMAIN held[v] : i \in DOMAIN dead /\ dead'[i] = dead[i]
  BY <1>2 DEF TypeOK, IndInv, ExclusiveClaim
<1>4. ExclusiveClaim'
  BY <1>1, <1>3 DEF IndInv, ExclusiveClaim
<1>5. ResolvedMeansCovered'
  BY <1>1, <1>2 DEF IndInv, ResolvedMeansCovered
<1>6. PendingHasBudget'
  <2>1. ~Exhausted(DLQAttempts, 0)
    BY DLQAssumption DEF Exhausted
  <2>. QED
    BY <1>2, <2>1 DEF IndInv, PendingHasBudget
<1>7. \A v \in Workers : ResultInHand(v)'
  BY <1>1, <1>3 DEF IndInv, ResultInHand
<1>. QED
  BY <1>4, <1>5, <1>6, <1>7 DEF IndInv

\* Every step preserves the invariant.
LEMMA InvStep ==
  ASSUME TypeOK, IndInv, [Next]_vars
  PROVE  IndInv'
<1>1. ASSUME NEW x \in faulty, Heal(x)
      PROVE  IndInv'
  BY <1>1 DEF Heal, private, IndInv, ExclusiveClaim, ResolvedMeansCovered, PendingHasBudget,
              ResultInHand
<1>2. CASE UNCHANGED vars
  BY <1>2 DEF vars, private, IndInv, ExclusiveClaim, ResolvedMeansCovered, PendingHasBudget,
              ResultInHand
<1>. QED
  BY <1>1, <1>2, InvClaim, InvClaimLost, InvReplay, InvRecord, InvCrash, InvRequeue
  DEF Next, Step

\* The type and the invariant hold in every reachable state.
THEOREM Inductive == Spec => [](TypeOK /\ IndInv)
<1>1. Init => TypeOK /\ IndInv
  BY TypeInit, InvInit
<1>2. TypeOK /\ IndInv /\ [Next]_vars => TypeOK' /\ IndInv'
  BY TypeStep, InvStep
<1>. QED
  BY <1>1, <1>2, PTL DEF Spec

-----------------------------------------------------------------------------
(***************************************************************************)
(* Correctness of the repair worker.                                       *)
(***************************************************************************)

\* The dead-letter table and the memory of every worker stay well formed: no worker
\* holds or replays an id the table does not have, and no entry loses its record.
THEOREM TypeCorrect == Spec => []TypeOK
BY Inductive, PTL

\* No two workers ever work on the same entry, and the decision a worker writes back
\* by id rests on nothing stale: the locking claim, the requeue's status test and the
\* exclusive hold together leave no gap, for any number of workers and entries
\* (Store.Claim, Requeue, Resolve, Reschedule).
THEOREM ClaimsExclusive == Spec => []ExclusiveClaim
<1>1. IndInv => ExclusiveClaim
  BY DEF IndInv
<1>. QED
  BY <1>1, Inductive, PTL

\* An entry reported as resolved is on the target or superseded there, whatever
\* outages, duplicate replays and newer changes come between (EvaluateSuccess).
THEOREM ResolvedIsCovered == Spec => []ResolvedMeansCovered
<1>1. IndInv => ResolvedMeansCovered
  BY DEF IndInv
<1>. QED
  BY <1>1, Inductive, PTL

\* No entry waits for a retry its budget does not allow (Evaluate, Exhausted).
THEOREM BudgetHolds == Spec => []PendingHasBudget
<1>1. IndInv => PendingHasBudget
  BY DEF IndInv
<1>. QED
  BY <1>1, Inductive, PTL

\* Entries only move along the life cycle: quarantine is left by a requeue alone,
\* nothing leaves resolved, and every replay counts (dlq/entry.go:34-49).
THEOREM LifecycleHolds == Spec => LifecycleRespected
<1> DEFINE Moves ==
      \A i \in DOMAIN dead :
        dead'[i] # dead[i] =>
          \/ dead[i].status = "pending" /\ dead'[i] = [dead[i] EXCEPT !.status = "retrying"]
          \/ /\ dead[i].status = "retrying"
             /\ dead'[i].status \in {"pending", "quarantined", "resolved"}
             /\ dead'[i].attempts = dead[i].attempts + 1
          \/ /\ dead[i].status = "quarantined"
             /\ dead'[i] = [dead[i] EXCEPT !.status = "pending", !.attempts = 0]
<1>1. TypeOK /\ IndInv /\ [Next]_vars => [Moves]_dead
  <2>. SUFFICES ASSUME TypeOK, IndInv, [Next]_vars, dead' # dead
                PROVE  Moves
    OBVIOUS
  <2>1. ASSUME NEW ids \in Claimable, MarkClaimed(ids), log' = log
        PROVE  Moves
    BY <2>1, ClaimEffect, Zenon
  <2>2. ASSUME NEW w \in Workers, Claim(w) \/ ClaimLost(w)
        PROVE  Moves
    BY <2>1, <2>2 DEF Claim, ClaimLost
  <2>3. ASSUME NEW w \in Workers, Record(w)
        PROVE  Moves
    BY <2>3, RecordEffect
  <2>4. ASSUME NEW ids, Requeue(ids)
        PROVE  Moves
    BY <2>4, RequeueEffect, Zenon
  <2>5. ASSUME NEW w \in Workers, NEW id \in DOMAIN held[w], Replay(w, id)
        PROVE  FALSE
    BY <2>5 DEF Replay
  <2>6. ASSUME NEW w \in Workers, CrashWorker(w)
        PROVE  FALSE
    BY <2>6 DEF CrashWorker
  <2>7. ASSUME NEW x \in faulty, Heal(x)
        PROVE  FALSE
    BY <2>7 DEF Heal
  <2>8. ~UNCHANGED vars
    BY DEF vars
  <2>. HIDE DEF Moves
  <2>. QED
    BY <2>2, <2>3, <2>4, <2>5, <2>6, <2>7, <2>8 DEF Next, Step
<1>. QED
  BY <1>1, Inductive, PTL DEF Spec, LifecycleRespected

-----------------------------------------------------------------------------
(***************************************************************************)
(* The workers beside other writers of the target: what their invariant    *)
(* relies on, and what a step of theirs guarantees.                        *)
(***************************************************************************)

\* The invariant of the workers survives whoever takes no row back, keeps every entry
\* as it is and adds only first entries.
LEMMA RelyKeeps ==
  ASSUME TypeOK, IndInv, log' = log, faulty' \subseteq faulty, rows' \in Tables, RowsKept,
         dead' \in Seq(Entry),
         \A i \in DOMAIN dead : i \in DOMAIN dead' /\ dead'[i] = dead[i],
         \A i \in DOMAIN dead' \ DOMAIN dead :
           dead'[i].status \in {"pending", "quarantined"} /\ dead'[i].attempts = 1,
         UNCHANGED <<held, current, result, requeues, losses>>
  PROVE  TypeOK' /\ IndInv'
<1>1. TypeOK'
  <2>1. /\ log \in Logs /\ faulty \subseteq Faulty(log) /\ DOMAIN held = Workers
        /\ \A w \in Workers : /\ DOMAIN held[w] \subseteq DOMAIN dead
                              /\ held[w] \in [DOMAIN held[w] -> Nat]
        /\ current \in [Workers -> {0} \cup DOMAIN dead]
        /\ result \in [Workers -> Results]
        /\ requeues \in 0..MaxRequeues /\ losses \in 0..MaxLosses
    BY DEF TypeOK
  <2>2. DOMAIN dead \subseteq DOMAIN dead'
    OBVIOUS
  <2>3. current' \in [Workers -> {0} \cup DOMAIN dead']
    BY <2>1, <2>2
  <2>4. dead' \in Seq(Entry')
    BY DEF Entry
  <2>. QED
    BY <2>1, <2>2, <2>3, <2>4 DEF TypeOK, Tables
<1>2. \A i \in DOMAIN dead : dead[i].pos \in Positions(log)
  <2>1. \A i \in DOMAIN dead : dead[i] \in Entry
    BY DEF TypeOK
  <2>. QED
    BY <2>1 DEF Entry
<1>3. \A i \in DOMAIN dead : Covered(log, rows, dead[i].pos) => Covered(log, rows', dead[i].pos)
  BY <1>2, CoveredStays
<1>4. ExclusiveClaim'
  BY DEF IndInv, ExclusiveClaim, TypeOK
<1>5. ResolvedMeansCovered'
  BY <1>3 DEF IndInv, ResolvedMeansCovered
<1>6. PendingHasBudget'
  BY DEF IndInv, PendingHasBudget
<1>7. ASSUME NEW w \in Workers
      PROVE  ResultInHand(w)'
  <2>1. ResultInHand(w) /\ DOMAIN held[w] \subseteq DOMAIN dead
    BY DEF IndInv, TypeOK
  <2>. QED
    BY <1>3, <2>1 DEF ResultInHand
<1>. QED
  BY <1>1, <1>4, <1>5, <1>6, <1>7 DEF IndInv

\* A step of the workers leaves the stream alone, keeps every entry and its record,
\* and at most writes row changes through the fence.
LEMMA Guarantee ==
  ASSUME TypeOK, IndInv, [Next]_vars
  PROVE  /\ log' = log /\ faulty' \subseteq faulty
         /\ DOMAIN dead' = DOMAIN dead /\ \A i \in DOMAIN dead : dead'[i].pos = dead[i].pos
         /\ \/ rows' = rows
            \/ \E S \in SUBSET Positions(log) :
                 rows' = Write(log, rows, S) /\ \A x \in S : IsRow(log, x)
<1> DEFINE Same == DOMAIN dead' = DOMAIN dead /\ \A i \in DOMAIN dead : dead'[i].pos = dead[i].pos
           Untouched == log' = log /\ faulty' \subseteq faulty /\ rows' = rows
<1>1. ASSUME dead' = dead
      PROVE  Same
  BY <1>1
<1>2. ASSUME NEW w \in Workers, Claim(w) \/ ClaimLost(w)
      PROVE  Untouched /\ Same
  <2>1. Untouched /\ \E ids \in Claimable : MarkClaimed(ids)
    BY <1>2 DEF Claim, ClaimLost
  <2>. QED
    BY <2>1, ClaimEffect
<1>3. ASSUME NEW w \in Workers, Record(w)
      PROVE  Untouched /\ Same
  <2>1. Untouched
    BY <1>3 DEF Record
  <2>. QED
    BY <1>3, <2>1, RecordEffect
<1>4. ASSUME NEW ids, Requeue(ids)
      PROVE  Untouched /\ Same
  <2>1. Untouched
    BY <1>4 DEF Requeue
  <2>. QED
    BY <1>4, <2>1, RequeueEffect
<1>5. ASSUME NEW w \in Workers, CrashWorker(w)
      PROVE  Untouched /\ Same
  BY <1>1, <1>5 DEF CrashWorker
<1>6. ASSUME NEW x \in faulty, Heal(x)
      PROVE  Untouched /\ Same
  BY <1>1, <1>6 DEF Heal
<1>7. CASE UNCHANGED vars
  BY <1>1, <1>7 DEF vars
<1>8. ASSUME NEW w \in Workers, NEW id \in DOMAIN held[w], Replay(w, id)
      PROVE  /\ log' = log /\ faulty' \subseteq faulty /\ dead' = dead
             /\ \/ rows' = rows
                \/ \E S \in SUBSET Positions(log) :
                     rows' = Write(log, rows, S) /\ \A x \in S : IsRow(log, x)
  <2>1. dead[id].pos \in Positions(log)
    <3>1. dead[id] \in Entry
      BY DEF TypeOK
    <3>. QED
      BY <3>1 DEF Entry
  <2>2. /\ log' = log /\ faulty' = faulty /\ dead' = dead
        /\ rows' = rows \/ (IsRow(log, dead[id].pos) /\ rows' = Write(log, rows, {dead[id].pos}))
    BY <1>8 DEF Replay, Rebuilds
  <2>. QED
    BY <2>1, <2>2
<1>. QED
  BY <1>1, <1>2, <1>3, <1>4, <1>5, <1>6, <1>7, <1>8 DEF Next, Step
=============================================================================
