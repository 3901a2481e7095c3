-------------------------- MODULE CdcApplierProofs --------------------------
(***************************************************************************)
(* Proofs about the cdc-applier service, for any number of replicas,       *)
(* partitions, crashes and retries and every stream.                       *)
(***************************************************************************)
EXTENDS CdcApplier, StreamProofs

-----------------------------------------------------------------------------
(***************************************************************************)
(* Types.                                                                  *)
(***************************************************************************)

\* What the dead-letter table may hold.
Entries == [pos : Positions(log), status : Statuses, attempts : Nat]

\* The first entry for a record of the stream is an entry (dlq.NewEntry).
LEMMA NewEntryTyped ==
  ASSUME NEW x \in Positions(log), NEW class
  PROVE  NewEntry(x, class) \in Entries
BY DEF NewEntry, Entries, Statuses

\* The transaction in doubt leaves a typed target.
LEMMA InDoubtTyped ==
  ASSUME TypeOK, NEW a \in Appliers, InDoubt(a)
  PROVE  rows' \in Tables /\ offsets' \in [Partitions -> Nat]
<1>1. /\ log \in Logs /\ rows \in Tables /\ offsets \in [Partitions -> Nat]
      /\ events[a] \in SUBSET Positions(log)
      /\ todo[a] \in Seq(SUBSET Positions(log))
  BY DEF TypeOK, Tables
<1>2. todo[a] # <<>> => Head(todo[a]) \in SUBSET Positions(log)
  BY <1>1
<1>3. UpsertOffset(offsets, HighWaterMarks(events[a])) \in [Partitions -> Nat]
  BY <1>1, OffsetsAdvance
<1>4. Write(log, rows, events[a]) \in Tables
  BY <1>1, WriteCovers
<1>5. todo[a] # <<>> => Write(log, rows, Head(todo[a])) \in Tables
  BY <1>1, <1>2, WriteCovers
<1>. QED
  BY <1>1, <1>3, <1>4, <1>5 DEF InDoubt

\* What retryx.Do makes of an error: it gives the batch up, or tries it again.
LEMMA AttemptEnds ==
  ASSUME NEW a \in Appliers, TransientError(a) \/ MisjudgedCommit(a)
  PROVE  /\ UNCHANGED <<log, faulty, dead, next, batch, crashes, misjudged>>
         /\ pc[a] \in {"apply", "isolate"} /\ InDoubt(a)
         /\ todo' = [todo EXCEPT ![a] = <<>>] /\ failed' = [failed EXCEPT ![a] = {}]
         /\ \/ /\ attempts' = [attempts EXCEPT ![a] = 0]
               /\ pc' = [pc EXCEPT ![a] = "poll"]
               /\ events' = [events EXCEPT ![a] = {}]
               /\ exposed' = [exposed EXCEPT ![a] = {}]
               /\ dropped' = dropped \cup events[a]
            \/ /\ attempts' = [attempts EXCEPT ![a] = attempts[a] + 1]
               /\ pc' = [pc EXCEPT ![a] = "apply"]
               /\ exposed' = [exposed EXCEPT ![a] = Exposing(a)]
               /\ UNCHANGED <<events, dropped>>
<1> DEFINE GaveUp == /\ attempts' = [attempts EXCEPT ![a] = 0]
                     /\ pc' = [pc EXCEPT ![a] = "poll"]
                     /\ events' = [events EXCEPT ![a] = {}]
                     /\ exposed' = [exposed EXCEPT ![a] = {}]
                     /\ dropped' = dropped \cup events[a]
           Again == /\ attempts' = [attempts EXCEPT ![a] = attempts[a] + 1]
                    /\ pc' = [pc EXCEPT ![a] = "apply"]
                    /\ exposed' = [exposed EXCEPT ![a] = Exposing(a)]
                    /\ UNCHANGED <<events, dropped>>
<1>1. CASE TransientError(a)
  <2>1. GaveUp \/ Again
    BY <1>1, Zenon DEF TransientError, EndAttempt
  <2>. QED
    BY <1>1, <2>1 DEF TransientError, EndAttempt
<1>2. CASE MisjudgedCommit(a)
  <2>1. GaveUp \/ Again
    BY <1>2, Zenon DEF MisjudgedCommit, EndAttempt
  <2>. QED
    BY <1>2, <2>1 DEF MisjudgedCommit, EndAttempt
<1>. QED
  BY <1>1, <1>2

\* The initial state is well formed.
LEMMA TypeInit == Init => TypeOK
BY ApplierAssumption DEF Init, TypeOK, Locations

\* Every step leaves a well-formed state.  That an applier about to dead-letter
\* holds a failed record is part of the invariant, not of its type.
LEMMA TypeStep ==
  ASSUME TypeOK, \A a \in Appliers : Holdings(a), [Next]_vars
  PROVE  TypeOK'
<1>. USE DEF TypeOK, Locations, Tables
<1>1. ASSUME NEW a \in Appliers, Start(a)
      PROVE  TypeOK'
  BY <1>1 DEF Start, target, history
<1>2. ASSUME NEW a \in Appliers, Poll(a)
      PROVE  TypeOK'
  <2>1. PICK upto \in [Partitions -> UNION {1..(Len(log[p]) + 1) : p \in Partitions}] :
          LET polled == {x \in Positions(log) : next[a][x[1]] <= x[2] /\ x[2] < upto[x[1]]} IN
          /\ next' = [next EXCEPT ![a] = upto]
          /\ batch' = [batch EXCEPT ![a] = polled]
    BY <1>2 DEF Poll
  <2>2. upto \in [Partitions -> Nat \ {0}]
    <3>1. \A p \in Partitions : Len(log[p]) \in Nat
      BY StreamAssumption
    <3>2. \A p \in Partitions : \A n \in 1..(Len(log[p]) + 1) : n \in Nat \ {0}
      BY <3>1
    <3>3. \A n \in UNION {1..(Len(log[p]) + 1) : p \in Partitions} : n \in Nat \ {0}
      BY <3>2
    <3>. QED
      BY <3>3
  <2>. QED
    BY <1>2, <2>1, <2>2 DEF Poll, target, history
<1>3. ASSUME NEW a \in Appliers, DecodeFailure(a)
      PROVE  TypeOK'
  <2> DEFINE x == First(Undecodable(batch[a]))
  <2>0. Undecodable(batch[a]) \in SUBSET Positions(log) /\ Undecodable(batch[a]) # {}
    BY <1>3 DEF DecodeFailure, Undecodable
  <2>1. x \in Positions(log)
    BY <2>0, FirstIn
  <2>2. dead' \in Seq(Entries)
    BY <1>3, <2>1, NewEntryTyped DEF DecodeFailure, Entries
  <2>. QED
    BY <1>3, <2>2 DEF DecodeFailure, Entries, history
<1>4. ASSUME NEW a \in Appliers, Decoded(a)
      PROVE  TypeOK'
  BY <1>4 DEF Decoded, target, history
<1>5. ASSUME NEW a \in Appliers, Apply(a)
      PROVE  TypeOK'
  <2>1. rows' \in Tables /\ offsets' \in [Partitions -> Nat]
    BY <1>5, WriteCovers, OffsetsAdvance DEF Apply
  <2>. QED
    BY <1>5, <2>1 DEF Apply
<1>6. ASSUME NEW a \in Appliers, ApplyRejected(a)
      PROVE  TypeOK'
  BY <1>6 DEF ApplyRejected, target, history
<1>7. ASSUME NEW a \in Appliers, todo[a] # <<>>, Divide(a) \/ todo' = [todo EXCEPT ![a] = Tail(todo[a])]
      PROVE  todo' \in [Appliers -> Seq(SUBSET Positions(log))]
  <2> DEFINE S == Head(todo[a])
  <2>1. S \in SUBSET Positions(log) /\ Tail(todo[a]) \in Seq(SUBSET Positions(log))
    BY <1>7
  <2>2. LowerHalf(S) \in SUBSET Positions(log) /\ UpperHalf(S) \in SUBSET Positions(log)
    BY <2>1 DEF LowerHalf, UpperHalf
  <2>3. <<LowerHalf(S), UpperHalf(S)>> \o Tail(todo[a]) \in Seq(SUBSET Positions(log))
    BY <2>1, <2>2
  <2>. HIDE DEF S
  <2>. QED
    BY <1>7, <2>1, <2>3 DEF Divide, S
<1>14. ASSUME NEW a \in Appliers, todo[a] # <<>>, Divide(a)
       PROVE  failed' \in [Appliers -> SUBSET Positions(log)]
  <2>1. Head(todo[a]) \in SUBSET Positions(log)
    BY <1>14
  <2>2. failed' = failed \/ failed' = [failed EXCEPT ![a] = failed[a] \cup Head(todo[a])]
    BY <1>14, Zenon DEF Divide
  <2>3. failed \in [Appliers -> SUBSET Positions(log)]
        /\ failed[a] \cup Head(todo[a]) \in SUBSET Positions(log)
    BY <2>1
  <2>. QED
    BY <2>2, <2>3
<1>15. ASSUME NEW a \in Appliers, Isolate(a)
       PROVE  TypeOK'
  <2>1. Head(todo[a]) \in SUBSET Positions(log) /\ todo[a] # <<>>
    BY <1>15 DEF Isolate
  <2>2. Write(log, rows, Head(todo[a])) \in Tables
    BY <2>1, WriteCovers
  <2>3. rows' \in Tables
    BY <1>15, <2>2 DEF Isolate
  <2>4. todo' \in [Appliers -> Seq(SUBSET Positions(log))] /\ failed' \in [Appliers -> SUBSET Positions(log)]
    BY <1>7, <1>14, <1>15, <2>1 DEF Isolate
  <2>. QED
    BY <1>15, <2>3, <2>4 DEF Isolate, history
<1>16. ASSUME NEW a \in Appliers, MisjudgedError(a)
       PROVE  TypeOK'
  <2>1. rows' \in Tables /\ offsets' \in [Partitions -> Nat]
    BY <1>16, InDoubtTyped DEF MisjudgedError
  <2>2. UNCHANGED <<log, faulty, dead, next, batch, events, attempts, crashes, exposed, dropped>>
    BY <1>16 DEF MisjudgedError
  <2>3. CASE pc[a] = "apply"
    <3>1. /\ pc' = [pc EXCEPT ![a] = "isolate"] /\ misjudged' = misjudged
          /\ todo' = [todo EXCEPT ![a] = <<events[a]>>]
          /\ failed' = [failed EXCEPT ![a] = {}]
      BY <1>16, <2>3 DEF MisjudgedError
    <3>2. <<events[a]>> \in Seq(SUBSET Positions(log))
      OBVIOUS
    <3>3. /\ pc' \in [Appliers -> Locations]
          /\ todo' \in [Appliers -> Seq(SUBSET Positions(log))]
          /\ failed' \in [Appliers -> SUBSET Positions(log)]
      BY <3>1, <3>2
    <3>. QED
      BY <2>1, <2>2, <3>1, <3>3
  <2>4. CASE pc[a] = "isolate"
    <3>1. /\ todo[a] # <<>> /\ Divide(a) /\ pc' = pc
          /\ misjudged' = misjudged \cup (failed'[a] \ failed[a])
      BY <1>16, <2>4 DEF MisjudgedError
    <3>2. todo' \in [Appliers -> Seq(SUBSET Positions(log))] /\ failed' \in [Appliers -> SUBSET Positions(log)]
      BY <1>7, <1>14, <3>1
    <3>3. misjudged' \subseteq Positions(log)
      BY <3>1, <3>2
    <3>. QED
      BY <2>1, <2>2, <3>1, <3>2, <3>3
  <2>. QED
    BY <1>16, <2>3, <2>4 DEF MisjudgedError
<1>8. ASSUME NEW a \in Appliers, CommitPositionsOnly(a)
      PROVE  TypeOK'
  <2>1. offsets' \in [Partitions -> Nat]
    BY <1>8, OffsetsAdvance DEF CommitPositionsOnly
  <2>. QED
    BY <1>8, <2>1 DEF CommitPositionsOnly
<1>9. ASSUME NEW a \in Appliers, PutDeadLetters(a)
      PROVE  TypeOK'
  <2> DEFINE x == First(failed[a])
  <2>1. x \in Positions(log)
    BY <1>9, FirstIn DEF PutDeadLetters, Holdings
  <2>2. dead' \in Seq(Entries)
    BY <1>9, <2>1, NewEntryTyped DEF PutDeadLetters, Entries
  <2>3. pc' \in [Appliers -> Locations] /\ failed' \in [Appliers -> SUBSET Positions(log)]
        /\ exposed' \in [Appliers -> SUBSET Positions(log)]
    BY <1>9 DEF PutDeadLetters
  <2>4. UNCHANGED <<log, faulty, rows, offsets, next, batch, events, todo, attempts, crashes, dropped,
                  misjudged>>
    BY <1>9 DEF PutDeadLetters
  <2>. QED
    BY <2>2, <2>3, <2>4 DEF Entries
<1>10. ASSUME NEW a \in Appliers, TransientError(a) \/ MisjudgedCommit(a)
       PROVE  TypeOK'
  <2>1. rows' \in Tables /\ offsets' \in [Partitions -> Nat]
    BY <1>10, AttemptEnds, InDoubtTyped
  <2>2. Exposing(a) \in SUBSET Positions(log)
    BY DEF Exposing
  <2>3. UNCHANGED <<log, faulty, dead, next, batch, crashes, misjudged>>
    BY <1>10, AttemptEnds
  <2>4. /\ todo' \in [Appliers -> Seq(SUBSET Positions(log))]
        /\ failed' \in [Appliers -> SUBSET Positions(log)]
    <3>1. todo' = [todo EXCEPT ![a] = <<>>] /\ failed' = [failed EXCEPT ![a] = {}]
      BY <1>10, AttemptEnds
    <3>. QED
      BY <3>1
  <2>5. \/ /\ attempts' = [attempts EXCEPT ![a] = 0]
           /\ pc' = [pc EXCEPT ![a] = "poll"]
           /\ events' = [events EXCEPT ![a] = {}]
           /\ exposed' = [exposed EXCEPT ![a] = {}]
           /\ dropped' = dropped \cup events[a]
        \/ /\ attempts' = [attempts EXCEPT ![a] = attempts[a] + 1]
           /\ pc' = [pc EXCEPT ![a] = "apply"]
           /\ exposed' = [exposed EXCEPT ![a] = Exposing(a)]
           /\ UNCHANGED <<events, dropped>>
    BY <1>10, AttemptEnds
  <2>6. attempts' \in [Appliers -> Nat] /\ pc' \in [Appliers -> Locations]
    <3>1. attempts \in [Appliers -> Nat] /\ attempts[a] + 1 \in Nat
      OBVIOUS
    <3>2. \E n \in Nat : attempts' = [attempts EXCEPT ![a] = n]
      BY <2>5, <3>1, Zenon
    <3>3. attempts' \in [Appliers -> Nat]
      BY <3>1, <3>2
    <3>. QED
      BY <2>5, <3>3
  <2>7. events[a] \subseteq Positions(log) /\ dropped' \subseteq Positions(log)
    BY <2>5
  <2>8. /\ events' \in [Appliers -> SUBSET Positions(log)]
        /\ exposed' \in [Appliers -> SUBSET Positions(log)]
    BY <2>2, <2>5
  <2>. QED
    BY <2>1, <2>3, <2>4, <2>6, <2>7, <2>8
<1>11. ASSUME NEW a \in Appliers, Crash(a)
       PROVE  TypeOK'
  <2>1. rows' \in Tables /\ offsets' \in [Partitions -> Nat]
    BY <1>11, InDoubtTyped DEF Crash
  <2>2. Exposing(a) \in SUBSET Positions(log)
    BY DEF Exposing
  <2>3. crashes' \in 0..MaxCrashes
    BY <1>11, ApplierAssumption DEF Crash
  <2>. QED
    BY <1>11, <2>1, <2>2, <2>3 DEF Crash
<1>12. ASSUME NEW x \in faulty, Heal(x)
       PROVE  TypeOK'
  BY <1>12 DEF Heal, target, local, history
<1>13. CASE UNCHANGED vars
  BY <1>13 DEF vars, target, local, history
<1>. QED
  BY <1>1, <1>2, <1>3, <1>4, <1>5, <1>6, <1>8, <1>9, <1>10, <1>11, <1>12, <1>13, <1>15, <1>16
  DEF Next, Step

-----------------------------------------------------------------------------
(***************************************************************************)
(* Records stay accounted for.                                             *)
(***************************************************************************)

\* What no step does to the target: take a row back, or lose a dead letter.
RowsKept ==
  \A k \in Keys : rows[k] # NoRow => rows'[k] # NoRow /\ rows'[k].lsn >= rows[k].lsn
DeadKept == \A i \in DOMAIN dead : i \in DOMAIN dead' /\ dead'[i] = dead[i]

\* A record on the target, or superseded there, stays so: the fence takes no row back.
LEMMA CoveredStays ==
  ASSUME TypeOK, TypeOK', log' = log, RowsKept, NEW x \in Positions(log), Covered(log, rows, x)
  PROVE  Covered(log, rows, x)'
<1>1. At(log, x).key \in Keys /\ At(log, x).lsn \in Nat
  BY PositionsTyped, StreamAssumption DEF TypeOK, Message
<1>2. rows \in Tables /\ rows' \in Tables
  BY DEF TypeOK, Tables
<1> DEFINE k == At(log, x).key
<1>3. rows[k] # NoRow /\ rows[k].lsn >= At(log, x).lsn /\ rows'[k] # NoRow /\ rows'[k].lsn >= rows[k].lsn
  BY <1>1 DEF Covered, RowsKept
<1>4. rows[k].lsn \in Nat /\ rows'[k].lsn \in Nat
  BY <1>1, <1>2, <1>3 DEF Tables, Row
<1>. QED
  BY <1>1, <1>3, <1>4 DEF Covered

\* A settled record stays settled.
LEMMA SettledStays ==
  ASSUME TypeOK, TypeOK', log' = log, RowsKept, DeadKept, NEW x \in Positions(log), Settled(x)
  PROVE  Settled(x)'
<1>1. Covered(log, rows, x) => Covered(log, rows, x)'
  BY CoveredStays
<1>2. DeadLettered(x) => DeadLettered(x)'
  BY DEF DeadLettered, DeadKept
<1>. QED
  BY <1>1, <1>2 DEF Settled

\* Rows that are not written are not taken back.
LEMMA RowsUnchangedKept ==
  ASSUME TypeOK, rows' = rows
  PROVE  RowsKept
BY DEF TypeOK, RowsKept, Row

\* Writing a batch takes no row back and covers every record of the batch.
LEMMA WriteKept ==
  ASSUME TypeOK, NEW S \in SUBSET Positions(log), rows' = Write(log, rows, S)
  PROVE  RowsKept /\ \A x \in S : Covered(log, rows', x)
BY WriteCovers DEF TypeOK, Tables, RowsKept

\* PutDeadLetter keeps every entry and adds one for its record.
LEMMA AppendKept ==
  ASSUME TypeOK, NEW e \in Entries, dead' = Append(dead, e)
  PROVE  DeadKept /\ DeadLettered(e.pos)'
<1>1. dead \in Seq(Entries)
  BY DEF TypeOK, Entries
<1>2. DeadKept
  BY <1>1 DEF DeadKept
<1>3. Len(dead) + 1 \in DOMAIN dead' /\ dead'[Len(dead) + 1] = e
  BY <1>1
<1>. QED
  BY <1>2, <1>3 DEF DeadLettered

\* The memory of every applier but a is as it was.
OthersUnchanged(a) ==
  \A b \in Appliers \ {a} :
    /\ pc'[b] = pc[b] /\ next'[b] = next[b] /\ batch'[b] = batch[b] /\ events'[b] = events[b]
    /\ todo'[b] = todo[b] /\ failed'[b] = failed[b] /\ exposed'[b] = exposed[b]

\* A step of applier a keeps the invariant when it keeps what is said of a, lets
\* no accounted record go, and commits only accounted records.
LEMMA StepOfOne ==
  ASSUME TypeOK, TypeOK', IndInv, NEW a \in Appliers,
         log' = log, RowsKept, OthersUnchanged(a),
         \A x \in Positions(log) : Accounted(x) => Accounted(x)',
         \A x \in Positions(log) : x[2] <= offsets'[x[1]] => x[2] <= offsets[x[1]] \/ Accounted(x)',
         Holdings(a)', ReadOrHeld(a)', BisectionComplete(a)'
  PROVE  IndInv'
<1>1. LossOnlyInKnownWindows'
  BY DEF IndInv, LossOnlyInKnownWindows, Committed
<1>2. ASSUME NEW b \in Appliers, b # a
      PROVE  Holdings(b)'
  BY <1>2 DEF IndInv, Holdings, OthersUnchanged
<1>3. ASSUME NEW b \in Appliers, b # a
      PROVE  ReadOrHeld(b)'
  <2>1. ReadOrHeld(b) /\ pc'[b] = pc[b] /\ next'[b] = next[b] /\ batch'[b] = batch[b] /\ events'[b] = events[b]
    BY <1>3 DEF IndInv, OthersUnchanged
  <2>. QED
    BY <2>1 DEF ReadOrHeld
<1>4. ASSUME NEW b \in Appliers, b # a
      PROVE  BisectionComplete(b)'
  <2>1. BisectionComplete(b) /\ pc'[b] = pc[b] /\ events'[b] = events[b] /\ todo'[b] = todo[b] /\ failed'[b] = failed[b]
    BY <1>4 DEF IndInv, OthersUnchanged
  <2>2. \A x \in events[b] : Covered(log, rows, x) => Covered(log, rows, x)'
    BY <1>4, CoveredStays DEF TypeOK
  <2>. QED
    BY <2>1, <2>2 DEF BisectionComplete
<1>. QED
  BY <1>1, <1>2, <1>3, <1>4 DEF IndInv

\* The offsets of a batch vouch for nothing the applier has not read: what they
\* newly commit is in the batch or accounted for already.
LEMMA CommitCovers ==
  ASSUME TypeOK, IndInv, NEW a \in Appliers, pc[a] \in {"apply", "isolate"},
         offsets' = UpsertOffset(offsets, HighWaterMarks(events[a])),
         NEW x \in Positions(log), x[2] <= offsets'[x[1]]
  PROVE  x[2] <= offsets[x[1]] \/ x \in events[a] \/ Accounted(x)
<1>1. log \in Logs /\ offsets \in [Partitions -> Nat] /\ events[a] \in SUBSET Positions(log)
  BY DEF TypeOK
<1>2. x[1] \in Partitions /\ x[2] \in Nat
  BY <1>1, PositionsTyped
<1>3. offsets' \in [Partitions -> Nat]
      /\ (offsets'[x[1]] = offsets[x[1]] \/ <<x[1], offsets'[x[1]]>> \in events[a])
  BY <1>1, <1>2, OffsetsAdvance
<1>4. CASE <<x[1], offsets'[x[1]]>> \in events[a]
  <2>1. ReadOrHeld(a) /\ batch[a] = {} /\ pc[a] # "down"
    BY DEF IndInv, Holdings
  <2>2. offsets'[x[1]] < next[a][x[1]]
    BY <1>1, <1>4, <2>1 DEF ReadOrHeld
  <2>3. next[a][x[1]] \in Nat /\ offsets'[x[1]] \in Nat
    BY <1>2, <1>3 DEF TypeOK
  <2>4. x[2] < next[a][x[1]]
    BY <1>2, <2>2, <2>3
  <2>. QED
    BY <2>1, <2>4 DEF ReadOrHeld
<1>. QED
  BY <1>3, <1>4

-----------------------------------------------------------------------------
(***************************************************************************)
(* Each step keeps the invariant.                                          *)
(***************************************************************************)

\* Reading resumes after the stored offset, and everything up to it is accounted
\* for: what another applier has in flight is not skipped for good.
LEMMA StartKeeps ==
  ASSUME TypeOK, TypeOK', IndInv, NEW a \in Appliers, Start(a)
  PROVE  IndInv'
<1>1. /\ UNCHANGED <<log, rows, offsets, dead, batch, events, todo, failed, exposed, dropped>>
      /\ pc' = [pc EXCEPT ![a] = "poll"] /\ pc[a] = "down"
      /\ next' = [next EXCEPT ![a] = [p \in Partitions |-> offsets[p] + 1]]
  BY DEF Start, target, history
<1>2. RowsKept
  BY <1>1, RowsUnchangedKept
<1>3. OthersUnchanged(a)
  BY <1>1 DEF OthersUnchanged, TypeOK
<1>4. \A x \in Positions(log) : Accounted(x) <=> Accounted(x)'
  BY <1>1 DEF Accounted, Settled, DeadLettered, InFlight, Covered
<1>5. Holdings(a) /\ batch[a] = {} /\ events[a] = {} /\ pc'[a] = "poll"
  BY <1>1 DEF IndInv, Holdings, TypeOK
<1>6. Holdings(a)' /\ BisectionComplete(a)'
  BY <1>1, <1>5 DEF Holdings, BisectionComplete
<1>7. ReadOrHeld(a)'
  <2>. SUFFICES ASSUME NEW x \in Positions(log), x[2] < next'[a][x[1]]
                PROVE  Accounted(x)'
    BY <1>1, <1>5 DEF ReadOrHeld
  <2>1. x[1] \in Partitions /\ x[2] \in Nat /\ offsets[x[1]] \in Nat
    BY PositionsTyped DEF TypeOK
  <2>2. x[2] < offsets[x[1]] + 1
    BY <1>1, <2>1 DEF TypeOK
  <2>3. x \in Committed
    BY <2>1, <2>2 DEF Committed
  <2>. QED
    BY <1>4, <2>3 DEF IndInv, LossOnlyInKnownWindows
<1>. QED
  BY <1>1, <1>2, <1>3, <1>4, <1>6, <1>7, StepOfOne

\* Poll takes every record between the old and the new place of its readers.
LEMMA PollKeeps ==
  ASSUME TypeOK, TypeOK', IndInv, NEW a \in Appliers, Poll(a)
  PROVE  IndInv'
<1>1. /\ UNCHANGED <<log, rows, offsets, dead, events, todo, failed, exposed, dropped>>
      /\ pc' = [pc EXCEPT ![a] = "decode"] /\ pc[a] = "poll"
  BY DEF Poll, target, history
<1>2. PICK upto :
        /\ next' = [next EXCEPT ![a] = upto]
        /\ batch' = [batch EXCEPT ![a] = {x \in Positions(log) : next[a][x[1]] <= x[2] /\ x[2] < upto[x[1]]}]
  BY DEF Poll
<1>3. RowsKept
  BY <1>1, RowsUnchangedKept
<1>4. OthersUnchanged(a)
  BY <1>1, <1>2 DEF OthersUnchanged, TypeOK
<1>5. \A x \in Positions(log) : Accounted(x) <=> Accounted(x)'
  BY <1>1 DEF Accounted, Settled, DeadLettered, InFlight, Covered
<1>6. Holdings(a) /\ batch[a] = {} /\ events[a] = {} /\ exposed[a] = {} /\ pc'[a] = "decode"
  BY <1>1 DEF IndInv, Holdings, TypeOK
<1>7. Holdings(a)' /\ BisectionComplete(a)'
  BY <1>1, <1>6 DEF Holdings, BisectionComplete
<1>8. ReadOrHeld(a)'
  <2>1. next'[a] = upto /\ batch'[a] = {x \in Positions(log) : next[a][x[1]] <= x[2] /\ x[2] < upto[x[1]]}
    BY <1>2 DEF TypeOK
  <2>2. ASSUME NEW x \in Positions(log), x[2] < upto[x[1]]
        PROVE  x \in batch'[a] \/ Accounted(x)'
    <3>1. x[2] \in Nat /\ next[a][x[1]] \in Nat
      BY PositionsTyped DEF TypeOK
    <3>2. CASE x[2] < next[a][x[1]]
      BY <1>1, <1>5, <1>6, <3>2 DEF IndInv, ReadOrHeld
    <3>3. CASE next[a][x[1]] <= x[2]
      BY <2>1, <2>2, <3>3
    <3>. QED
      BY <3>1, <3>2, <3>3
  <2>. QED
    BY <1>1, <1>6, <2>1, <2>2 DEF ReadOrHeld
<1>. QED
  BY <1>1, <1>3, <1>4, <1>5, <1>7, <1>8, StepOfOne

\* A message that does not decode leaves the batch as a dead letter.
LEMMA DecodeFailureKeeps ==
  ASSUME TypeOK, TypeOK', IndInv, NEW a \in Appliers, DecodeFailure(a)
  PROVE  IndInv'
<1>2. Undecodable(batch[a]) \in SUBSET Positions(log) /\ Undecodable(batch[a]) # {}
  BY DEF DecodeFailure, Undecodable, TypeOK
<1>3. PICK x \in Positions(log) : x = First(Undecodable(batch[a]))
  BY <1>2, FirstIn DEF TypeOK
<1>4. PICK e \in Entries : e = NewEntry(x, "permanent") /\ e.pos = x
  BY <1>3, NewEntryTyped DEF NewEntry
<1>1. /\ UNCHANGED <<log, rows, offsets, pc, next, events, todo, failed, exposed, dropped>>
      /\ pc[a] = "decode"
      /\ dead' = Append(dead, e)
      /\ batch' = [batch EXCEPT ![a] = batch[a] \ {x}]
  BY <1>3, <1>4 DEF DecodeFailure, history
<1>5. DeadKept /\ DeadLettered(x)'
  BY <1>1, <1>4, AppendKept
<1>6. RowsKept
  BY <1>1, RowsUnchangedKept
<1>7. OthersUnchanged(a)
  BY <1>1 DEF OthersUnchanged, TypeOK
<1>8. \A y \in Positions(log) : Accounted(y) => Accounted(y)'
  BY <1>1, <1>5, <1>6, SettledStays DEF Accounted, InFlight
<1>9. Holdings(a)' /\ BisectionComplete(a)'
  <2>1. Holdings(a) /\ BisectionComplete(a)
    BY DEF IndInv
  <2>. QED
    BY <1>1, <2>1 DEF Holdings, BisectionComplete
<1>10. ReadOrHeld(a)'
  <2>1. batch'[a] = batch[a] \ {x}
    BY <1>1 DEF TypeOK
  <2>2. Accounted(x)'
    BY <1>5 DEF Accounted, Settled
  <2>3. ReadOrHeld(a)
    BY DEF IndInv
  <2>. QED
    BY <1>1, <1>8, <2>1, <2>2, <2>3 DEF ReadOrHeld
<1>. QED
  BY <1>1, <1>6, <1>7, <1>8, <1>9, <1>10, StepOfOne

\* Of what is left every message becomes an event or needs no write.
LEMMA DecodedKeeps ==
  ASSUME TypeOK, TypeOK', IndInv, NEW a \in Appliers, Decoded(a)
  PROVE  IndInv'
<1> DEFINE evs == {x \in batch[a] : IsRow(log, x)}
<1>1. /\ UNCHANGED <<log, rows, offsets, dead, next, todo, failed, exposed, dropped>>
      /\ pc[a] = "decode" /\ Undecodable(batch[a]) = {}
      /\ events' = [events EXCEPT ![a] = evs]
      /\ batch' = [batch EXCEPT ![a] = {}]
      /\ pc' = [pc EXCEPT ![a] = IF evs = {} THEN "poll" ELSE "apply"]
  BY DEF Decoded, target, history
<1>2. RowsKept
  BY <1>1, RowsUnchangedKept
<1>3. OthersUnchanged(a)
  BY <1>1 DEF OthersUnchanged, TypeOK
<1>4. \A x \in Positions(log) : Accounted(x) <=> Accounted(x)'
  BY <1>1 DEF Accounted, Settled, DeadLettered, InFlight, Covered
<1>5. /\ events'[a] = evs /\ batch'[a] = {} /\ exposed[a] = {} /\ events[a] = {}
      /\ pc'[a] = IF evs = {} THEN "poll" ELSE "apply"
  BY <1>1 DEF IndInv, Holdings, TypeOK
<1>6. Holdings(a)' /\ BisectionComplete(a)'
  BY <1>1, <1>5 DEF Holdings, BisectionComplete
<1>7. ReadOrHeld(a)'
  <2>1. \A x \in batch[a] : x \in evs \/ Accounted(x)
    <3>. SUFFICES ASSUME NEW x \in batch[a], x \notin evs
                  PROVE  At(log, x).kind = "skip"
      BY DEF Accounted, Settled
    <3>1. At(log, x).kind \in Kinds
      BY PositionsTyped DEF TypeOK, Message
    <3>. QED
      BY <1>1, <3>1 DEF Undecodable, IsRow, Kinds
  <2>2. ReadOrHeld(a) /\ pc[a] # "down"
    BY <1>1 DEF IndInv
  <2>. QED
    BY <1>1, <1>4, <1>5, <2>1, <2>2 DEF ReadOrHeld
<1>. QED
  BY <1>1, <1>2, <1>3, <1>4, <1>6, <1>7, StepOfOne

\* Apply commits an offset together with the rows that settle what is below it.
LEMMA ApplyKeeps ==
  ASSUME TypeOK, TypeOK', IndInv, NEW a \in Appliers, Apply(a)
  PROVE  IndInv'
<1>1. /\ UNCHANGED <<log, dead, next, batch, todo, failed, dropped>>
      /\ pc[a] = "apply" /\ pc' = [pc EXCEPT ![a] = "poll"]
      /\ rows' = Write(log, rows, events[a])
      /\ offsets' = UpsertOffset(offsets, HighWaterMarks(events[a]))
      /\ events' = [events EXCEPT ![a] = {}]
      /\ exposed' = [exposed EXCEPT ![a] = {}]
  BY DEF Apply
<1>2. /\ pc'[a] = "poll" /\ events'[a] = {} /\ exposed'[a] = {}
      /\ \A b \in Appliers \ {a} : exposed'[b] = exposed[b]
      /\ events[a] \in SUBSET Positions(log)
  BY <1>1 DEF TypeOK
<1>3. RowsKept /\ \A x \in events[a] : Covered(log, rows, x)'
  BY <1>1, <1>2, WriteKept
<1>4. OthersUnchanged(a)
  BY <1>1 DEF OthersUnchanged, TypeOK
<1>5. Holdings(a) /\ ReadOrHeld(a) /\ batch[a] = {} /\ exposed[a] \subseteq events[a]
  BY <1>1 DEF IndInv, Holdings
<1>6. \A x \in events[a] : Accounted(x)'
  BY <1>1, <1>3, <1>5 DEF Holdings, Accounted, Settled, IsRow
<1>7. \A x \in Positions(log) : Accounted(x) => Accounted(x)'
  <2>1. DeadKept
    BY <1>1 DEF DeadKept
  <2>2. \A x \in Positions(log) : Settled(x) => Settled(x)'
    BY <1>1, <1>3, <2>1, SettledStays
  <2>. QED
    BY <1>1, <1>2, <1>5, <1>6, <2>2 DEF Accounted, InFlight
<1>8. \A x \in Positions(log) : x[2] <= offsets'[x[1]] => x[2] <= offsets[x[1]] \/ Accounted(x)'
  BY <1>1, <1>6, <1>7, CommitCovers
<1>9. Holdings(a)' /\ BisectionComplete(a)'
  BY <1>1, <1>2, <1>5 DEF Holdings, BisectionComplete
<1>10. ReadOrHeld(a)'
  BY <1>1, <1>2, <1>5, <1>6, <1>7 DEF ReadOrHeld
<1>. QED
  BY <1>1, <1>3, <1>4, <1>7, <1>8, <1>9, <1>10, StepOfOne

\* The bisection has tried every record, so what commitPositionsOnly commits is on
\* the target or among the failed records the applier still holds.
LEMMA CommitPositionsOnlyKeeps ==
  ASSUME TypeOK, TypeOK', IndInv, NEW a \in Appliers, CommitPositionsOnly(a)
  PROVE  IndInv'
<1>1. /\ UNCHANGED <<log, rows, dead, next, batch, todo, failed, dropped>>
      /\ pc[a] = "isolate" /\ todo[a] = <<>>
      /\ offsets' = UpsertOffset(offsets, HighWaterMarks(events[a]))
      /\ events' = [events EXCEPT ![a] = {}]
      /\ exposed' = [exposed EXCEPT ![a] = failed[a]]
      /\ pc' = [pc EXCEPT ![a] = IF failed[a] = {} THEN "poll" ELSE "deadletter"]
  BY DEF CommitPositionsOnly
<1>2. /\ pc'[a] = IF failed[a] = {} THEN "poll" ELSE "deadletter"
      /\ events'[a] = {} /\ exposed'[a] = failed[a]
      /\ \A b \in Appliers \ {a} : exposed'[b] = exposed[b]
      /\ events[a] \in SUBSET Positions(log)
  BY <1>1 DEF TypeOK
<1>3. RowsKept /\ DeadKept
  BY <1>1, RowsUnchangedKept DEF DeadKept
<1>4. OthersUnchanged(a)
  BY <1>1 DEF OthersUnchanged, TypeOK
<1>5. /\ Holdings(a) /\ ReadOrHeld(a) /\ BisectionComplete(a)
      /\ batch[a] = {} /\ exposed[a] \subseteq events[a]
  BY <1>1 DEF IndInv, Holdings
<1>6. \A x \in events[a] : Accounted(x)'
  <2>1. \A x \in events[a] : IsRow(log, x) /\ (x \in failed[a] \/ Covered(log, rows, x))
    BY <1>1, <1>5 DEF Holdings, BisectionComplete
  <2>. QED
    BY <1>1, <1>2, <2>1 DEF Accounted, Settled, InFlight, IsRow, Covered
<1>7. \A x \in Positions(log) : Accounted(x) => Accounted(x)'
  <2>1. \A x \in Positions(log) : Settled(x) => Settled(x)'
    BY <1>1, <1>3, SettledStays
  <2>. QED
    BY <1>1, <1>2, <1>5, <1>6, <2>1 DEF Accounted, InFlight
<1>8. \A x \in Positions(log) : x[2] <= offsets'[x[1]] => x[2] <= offsets[x[1]] \/ Accounted(x)'
  BY <1>1, <1>6, <1>7, CommitCovers
<1>9. Holdings(a)' /\ BisectionComplete(a)'
  BY <1>1, <1>2, <1>5 DEF Holdings, BisectionComplete
<1>10. ReadOrHeld(a)'
  BY <1>1, <1>2, <1>5, <1>6, <1>7 DEF ReadOrHeld
<1>. QED
  BY <1>1, <1>3, <1>4, <1>7, <1>8, <1>9, <1>10, StepOfOne

\* A failed record leaves the memory of the applier as a dead letter.
LEMMA PutDeadLettersKeeps ==
  ASSUME TypeOK, TypeOK', IndInv, NEW a \in Appliers, PutDeadLetters(a)
  PROVE  IndInv'
<1>1. /\ pc[a] = "deadletter" /\ Holdings(a) /\ ReadOrHeld(a)
      /\ failed[a] \in SUBSET Positions(log) /\ failed[a] # {} /\ exposed[a] = failed[a]
      /\ batch[a] = {} /\ events[a] = {}
  BY DEF PutDeadLetters, IndInv, Holdings, TypeOK
<1>2. PICK x \in Positions(log) : x = First(failed[a])
  BY <1>1, FirstIn DEF TypeOK
<1>3. PICK e \in Entries : dead' = Append(dead, e) /\ e.pos = x
  <2>1. PICK class : dead' = Append(dead, NewEntry(x, class))
    BY <1>2 DEF PutDeadLetters
  <2>2. NewEntry(x, class) \in Entries /\ NewEntry(x, class).pos = x
    BY NewEntryTyped DEF NewEntry
  <2>. QED
    BY <2>1, <2>2
<1>4. /\ UNCHANGED <<log, rows, offsets, next, batch, events, todo, dropped>>
      /\ dead' = Append(dead, e)
      /\ failed' = [failed EXCEPT ![a] = failed[a] \ {x}]
      /\ exposed' = [exposed EXCEPT ![a] = exposed[a] \ {x}]
      /\ pc' = [pc EXCEPT ![a] = IF failed[a] = {x} THEN "poll" ELSE "deadletter"]
  BY <1>2, <1>3 DEF PutDeadLetters
<1>5. /\ failed'[a] = failed[a] \ {x} /\ exposed'[a] = failed[a] \ {x}
      /\ pc'[a] = IF failed[a] = {x} THEN "poll" ELSE "deadletter"
      /\ \A b \in Appliers \ {a} : exposed'[b] = exposed[b]
  BY <1>1, <1>4 DEF TypeOK
<1>6. DeadKept /\ DeadLettered(x)'
  BY <1>3, <1>4, AppendKept
<1>7. RowsKept
  BY <1>4, RowsUnchangedKept
<1>8. OthersUnchanged(a)
  BY <1>4 DEF OthersUnchanged, TypeOK
<1>9. \A y \in Positions(log) : Accounted(y) => Accounted(y)'
  <2>1. \A y \in Positions(log) : Settled(y) => Settled(y)'
    BY <1>4, <1>6, <1>7, SettledStays
  <2>2. Settled(x)'
    BY <1>6 DEF Settled
  <2>3. \A y : InFlight(y) => InFlight(y)' \/ y = x
    BY <1>1, <1>5 DEF InFlight
  <2>. QED
    BY <1>4, <2>1, <2>2, <2>3 DEF Accounted
<1>10. Holdings(a)' /\ BisectionComplete(a)'
  <2>1. IF failed[a] = {x} THEN pc'[a] = "poll" /\ exposed'[a] = {}
        ELSE pc'[a] = "deadletter" /\ failed'[a] # {} /\ exposed'[a] = failed'[a]
    BY <1>1, <1>5
  <2>2. batch'[a] = {} /\ events'[a] = {}
    BY <1>1, <1>4
  <2>. QED
    BY <2>1, <2>2 DEF Holdings, BisectionComplete
<1>11. ReadOrHeld(a)'
  BY <1>1, <1>4, <1>9 DEF ReadOrHeld
<1>. QED
  BY <1>4, <1>7, <1>8, <1>9, <1>10, <1>11, StepOfOne

\* A sub-batch is written, given up as one bad record, or halved without a loss;
\* one that was given up or halved may have been written all the same.
LEMMA SubBatchKeeps ==
  ASSUME TypeOK, TypeOK', IndInv, NEW a \in Appliers,
         UNCHANGED <<log, offsets, dead, pc, next, batch, events, exposed, dropped>>,
         pc[a] = "isolate", todo[a] # <<>>,
         \/ /\ rows' = Write(log, rows, Head(todo[a]))
            /\ todo' = [todo EXCEPT ![a] = Tail(todo[a])]
            /\ failed' = failed
         \/ Divide(a) /\ rows' \in {rows, Write(log, rows, Head(todo[a]))}
  PROVE  IndInv'
<1>1. /\ UNCHANGED <<log, offsets, dead, pc, next, batch, events, exposed, dropped>>
      /\ pc[a] = "isolate" /\ todo[a] # <<>>
  OBVIOUS
<1>2. PICK S : S = Head(todo[a])
  OBVIOUS
<1> DEFINE rest == Tail(todo[a])
<1>3. /\ rows' \in {rows, Write(log, rows, S)}
      /\ \/ /\ rows' = Write(log, rows, S)
            /\ todo' = [todo EXCEPT ![a] = rest]
            /\ failed' = failed
         \/ /\ failed' = [failed EXCEPT ![a] = failed[a] \cup S]
            /\ todo' = [todo EXCEPT ![a] = rest]
         \/ /\ todo' = [todo EXCEPT ![a] = <<LowerHalf(S), UpperHalf(S)>> \o rest]
            /\ failed' = failed
  BY <1>2 DEF Divide
<1>4. /\ Holdings(a) /\ ReadOrHeld(a) /\ BisectionComplete(a)
      /\ todo[a] \in Seq(SUBSET Positions(log)) /\ events[a] \in SUBSET Positions(log)
  BY DEF IndInv, TypeOK
<1>5. /\ S \in SUBSET Positions(log) /\ S \subseteq events[a]
      /\ 1 \in DOMAIN todo[a] /\ todo[a][1] = S
  BY <1>1, <1>2, <1>4 DEF BisectionComplete
<1>6. RowsKept /\ (rows' = Write(log, rows, S) => \A x \in S : Covered(log, rows, x)')
  BY <1>1, <1>3, <1>5, RowsUnchangedKept, WriteKept
<1>7. OthersUnchanged(a)
  BY <1>1, <1>3 DEF OthersUnchanged, TypeOK
<1>8. \A x \in Positions(log) : Accounted(x) => Accounted(x)'
  <2>1. DeadKept
    BY <1>1 DEF DeadKept
  <2>2. \A x \in Positions(log) : Settled(x) => Settled(x)'
    BY <1>1, <1>6, <2>1, SettledStays
  <2>. QED
    BY <1>1, <2>2 DEF Accounted, InFlight
<1>9. Holdings(a)'
  BY <1>1, <1>4 DEF Holdings
<1>10. ReadOrHeld(a)'
  BY <1>1, <1>4, <1>8 DEF ReadOrHeld
<1>11. BisectionComplete(a)'
  <2>1. /\ rest \in Seq(SUBSET Positions(log))
        /\ \A i \in DOMAIN rest : i + 1 \in DOMAIN todo[a] /\ rest[i] = todo[a][i + 1]
        /\ \A i \in DOMAIN todo[a] : i = 1 \/ (i - 1 \in DOMAIN rest /\ todo[a][i] = rest[i - 1])
    BY <1>1, <1>4
  <2>2. \A i \in DOMAIN rest : rest[i] \subseteq events[a]
    BY <1>1, <1>4, <2>1 DEF BisectionComplete
  <2>3. \A x \in events[a] : Covered(log, rows, x) => Covered(log, rows, x)'
    BY <1>1, <1>4, <1>6, CoveredStays
  <2>4. \A x \in events[a] :
          \/ x \in failed[a] \/ Covered(log, rows, x)' \/ x \in S
          \/ \E i \in DOMAIN rest : x \in rest[i]
    BY <1>1, <1>4, <1>5, <2>1, <2>3 DEF BisectionComplete
  <2>5. failed[a] \subseteq events[a]
    BY <1>1, <1>4 DEF BisectionComplete
  <2>. HIDE DEF rest
  <2>6. CASE todo' = [todo EXCEPT ![a] = rest] /\ (failed' = failed \/ failed' = [failed EXCEPT ![a] = failed[a] \cup S])
    <3>1. todo'[a] = rest /\ (failed'[a] = failed[a] \/ failed'[a] = failed[a] \cup S)
      BY <2>6 DEF TypeOK
    <3>2. \A x \in S : x \in failed'[a] \/ Covered(log, rows, x)'
      BY <1>3, <1>6, <2>6 DEF TypeOK
    <3>. QED
      BY <1>1, <1>5, <2>2, <2>4, <2>5, <3>1, <3>2 DEF BisectionComplete
  <2>7. CASE /\ todo' = [todo EXCEPT ![a] = <<LowerHalf(S), UpperHalf(S)>> \o rest]
             /\ failed' = failed
    <3> DEFINE L == LowerHalf(S)
               U == UpperHalf(S)
               new == <<L, U>> \o rest
    <3>1. L \subseteq S /\ U \subseteq S /\ S = L \cup U
      BY DEF LowerHalf, UpperHalf
    <3>. HIDE DEF L, U
    <3>2. /\ 1 \in DOMAIN new /\ 2 \in DOMAIN new /\ new[1] = L /\ new[2] = U
          /\ \A i \in DOMAIN rest : i + 2 \in DOMAIN new /\ new[i + 2] = rest[i]
          /\ \A i \in DOMAIN new : i = 1 \/ i = 2 \/ (i - 2 \in DOMAIN rest /\ new[i] = rest[i - 2])
      BY <2>1
    <3>3. todo'[a] = new /\ failed'[a] = failed[a]
      BY <2>7 DEF TypeOK, L, U
    <3>. HIDE DEF new
    <3>4. \A i \in DOMAIN new : new[i] \subseteq events[a]
      BY <1>5, <2>2, <3>1, <3>2
    <3>5. \A x \in S : x \in new[1] \/ x \in new[2]
      BY <3>1, <3>2
    <3>6. \A x \in events[a] :
            x \in failed[a] \/ Covered(log, rows, x)' \/ \E i \in DOMAIN new : x \in new[i]
      BY <2>4, <3>2, <3>5
    <3>. QED
      BY <1>1, <2>5, <3>3, <3>4, <3>6 DEF BisectionComplete
  <2>. QED
    BY <1>3, <2>6, <2>7 DEF rest
<1>. QED
  BY <1>1, <1>6, <1>7, <1>8, <1>9, <1>10, <1>11, StepOfOne

\* Whatever became of the transaction in doubt, it took no row back, and what it
\* committed is accounted for, on the target, or exposed.
LEMMA InDoubtEffect ==
  ASSUME TypeOK, TypeOK', IndInv, NEW a \in Appliers, InDoubt(a), log' = log
  PROVE  /\ RowsKept
         /\ \A x \in Positions(log) : x[2] <= offsets'[x[1]] =>
              \/ x[2] <= offsets[x[1]] \/ Accounted(x) \/ x \in Exposing(a)
              \/ IsRow(log, x) /\ Covered(log, rows, x)'
<1>1. /\ Holdings(a) /\ BisectionComplete(a)
      /\ events[a] \in SUBSET Positions(log) /\ todo[a] \in Seq(SUBSET Positions(log))
  BY DEF IndInv, TypeOK
<1>2. CASE UNCHANGED <<rows, offsets>>
  BY <1>2, RowsUnchangedKept
<1>3. CASE /\ pc[a] = "apply"
           /\ rows' = Write(log, rows, events[a])
           /\ offsets' = UpsertOffset(offsets, HighWaterMarks(events[a]))
  <2>1. RowsKept /\ \A x \in events[a] : IsRow(log, x) /\ Covered(log, rows, x)'
    BY <1>1, <1>3, WriteKept DEF Holdings
  <2>. QED
    BY <1>3, <2>1, CommitCovers
<1>4. CASE /\ pc[a] = "isolate" /\ todo[a] # <<>>
           /\ rows' = Write(log, rows, Head(todo[a]))
           /\ UNCHANGED offsets
  <2>1. Head(todo[a]) \in SUBSET Positions(log)
    BY <1>1, <1>4
  <2>. QED
    BY <1>4, <2>1, WriteKept
<1>5. CASE /\ pc[a] = "isolate" /\ todo[a] = <<>>
           /\ offsets' = UpsertOffset(offsets, HighWaterMarks(events[a]))
           /\ UNCHANGED rows
  <2>1. RowsKept
    BY <1>5, RowsUnchangedKept
  <2>2. \A x \in events[a] : x \in Exposing(a) \/ (IsRow(log, x) /\ Covered(log, rows, x)')
    BY <1>1, <1>5 DEF Holdings, BisectionComplete, Exposing, Covered
  <2>. QED
    BY <1>5, <2>1, <2>2, CommitCovers
<1>. QED
  BY <1>2, <1>3, <1>4, <1>5 DEF InDoubt

\* Bisection starts with all of the batch, and loses nothing when the transaction
\* that failed was committed after all.
LEMMA BisectionBegins ==
  ASSUME TypeOK, TypeOK', IndInv, NEW a \in Appliers, InDoubt(a),
         UNCHANGED <<log, dead, next, batch, events, exposed, dropped>>,
         pc[a] = "apply", pc' = [pc EXCEPT ![a] = "isolate"],
         todo' = [todo EXCEPT ![a] = <<events[a]>>],
         failed' = [failed EXCEPT ![a] = {}]
  PROVE  IndInv'
<1>1. pc'[a] = "isolate" /\ todo'[a] = <<events[a]>> /\ failed'[a] = {}
  BY DEF TypeOK
<1>2. /\ RowsKept
      /\ \A x \in Positions(log) : x[2] <= offsets'[x[1]] =>
           \/ x[2] <= offsets[x[1]] \/ Accounted(x) \/ x \in Exposing(a)
           \/ IsRow(log, x) /\ Covered(log, rows, x)'
  BY InDoubtEffect
<1>3. OthersUnchanged(a)
  BY DEF OthersUnchanged, TypeOK
<1>4. \A x \in Positions(log) : Accounted(x) => Accounted(x)'
  <2>1. DeadKept
    BY DEF DeadKept
  <2>. QED
    BY <1>2, <2>1, SettledStays DEF Accounted, InFlight
<1>5. \A x \in Positions(log) : x[2] <= offsets'[x[1]] => x[2] <= offsets[x[1]] \/ Accounted(x)'
  <2>1. \A x \in Positions(log) : IsRow(log, x) /\ Covered(log, rows, x)' => Accounted(x)'
    BY DEF Accounted, Settled, IsRow
  <2>2. \A x \in Exposing(a) : Accounted(x)'
    BY DEF Exposing, Accounted, InFlight
  <2>. QED
    BY <1>2, <1>4, <2>1, <2>2
<1>6. Holdings(a) /\ ReadOrHeld(a)
  BY DEF IndInv
<1>7. Holdings(a)' /\ BisectionComplete(a)'
  BY <1>1, <1>6 DEF Holdings, BisectionComplete
<1>8. ReadOrHeld(a)'
  BY <1>4, <1>6 DEF ReadOrHeld
<1>. QED
  BY <1>2, <1>3, <1>4, <1>5, <1>7, <1>8, StepOfOne

\* A refused batch changes nothing on the target, and a refused sub-batch only what
\* is left to try.
LEMMA RefusalKeeps ==
  ASSUME TypeOK, TypeOK', IndInv, NEW a \in Appliers, ApplyRejected(a) \/ Isolate(a)
  PROVE  IndInv'
<1>1. CASE ApplyRejected(a)
  <2>1. /\ UNCHANGED <<log, rows, offsets, dead, next, batch, events, exposed, dropped>>
        /\ pc[a] = "apply" /\ pc' = [pc EXCEPT ![a] = "isolate"]
        /\ todo' = [todo EXCEPT ![a] = <<events[a]>>]
        /\ failed' = [failed EXCEPT ![a] = {}]
    BY <1>1 DEF ApplyRejected, target, history
  <2>2. InDoubt(a)
    BY <2>1 DEF InDoubt
  <2>. QED
    BY <2>1, <2>2, BisectionBegins
<1>2. CASE Isolate(a)
  <2>1. /\ UNCHANGED <<log, offsets, dead, pc, next, batch, events, exposed, dropped>>
        /\ pc[a] = "isolate" /\ todo[a] # <<>>
    BY <1>2 DEF Isolate, history
  <2>2. \/ /\ rows' = Write(log, rows, Head(todo[a]))
           /\ todo' = [todo EXCEPT ![a] = Tail(todo[a])]
           /\ failed' = failed
        \/ Divide(a) /\ rows' \in {rows, Write(log, rows, Head(todo[a]))}
    BY <1>2 DEF Isolate
  <2>. QED
    BY <2>1, <2>2, SubBatchKeeps
<1>. QED
  BY <1>1, <1>2

\* An outage taken for something else bisects the batch as a refusal does.
LEMMA MisjudgedErrorKeeps ==
  ASSUME TypeOK, TypeOK', IndInv, NEW a \in Appliers, MisjudgedError(a)
  PROVE  IndInv'
<1>1. UNCHANGED <<log, dead, next, batch, events, exposed, dropped>> /\ InDoubt(a)
  BY DEF MisjudgedError
<1>2. CASE pc[a] = "apply"
  <2>1. /\ pc' = [pc EXCEPT ![a] = "isolate"]
        /\ todo' = [todo EXCEPT ![a] = <<events[a]>>]
        /\ failed' = [failed EXCEPT ![a] = {}]
    BY <1>2 DEF MisjudgedError
  <2>. QED
    BY <1>1, <1>2, <2>1, BisectionBegins
<1>3. CASE pc[a] = "isolate"
  <2>1. todo[a] # <<>> /\ Divide(a) /\ pc' = pc
    BY <1>3 DEF MisjudgedError
  <2>2. offsets' = offsets /\ rows' \in {rows, Write(log, rows, Head(todo[a]))}
    BY <1>1, <1>3, <2>1 DEF InDoubt
  <2>. QED
    BY <1>1, <1>3, <2>1, <2>2, SubBatchKeeps
<1>. QED
  BY <1>2, <1>3 DEF MisjudgedError

\* After an error that ends the attempt the batch is still held or counts as let go
\* of, whatever became of the transaction in doubt.
LEMMA AttemptEndsKeeps ==
  ASSUME TypeOK, TypeOK', IndInv, NEW a \in Appliers, TransientError(a) \/ MisjudgedCommit(a)
  PROVE  IndInv'
<1>1. /\ UNCHANGED <<log, dead, next, batch>>
      /\ pc[a] \in {"apply", "isolate"} /\ InDoubt(a)
      /\ todo' = [todo EXCEPT ![a] = <<>>] /\ failed' = [failed EXCEPT ![a] = {}]
  BY AttemptEnds
<1>2. \/ /\ pc' = [pc EXCEPT ![a] = "poll"]
         /\ events' = [events EXCEPT ![a] = {}]
         /\ exposed' = [exposed EXCEPT ![a] = {}]
         /\ dropped' = dropped \cup events[a]
      \/ /\ pc' = [pc EXCEPT ![a] = "apply"]
         /\ exposed' = [exposed EXCEPT ![a] = Exposing(a)]
         /\ UNCHANGED <<events, dropped>>
  BY AttemptEnds
<1>3. /\ RowsKept
      /\ \A x \in Positions(log) : x[2] <= offsets'[x[1]] =>
           \/ x[2] <= offsets[x[1]] \/ Accounted(x) \/ x \in Exposing(a)
           \/ IsRow(log, x) /\ Covered(log, rows, x)'
  BY <1>1, InDoubtEffect
<1>4. Holdings(a) /\ ReadOrHeld(a) /\ BisectionComplete(a) /\ batch[a] = {}
  BY <1>1 DEF IndInv, Holdings
<1>5. exposed[a] \subseteq Exposing(a) /\ Exposing(a) \subseteq events[a]
  BY <1>1, <1>4 DEF Exposing, Holdings, BisectionComplete
<1>6. \A x \in Positions(log) : Settled(x) => Settled(x)'
  <2>1. DeadKept
    BY <1>1 DEF DeadKept
  <2>. QED
    BY <1>1, <1>3, <2>1, SettledStays
<1>7. \/ /\ pc'[a] = "poll" /\ events'[a] = {} /\ exposed'[a] = {}
         /\ dropped' = dropped \cup events[a]
      \/ /\ pc'[a] = "apply" /\ events'[a] = events[a] /\ exposed'[a] = Exposing(a)
         /\ dropped' = dropped
  BY <1>2 DEF TypeOK
<1>8. OthersUnchanged(a)
  BY <1>1, <1>2 DEF OthersUnchanged, TypeOK
<1>9. \A x \in Exposing(a) : InFlight(x)' \/ x \in dropped'
  BY <1>5, <1>7 DEF InFlight
<1>10. \A x \in Positions(log) : Accounted(x) => Accounted(x)'
  <2>1. \A x \in Positions(log) : InFlight(x) => InFlight(x)' \/ x \in Exposing(a)
    BY <1>5, <1>8 DEF InFlight, OthersUnchanged
  <2>2. dropped \subseteq dropped'
    BY <1>7
  <2>. QED
    BY <1>6, <1>9, <2>1, <2>2 DEF Accounted
<1>11. \A x \in Positions(log) : x[2] <= offsets'[x[1]] => x[2] <= offsets[x[1]] \/ Accounted(x)'
  <2>1. \A x \in Positions(log) : IsRow(log, x) /\ Covered(log, rows, x)' => Accounted(x)'
    BY <1>1 DEF Accounted, Settled, IsRow
  <2>2. \A x \in Exposing(a) : Accounted(x)'
    BY <1>9 DEF Accounted
  <2>. QED
    BY <1>3, <1>10, <2>1, <2>2
<1>12. Holdings(a)' /\ BisectionComplete(a)'
  BY <1>1, <1>4, <1>5, <1>7 DEF Holdings, BisectionComplete
<1>13. ReadOrHeld(a)'
  <2>1. \A x \in events[a] : x \in events'[a] \/ Accounted(x)'
    BY <1>7 DEF Accounted
  <2>2. events'[a] \subseteq events[a] /\ pc[a] # "down"
    BY <1>1, <1>7
  <2>. QED
    BY <1>1, <1>4, <1>10, <2>1, <2>2 DEF ReadOrHeld
<1>. QED
  BY <1>1, <1>3, <1>8, <1>10, <1>11, <1>12, <1>13, StepOfOne

\* A crash loses the memory of the applier; the records it exposed count as let go of.
LEMMA CrashKeeps ==
  ASSUME TypeOK, TypeOK', IndInv, NEW a \in Appliers, Crash(a)
  PROVE  IndInv'
<1>1. /\ UNCHANGED <<log, dead, next>>
      /\ pc[a] # "down" /\ InDoubt(a)
      /\ dropped' = dropped \cup Exposing(a)
      /\ exposed' = [exposed EXCEPT ![a] = {}]
      /\ pc' = [pc EXCEPT ![a] = "down"]
      /\ batch' = [batch EXCEPT ![a] = {}] /\ events' = [events EXCEPT ![a] = {}]
      /\ todo' = [todo EXCEPT ![a] = <<>>] /\ failed' = [failed EXCEPT ![a] = {}]
  BY DEF Crash
<1>2. pc'[a] = "down" /\ exposed'[a] = {} /\ batch'[a] = {} /\ events'[a] = {}
  BY <1>1 DEF TypeOK
<1>3. /\ RowsKept
      /\ \A x \in Positions(log) : x[2] <= offsets'[x[1]] =>
           \/ x[2] <= offsets[x[1]] \/ Accounted(x) \/ x \in Exposing(a)
           \/ IsRow(log, x) /\ Covered(log, rows, x)'
  BY <1>1, InDoubtEffect
<1>4. OthersUnchanged(a)
  BY <1>1 DEF OthersUnchanged, TypeOK
<1>5. \A x \in Positions(log) : Accounted(x) => Accounted(x)'
  <2>1. DeadKept
    BY <1>1 DEF DeadKept
  <2>2. \A x \in Positions(log) : Settled(x) => Settled(x)'
    BY <1>1, <1>3, <2>1, SettledStays
  <2>3. \A x \in Positions(log) : InFlight(x) => InFlight(x)' \/ x \in Exposing(a)
    BY <1>4 DEF InFlight, OthersUnchanged, Exposing
  <2>. QED
    BY <1>1, <2>2, <2>3 DEF Accounted
<1>6. \A x \in Positions(log) : x[2] <= offsets'[x[1]] => x[2] <= offsets[x[1]] \/ Accounted(x)'
  <2>1. \A x \in Positions(log) : IsRow(log, x) /\ Covered(log, rows, x)' => Accounted(x)'
    BY <1>1 DEF Accounted, Settled, IsRow
  <2>2. \A x \in Exposing(a) : Accounted(x)'
    BY <1>1 DEF Accounted
  <2>. QED
    BY <1>3, <1>5, <2>1, <2>2
<1>7. Holdings(a)' /\ ReadOrHeld(a)' /\ BisectionComplete(a)'
  BY <1>1, <1>2 DEF Holdings, ReadOrHeld, BisectionComplete
<1>. QED
  BY <1>1, <1>3, <1>4, <1>5, <1>6, <1>7, StepOfOne

\* Healing a record, and doing nothing, changes nothing the invariant speaks of.
LEMMA EnvironmentKeeps ==
  ASSUME IndInv, UNCHANGED <<log, target, local, history>>
  PROVE  IndInv'
<1>1. UNCHANGED <<log, rows, offsets, dead, pc, next, batch, events, todo, failed, exposed, dropped>>
  BY DEF target, local, history
<1>2. \A x : Accounted(x) <=> Accounted(x)'
  BY <1>1 DEF Accounted, Settled, DeadLettered, InFlight, Covered
<1>3. LossOnlyInKnownWindows'
  BY <1>1, <1>2 DEF IndInv, LossOnlyInKnownWindows, Committed
<1>4. ASSUME NEW a \in Appliers
      PROVE  Holdings(a)' /\ ReadOrHeld(a)' /\ BisectionComplete(a)'
  <2>1. Holdings(a) /\ ReadOrHeld(a) /\ BisectionComplete(a)
    BY DEF IndInv
  <2>2. Holdings(a)' /\ BisectionComplete(a)'
    BY <1>1, <2>1 DEF Holdings, BisectionComplete
  <2>3. ReadOrHeld(a)'
    BY <1>1, <1>2, <2>1 DEF ReadOrHeld
  <2>. QED
    BY <2>2, <2>3
<1>. QED
  BY <1>3, <1>4 DEF IndInv

-----------------------------------------------------------------------------
(***************************************************************************)
(* No silent loss.                                                         *)
(***************************************************************************)

\* At the start nothing is committed and nobody has read anything.
LEMMA InvariantInit == Init => IndInv
<1>. SUFFICES ASSUME Init
              PROVE  IndInv
  OBVIOUS
<1>1. LossOnlyInKnownWindows
  <2>1. \A x \in Positions(log) : x[1] \in Partitions /\ x[2] \in 1..Len(log[x[1]]) /\ Len(log[x[1]]) \in Nat
    BY PositionsTyped DEF Init
  <2>2. \A x \in Positions(log) : offsets[x[1]] = 0 /\ ~(x[2] <= 0)
    BY <2>1 DEF Init
  <2>. QED
    BY <2>2 DEF LossOnlyInKnownWindows, Committed
<1>2. \A a \in Appliers : Holdings(a) /\ ReadOrHeld(a) /\ BisectionComplete(a)
  BY DEF Init, Holdings, ReadOrHeld, BisectionComplete
<1>. QED
  BY <1>1, <1>2 DEF IndInv

\* Every step, of any applier or of the environment, keeps types and invariant.
LEMMA InvariantStep ==
  ASSUME TypeOK, IndInv, [Next]_vars
  PROVE  TypeOK' /\ IndInv'
<1>1. TypeOK'
  BY TypeStep DEF IndInv
<1>2. ASSUME NEW a \in Appliers, Step(a)
      PROVE  IndInv'
  <2>1. CASE Start(a)
    BY <1>1, <2>1, StartKeeps
  <2>2. CASE Poll(a)
    BY <1>1, <2>2, PollKeeps
  <2>3. CASE DecodeFailure(a)
    BY <1>1, <2>3, DecodeFailureKeeps
  <2>4. CASE Decoded(a)
    BY <1>1, <2>4, DecodedKeeps
  <2>5. CASE Apply(a)
    BY <1>1, <2>5, ApplyKeeps
  <2>6. CASE ApplyRejected(a) \/ Isolate(a)
    BY <1>1, <2>6, RefusalKeeps
  <2>7. CASE MisjudgedError(a)
    BY <1>1, <2>7, MisjudgedErrorKeeps
  <2>8. CASE CommitPositionsOnly(a)
    BY <1>1, <2>8, CommitPositionsOnlyKeeps
  <2>9. CASE PutDeadLetters(a)
    BY <1>1, <2>9, PutDeadLettersKeeps
  <2>10. CASE TransientError(a) \/ MisjudgedCommit(a)
    BY <1>1, <2>10, AttemptEndsKeeps
  <2>. QED
    BY <1>2, <2>1, <2>2, <2>3, <2>4, <2>5, <2>6, <2>7, <2>8, <2>9, <2>10 DEF Step
<1>3. ASSUME NEW a \in Appliers, Crash(a)
      PROVE  IndInv'
  BY <1>1, <1>3, CrashKeeps
<1>4. ASSUME NEW x \in faulty, Heal(x)
      PROVE  IndInv'
  BY <1>4, EnvironmentKeeps DEF Heal
<1>5. CASE UNCHANGED vars
  BY <1>1, <1>5, EnvironmentKeeps DEF vars
<1>. QED
  BY <1>1, <1>2, <1>3, <1>4, <1>5 DEF Next

\* In every reachable state of the appliers the inductive invariant holds.
THEOREM Inductive == Spec => [](TypeOK /\ IndInv)
<1>1. Init => TypeOK /\ IndInv
  BY TypeInit, InvariantInit
<1>2. TypeOK /\ IndInv /\ [Next]_vars => TypeOK' /\ IndInv'
  BY InvariantStep
<1>. QED
  BY <1>1, <1>2, PTL DEF Spec

\* The state of the service, the offset table and the dead-letter table stay well
\* formed: no offset before the first, no entry without a record of the stream.
THEOREM TypeCorrect == Spec => []TypeOK
BY Inductive, PTL

\* For any number of replicas, partitions, crashes, retries and bisections and for
\* every stream: a committed offset has no unsettled record at or below it, except
\* in the two windows of the loop (applier.go:171-178, cdc-applier main.go:141-167).
THEOREM NoSilentLoss == Spec => []LossOnlyInKnownWindows
<1>1. IndInv => LossOnlyInKnownWindows
  BY DEF IndInv
<1>. QED
  BY <1>1, Inductive, PTL

-----------------------------------------------------------------------------
(***************************************************************************)
(* Offsets never regress.                                                  *)
(***************************************************************************)

\* Whatever a step does, the offset table is as it was or took the marks of the
\* batch of one applier.
LEMMA OffsetsStep ==
  ASSUME [Next]_vars
  PROVE  \/ offsets' = offsets
         \/ \E a \in Appliers : offsets' = UpsertOffset(offsets, HighWaterMarks(events[a]))
<1>1. ASSUME NEW a \in Appliers, Step(a) \/ Crash(a)
      PROVE  offsets' = offsets \/ offsets' = UpsertOffset(offsets, HighWaterMarks(events[a]))
  <2>1. CASE Start(a) \/ Poll(a) \/ Decoded(a) \/ ApplyRejected(a)
    BY <2>1 DEF Start, Poll, Decoded, ApplyRejected, target
  <2>2. CASE DecodeFailure(a) \/ Isolate(a) \/ PutDeadLetters(a)
    BY <2>2 DEF DecodeFailure, Isolate, PutDeadLetters
  <2>3. CASE Apply(a) \/ CommitPositionsOnly(a)
    BY <2>3 DEF Apply, CommitPositionsOnly
  <2>4. CASE TransientError(a) \/ MisjudgedError(a) \/ MisjudgedCommit(a) \/ Crash(a)
    BY <2>4 DEF TransientError, MisjudgedError, MisjudgedCommit, Crash, InDoubt
  <2>. QED
    BY <1>1, <2>1, <2>2, <2>3, <2>4 DEF Step
<1>2. CASE (\E x \in faulty : Heal(x)) \/ UNCHANGED vars
  BY <1>2 DEF Heal, vars, target
<1>. QED
  BY <1>1, <1>2 DEF Next

\* No interleaving of replicas takes a stored offset back: the slower of two that
\* commit the same partition leaves the faster one's offset (UpsertOffset of both
\* dialects).
THEOREM OffsetsMonotone == Spec => OffsetsNeverRegress
<1>1. TypeOK /\ [Next]_vars => [\A p \in Partitions : offsets'[p] >= offsets[p]]_offsets
  <2>. SUFFICES ASSUME TypeOK, [Next]_vars, NEW a \in Appliers,
                       offsets' = UpsertOffset(offsets, HighWaterMarks(events[a]))
                PROVE  \A p \in Partitions : offsets'[p] >= offsets[p]
    BY OffsetsStep
  <2>1. log \in Logs /\ events[a] \in SUBSET Positions(log) /\ offsets \in [Partitions -> Nat]
    BY DEF TypeOK
  <2>. QED
    BY <2>1, OffsetsAdvance
<1>. QED
  BY <1>1, TypeCorrect, PTL DEF Spec, OffsetsNeverRegress

-----------------------------------------------------------------------------
(***************************************************************************)
(* The appliers implement the versioned table.                             *)
(***************************************************************************)

\* What a reader sees of a row is a row, with the same LSN.
LEMMA VisibleTyped ==
  ASSUME NEW row \in Row(Vals) \cup {NoRow}
  PROVE  /\ Visible(row) \in Row(Vals) \cup {NoRow}
         /\ Visible(row) = NoRow <=> row = NoRow
         /\ row # NoRow => Visible(row).lsn = row.lsn
BY StreamAssumption DEF Visible, Row

\* One fenced write shows the row as it was, or as the change leaves it; the
\* latter only when the change is not older than what was there.
LEMMA VisibleWrite ==
  ASSUME NEW row \in Row(Vals) \cup {NoRow}, NEW m \in Message, m.kind \in {"upsert", "delete"}
  PROVE  \/ Visible(WriteRow(row, m)) = Visible(row)
         \/ /\ Visible(WriteRow(row, m)) = Table!VersionOf(m)
            /\ Visible(row) = NoRow \/ Visible(row).lsn <= m.lsn
<1>1. m.lsn \in Nat /\ m.val \in Vals /\ NullImage \in Vals /\ NoRow \notin Row(Vals)
  BY StreamAssumption DEF Message
<1>2. CASE row # NoRow /\ ~(row.lsn <= m.lsn)
  BY <1>2 DEF WriteRow, FencedUpsert, FencedDelete, Fenced
<1>3. CASE row = NoRow \/ row.lsn <= m.lsn
  <2>1. Visible(row) = NoRow \/ Visible(row).lsn <= m.lsn
    BY <1>3, VisibleTyped
  <2>2. CASE m.kind = "upsert"
    <3>1. WriteRow(row, m) = [lsn |-> m.lsn, deleted |-> FALSE, val |-> m.val]
      BY <1>3, <2>2 DEF WriteRow, FencedUpsert, Fenced
    <3>2. WriteRow(row, m) # NoRow
      BY <1>1, WriteRowEffect
    <3>3. Visible(WriteRow(row, m)) = WriteRow(row, m)
      BY <3>1, <3>2 DEF Visible
    <3>4. Table!VersionOf(m) = [lsn |-> m.lsn, deleted |-> FALSE, val |-> m.val]
      BY <2>2 DEF Table!VersionOf
    <3>. QED
      BY <2>1, <3>1, <3>3, <3>4
  <2>3. CASE m.kind = "delete"
    <3>1. WriteRow(row, m) \in Row(Vals) /\ WriteRow(row, m) # NoRow
      BY <1>1, WriteRowEffect
    <3>2. WriteRow(row, m).lsn = m.lsn /\ WriteRow(row, m).deleted = TRUE
      BY <1>3, <2>3 DEF WriteRow, FencedDelete, Fenced, Row
    <3>3. Visible(WriteRow(row, m)) = [lsn |-> m.lsn, deleted |-> TRUE, val |-> NullImage]
      BY <3>1, <3>2 DEF Visible, Row
    <3>. QED
      BY <2>1, <2>3, <3>3 DEF Table!VersionOf
  <2>. QED
    BY <2>2, <2>3
<1>. QED
  BY <1>2, <1>3

\* The operators of the stream mean the same in the versioned table.
LEMMA SameVocabulary ==
  ASSUME NEW l, NEW k, NEW x
  PROVE  /\ Table!At(l, x) = At(l, x)
         /\ Table!ChangesTo(l, k) = ChangesTo(l, k)
         /\ Table!Row(Vals) = Row(Vals)
<1>1. \A y : Table!At(l, y) = At(l, y)
  BY DEF Table!At, At
<1>2. Table!Positions(l) = Positions(l)
  BY DEF Table!Positions, Positions
<1>3. \A y : Table!IsRow(l, y) <=> IsRow(l, y)
  BY <1>1 DEF Table!IsRow, IsRow
<1>4. Table!ChangesTo(l, k) = ChangesTo(l, k)
  BY <1>1, <1>2, <1>3 DEF Table!ChangesTo, ChangesTo
<1>. QED
  BY <1>1, <1>4 DEF Table!Row, Row

\* Whatever a step does, the stream stays and the table is as it was or took one
\* batch of row changes.
LEMMA RowsStep ==
  ASSUME TypeOK, IndInv, [Next]_vars
  PROVE  /\ log' = log
         /\ \/ rows' = rows
            \/ \E S \in SUBSET Positions(log) :
                 rows' = Write(log, rows, S) /\ \A x \in S : IsRow(log, x)
<1>1. ASSUME NEW a \in Appliers
      PROVE  /\ events[a] \in SUBSET Positions(log) /\ \A x \in events[a] : IsRow(log, x)
             /\ pc[a] = "isolate" /\ todo[a] # <<>> => Head(todo[a]) \subseteq events[a]
  <2>1. Holdings(a) /\ BisectionComplete(a) /\ todo[a] \in Seq(SUBSET Positions(log))
    BY DEF IndInv, TypeOK
  <2>2. todo[a] # <<>> => 1 \in DOMAIN todo[a] /\ Head(todo[a]) = todo[a][1]
    BY <2>1
  <2>. QED
    BY <2>1, <2>2 DEF Holdings, BisectionComplete, TypeOK
<1>2. ASSUME NEW a \in Appliers, Step(a) \/ Crash(a)
      PROVE  /\ log' = log
             /\ \/ rows' = rows
                \/ rows' = Write(log, rows, events[a])
                \/ /\ pc[a] = "isolate" /\ todo[a] # <<>>
                   /\ rows' = Write(log, rows, Head(todo[a]))
  <2>1. CASE Start(a) \/ Poll(a) \/ Decoded(a) \/ ApplyRejected(a)
    BY <2>1 DEF Start, Poll, Decoded, ApplyRejected, target
  <2>2. CASE DecodeFailure(a) \/ CommitPositionsOnly(a) \/ PutDeadLetters(a)
    BY <2>2 DEF DecodeFailure, CommitPositionsOnly, PutDeadLetters
  <2>3. CASE Apply(a) \/ Isolate(a)
    BY <2>3 DEF Apply, Isolate
  <2>4. CASE TransientError(a) \/ MisjudgedError(a) \/ MisjudgedCommit(a) \/ Crash(a)
    BY <2>4 DEF TransientError, MisjudgedError, MisjudgedCommit, Crash, InDoubt
  <2>. QED
    BY <1>2, <2>1, <2>2, <2>3, <2>4 DEF Step
<1>3. CASE \E a \in Appliers : Step(a) \/ Crash(a)
  <2>1. PICK a \in Appliers : Step(a) \/ Crash(a)
    BY <1>3
  <2>. QED
    BY <1>1, <1>2, <2>1
<1>4. CASE (\E x \in faulty : Heal(x)) \/ UNCHANGED vars
  BY <1>4 DEF Heal, vars, target
<1>. QED
  BY <1>3, <1>4 DEF Next

\* Taking one batch of row changes, or none, is a transaction of the versioned table.
LEMMA TransactionRefined ==
  ASSUME log \in Logs, log' = log, rows \in Tables,
         \/ rows' = rows
         \/ \E S \in SUBSET Positions(log) :
              rows' = Write(log, rows, S) /\ \A x \in S : IsRow(log, x)
  PROVE  [Table!Transaction]_<<log, [k \in Keys |-> Visible(rows[k])]>>
<1> DEFINE version == [k \in Keys |-> Visible(rows[k])]
<1>1. CASE rows' = rows
  BY <1>1
<1>2. CASE \E S \in SUBSET Positions(log) :
             rows' = Write(log, rows, S) /\ \A x \in S : IsRow(log, x)
  <2>1. PICK S \in SUBSET Positions(log) : rows' = Write(log, rows, S) /\ \A x \in S : IsRow(log, x)
    BY <1>2
  <2>2. rows' \in Tables
    BY <2>1, WriteCovers
  <2>3. version' \in [Keys -> Row(Vals) \cup {NoRow}]
    BY <2>2, VisibleTyped DEF Tables
  <2>4. ASSUME NEW k \in Keys
        PROVE  version'[k] = version[k] \/ \E x \in ChangesTo(log, k) : Table!Installs(k, x)
    <3>1. rows[k] \in Row(Vals) \cup {NoRow}
      BY DEF Tables
    <3>2. CASE rows'[k] = rows[k]
      BY <3>2
    <3>3. CASE \E w \in S : At(log, w).key = k /\ rows'[k] = WriteRow(rows[k], At(log, w))
      <4>1. PICK w \in S : At(log, w).key = k /\ rows'[k] = WriteRow(rows[k], At(log, w))
        BY <3>3
      <4>2. At(log, w) \in Message /\ At(log, w).kind \in {"upsert", "delete"} /\ w \in ChangesTo(log, k)
        BY <2>1, <4>1, PositionsTyped DEF IsRow, ChangesTo
      <4>3. \/ Visible(rows'[k]) = Visible(rows[k])
            \/ /\ Visible(rows'[k]) = Table!VersionOf(At(log, w))
               /\ Visible(rows[k]) = NoRow \/ Visible(rows[k]).lsn <= At(log, w).lsn
        BY <3>1, <4>1, <4>2, VisibleWrite
      <4>4. version[k] = Visible(rows[k]) /\ version'[k] = Visible(rows'[k])
        OBVIOUS
      <4>. QED
        BY <4>2, <4>3, <4>4, SameVocabulary DEF Table!Installs
    <3>. QED
      BY <2>1, <3>2, <3>3, WriteEffect
  <2>5. Table!Row(Vals) = Row(Vals) /\ \A k \in Keys : Table!ChangesTo(log, k) = ChangesTo(log, k)
    BY SameVocabulary
  <2>. HIDE DEF version
  <2>6. Table!Transaction
    BY <2>3, <2>4, <2>5 DEF Table!Transaction, version
  <2>. QED
    BY <2>6
<1>. QED
  BY <1>1, <1>2

\* The whole service, with any number of replicas and every crash, retry and
\* bisection, refines the versioned table: a reader of the target only ever sees a
\* row move to a change of its own that is not older (Coalesce, FencedUpsert,
\* FencedDelete).
THEOREM Refinement == Spec => ImplementsVersionedTable
<1>1. Init => Table!Init
  BY DEF Init, Table!Init, Visible
<1>2. TypeOK /\ IndInv /\ [Next]_vars
        => [Table!Transaction]_<<log, [k \in Keys |-> Visible(rows[k])]>>
  <2>. SUFFICES ASSUME TypeOK, IndInv, [Next]_vars
                PROVE  [Table!Transaction]_<<log, [k \in Keys |-> Visible(rows[k])]>>
    OBVIOUS
  <2>1. log \in Logs /\ rows \in Tables
    BY DEF TypeOK, Tables
  <2>. QED
    BY <2>1, RowsStep, TransactionRefined
<1>. QED
  BY <1>1, <1>2, Inductive, PTL DEF Spec, ImplementsVersionedTable, Table!Spec

-----------------------------------------------------------------------------
(***************************************************************************)
(* Only bad records are dead letters.                                      *)
(***************************************************************************)

\* A batch of one record the target refuses is a bad record.
LEMMA RefusedAloneIsBad ==
  ASSUME TypeOK, NEW S \in SUBSET Positions(log), Cardinality(S) = 1,
         DataError(log, faulty, S)
  PROVE  \A x \in S : Bad(x)
<1>1. IsFiniteSet(S)
  BY PositionsFinite DEF TypeOK
<1>2. PICK x : S = {x}
  BY <1>1, FS_Singleton
<1>3. PICK y \in S : y \in faulty /\ At(log, y).fault # "transient"
  BY DEF DataError, Coalesce
<1>4. y = x /\ y \in Faulty(log)
  BY <1>2, <1>3 DEF TypeOK
<1>. QED
  BY <1>2, <1>3, <1>4 DEF Faulty, Bad

\* An entry put in for a bad record, or for one set aside in an outage, keeps the
\* table free of any other.
LEMMA AppendBad ==
  ASSUME TypeOK, OnlyBadRecordsDeadLettered, log' = log, misjudged' = misjudged,
         NEW e \in Entries, dead' = Append(dead, e), Bad(e.pos) \/ e.pos \in misjudged
  PROVE  OnlyBadRecordsDeadLettered'
<1>1. dead \in Seq(Entries)
  BY DEF TypeOK, Entries
<1>2. \A i \in DOMAIN dead' : (i \in DOMAIN dead /\ dead'[i] = dead[i]) \/ dead'[i] = e
  BY <1>1
<1>. QED
  BY <1>2 DEF OnlyBadRecordsDeadLettered, Bad, At

\* No step dead-letters, or sets aside to dead-letter, a record the target accepts.
LEMMA BadStep ==
  ASSUME TypeOK, IndInv, BadInv, [Next]_vars
  PROVE  BadInv'
<1>. USE DEF BadInv
<1>1. ASSUME dead' = dead, log' = log, misjudged \subseteq misjudged', failed' = failed
      PROVE  BadInv'
  BY <1>1 DEF OnlyBadRecordsDeadLettered, FailedAreBad, Bad
<1>2. ASSUME NEW a \in Appliers, dead' = dead, log' = log, misjudged' = misjudged,
             failed' = [failed EXCEPT ![a] = {}]
      PROVE  BadInv'
  BY <1>2 DEF OnlyBadRecordsDeadLettered, FailedAreBad, Bad, TypeOK
<1>3. ASSUME NEW a \in Appliers, Start(a) \/ Poll(a) \/ Decoded(a) \/ Apply(a) \/ CommitPositionsOnly(a)
      PROVE  BadInv'
  BY <1>1, <1>3 DEF Start, Poll, Decoded, Apply, CommitPositionsOnly, target, history
<1>4. ASSUME NEW a \in Appliers,
             ApplyRejected(a) \/ TransientError(a) \/ MisjudgedCommit(a) \/ Crash(a)
      PROVE  BadInv'
  BY <1>2, <1>4, AttemptEnds DEF ApplyRejected, Crash, target, history
<1>5. ASSUME NEW a \in Appliers, DecodeFailure(a)
      PROVE  BadInv'
  <2>1. Undecodable(batch[a]) \in SUBSET Positions(log) /\ Undecodable(batch[a]) # {}
    BY <1>5 DEF DecodeFailure, Undecodable, TypeOK
  <2>2. PICK x \in Undecodable(batch[a]) : x = First(Undecodable(batch[a]))
    BY <2>1, FirstIn DEF TypeOK
  <2>3. PICK e \in Entries : e = NewEntry(x, "permanent") /\ e.pos = x
    BY <2>1, <2>2, NewEntryTyped DEF NewEntry
  <2>4. dead' = Append(dead, e) /\ log' = log /\ failed' = failed /\ misjudged' = misjudged
    BY <1>5, <2>2, <2>3 DEF DecodeFailure, history
  <2>5. OnlyBadRecordsDeadLettered'
    BY <2>2, <2>3, <2>4, AppendBad DEF Undecodable, Bad
  <2>. QED
    BY <2>4, <2>5 DEF FailedAreBad, Bad
<1>6. ASSUME NEW a \in Appliers, Isolate(a)
      PROVE  BadInv'
  <2>1. log' = log /\ dead' = dead /\ misjudged' = misjudged
    BY <1>6 DEF Isolate, history
  <2>2. CASE failed' = failed
    BY <1>1, <2>1, <2>2
  <2>3. CASE failed' # failed
    <3>1. PICK S \in SUBSET Positions(log) : S = Head(todo[a])
      BY <1>6 DEF Isolate, TypeOK
    <3>2. /\ DataError(log, faulty, S) /\ Cardinality(S) = 1
          /\ failed' = [failed EXCEPT ![a] = failed[a] \cup S]
      BY <1>6, <2>3, <3>1 DEF Isolate, Divide
    <3>3. \A x \in S : Bad(x)
      BY <3>2, RefusedAloneIsBad
    <3>. QED
      BY <2>1, <3>2, <3>3 DEF OnlyBadRecordsDeadLettered, FailedAreBad, Bad, TypeOK
  <2>. QED
    BY <2>2, <2>3
<1>10. ASSUME NEW a \in Appliers, MisjudgedError(a)
       PROVE  BadInv'
  <2>1. log' = log /\ dead' = dead
    BY <1>10 DEF MisjudgedError
  <2>2. CASE pc[a] = "apply"
    BY <1>2, <1>10, <2>1, <2>2 DEF MisjudgedError
  <2>3. CASE pc[a] = "isolate"
    <3>1. Divide(a) /\ misjudged' = misjudged \cup (failed'[a] \ failed[a])
      BY <1>10, <2>3 DEF MisjudgedError
    <3>2. \A b \in Appliers \ {a} : failed'[b] = failed[b]
      BY <3>1 DEF Divide, TypeOK
    <3>3. \A b \in Appliers : \A x \in failed'[b] : x \in failed[b] \/ x \in misjudged'
      BY <3>1, <3>2
    <3>. QED
      BY <2>1, <3>1, <3>3 DEF OnlyBadRecordsDeadLettered, FailedAreBad, Bad
  <2>. QED
    BY <1>10, <2>2, <2>3 DEF MisjudgedError
<1>7. ASSUME NEW a \in Appliers, PutDeadLetters(a)
      PROVE  BadInv'
  <2>1. failed[a] \in SUBSET Positions(log) /\ failed[a] # {}
    BY <1>7 DEF PutDeadLetters, IndInv, Holdings, TypeOK
  <2>2. PICK x \in failed[a] : x = First(failed[a])
    BY <2>1, FirstIn DEF TypeOK
  <2>3. PICK e \in Entries : dead' = Append(dead, e) /\ e.pos = x
    <3>1. PICK class : dead' = Append(dead, NewEntry(x, class))
      BY <1>7, <2>2 DEF PutDeadLetters
    <3>2. NewEntry(x, class) \in Entries /\ NewEntry(x, class).pos = x
      BY <2>1, <2>2, NewEntryTyped DEF NewEntry
    <3>. QED
      BY <3>1, <3>2
  <2>4. log' = log /\ misjudged' = misjudged /\ failed' = [failed EXCEPT ![a] = failed[a] \ {x}]
    BY <1>7, <2>2 DEF PutDeadLetters
  <2>5. OnlyBadRecordsDeadLettered'
    BY <2>2, <2>3, <2>4, AppendBad DEF FailedAreBad
  <2>. QED
    BY <2>4, <2>5 DEF FailedAreBad, Bad, TypeOK
<1>8. ASSUME NEW x \in faulty, Heal(x)
      PROVE  BadInv'
  BY <1>1, <1>8 DEF Heal, target, local, history
<1>9. CASE UNCHANGED vars
  BY <1>1, <1>9 DEF vars, target, local, history
<1>. QED
  BY <1>3, <1>4, <1>5, <1>6, <1>7, <1>8, <1>9, <1>10 DEF Next, Step

\* Bisection ends at the records the target refuses and at no other, for every batch
\* size, however often the database goes away, the batch is retried or the record is
\* healed meanwhile, unless Classify fails to recognise an outage (isolate, applier.go:181-217; decode, cdc-applier main.go:170-193).
THEOREM BisectionIsExact == Spec => []OnlyBadRecordsDeadLettered
<1>1. Init => BadInv
  BY DEF Init, BadInv, OnlyBadRecordsDeadLettered, FailedAreBad
<1>2. TypeOK /\ IndInv /\ BadInv /\ [Next]_vars => BadInv'
  BY BadStep
<1>3. BadInv => OnlyBadRecordsDeadLettered
  BY DEF BadInv
<1>. QED
  BY <1>1, <1>2, <1>3, Inductive, PTL DEF Spec

-----------------------------------------------------------------------------
(***************************************************************************)
(* The drained stream.                                                     *)
(***************************************************************************)

\* A drained stream leaves no change of an undisturbed row off the target: its
\* applier is past every record and holds none of them.
LEMMA DrainedCovers ==
  ASSUME TypeOK, IndInv, Drained, NEW k \in Keys, Undisturbed(k), NEW x \in ChangesTo(log, k)
  PROVE  Covered(log, rows, x)
<1>1. PICK a \in Appliers : TRUE
  BY ApplierAssumption
<1>2. x \in Positions(log) /\ IsRow(log, x) /\ At(log, x).key = k
  BY DEF ChangesTo
<1>3. /\ x[1] \in Partitions /\ x[2] \in Nat /\ Len(log[x[1]]) \in Nat
      /\ x[2] \in 1..Len(log[x[1]])
  BY <1>2, PositionsTyped DEF TypeOK
<1>4. \A b \in Appliers : batch[b] = {} /\ events[b] = {} /\ exposed[b] = {}
  BY DEF Drained, DrainedBy, IndInv, Holdings
<1>5. next[a][x[1]] \in Nat /\ next[a][x[1]] > Len(log[x[1]]) /\ pc[a] = "poll"
  BY <1>1, <1>3 DEF Drained, DrainedBy, TypeOK
<1>6. x[2] < next[a][x[1]]
  BY <1>3, <1>5
<1>7. Accounted(x)
  BY <1>1, <1>2, <1>4, <1>5, <1>6 DEF IndInv, ReadOrHeld
<1>8. ~InFlight(x) /\ x \notin dropped /\ ~DeadLettered(x)
  BY <1>2, <1>4 DEF InFlight, Undisturbed, DeadLettered
<1>. QED
  BY <1>2, <1>7, <1>8 DEF Accounted, Settled, IsRow

\* Every row is the effect of one of its own changes, in every reachable state.
THEOREM RowsAreChanges == Spec => []RowsFromStream(log, rows)
<1>1. Init => RowsFromStream(log, rows)
  BY DEF Init, RowsFromStream
<1>2. TypeOK /\ IndInv /\ RowsFromStream(log, rows) /\ [Next]_vars => RowsFromStream(log, rows)'
  <2>. SUFFICES ASSUME TypeOK, IndInv, RowsFromStream(log, rows), [Next]_vars
                PROVE  RowsFromStream(log', rows')
    OBVIOUS
  <2>1. log' = log /\ log \in Logs /\ rows \in Tables
    BY RowsStep DEF TypeOK, Tables
  <2>2. CASE rows' = rows
    BY <2>1, <2>2
  <2>3. CASE \E S \in SUBSET Positions(log) :
               rows' = Write(log, rows, S) /\ \A x \in S : IsRow(log, x)
    BY <2>1, <2>3, WriteFromStream
  <2>. QED
    BY <2>2, <2>3, RowsStep
<1>. QED
  BY <1>1, <1>2, Inductive, PTL DEF Spec

\* Redelivery, coalescing, bisection, retries, crashes and overlapping replicas all
\* end in the same table: once the stream is drained, a row of which no record is a
\* dead letter or was let go of shows the last change the source made to it.  That an
\* LSN identifies a change of a row is needed, not convenience: between two changes
\* with one LSN the fence lets whichever comes last stand.
THEOREM Convergence ==
  ASSUME LSNsIdentifyChanges
  PROVE  Spec => []ConvergedWhenDrained
<1>1. TypeOK /\ IndInv /\ RowsFromStream(log, rows) => ConvergedWhenDrained
  <2>. SUFFICES ASSUME TypeOK, IndInv, RowsFromStream(log, rows), Drained,
                       NEW k \in Keys, Undisturbed(k)
                PROVE  Shows(rows[k], At(log, LastChange(log, k)))
    BY DEF ConvergedWhenDrained
  <2>1. log \in Logs /\ rows \in Tables /\ ChangesTo(log, k) # {}
    BY DEF TypeOK, Tables, Undisturbed
  <2>2. \A x \in ChangesTo(log, k) : Covered(log, rows, x)
    BY DrainedCovers
  <2>. QED
    BY <2>1, <2>2, CoveredShowsLast
<1>. QED
  BY <1>1, Inductive, RowsAreChanges, PTL

-----------------------------------------------------------------------------
(***************************************************************************)
(* The appliers beside other writers of the target: what their invariant   *)
(* relies on, and what a step of theirs guarantees.                        *)
(***************************************************************************)

\* The invariant of the appliers survives whoever takes no row back and loses no
\* dead letter: neither a fenced write nor a new status of an entry unsettles a record.
LEMMA RelyKeeps ==
  ASSUME TypeOK, IndInv, log' = log, faulty' \subseteq faulty, rows' \in Tables, RowsKept,
         dead' \in Seq(Entries),
         \A i \in DOMAIN dead : i \in DOMAIN dead' /\ dead'[i].pos = dead[i].pos,
         UNCHANGED <<offsets, pc, next, batch, events, todo, failed, attempts, crashes,
                     exposed, dropped, misjudged>>
  PROVE  TypeOK' /\ IndInv'
<1>1. TypeOK'
  BY DEF TypeOK, Tables, Entries
<1>2. ASSUME NEW x \in Positions(log), Accounted(x)
      PROVE  Accounted(x)'
  <2>1. Covered(log, rows, x) => Covered(log, rows, x)'
    BY <1>1, CoveredStays
  <2>2. DeadLettered(x) => DeadLettered(x)'
    BY DEF DeadLettered
  <2>. QED
    BY <1>2, <2>1, <2>2 DEF Accounted, Settled, InFlight
<1>3. LossOnlyInKnownWindows'
  BY <1>2 DEF IndInv, LossOnlyInKnownWindows, Committed
<1>4. ASSUME NEW a \in Appliers
      PROVE  Holdings(a)' /\ ReadOrHeld(a)' /\ BisectionComplete(a)'
  <2>1. Holdings(a) /\ ReadOrHeld(a) /\ BisectionComplete(a)
    BY DEF IndInv
  <2>2. Holdings(a)'
    BY <2>1 DEF Holdings
  <2>3. ReadOrHeld(a)'
    BY <1>2, <2>1 DEF ReadOrHeld
  <2>4. \A x \in events[a] : Covered(log, rows, x) => Covered(log, rows, x)'
    BY <1>1, CoveredStays DEF TypeOK
  <2>5. BisectionComplete(a)'
    BY <2>1, <2>4 DEF BisectionComplete
  <2>. QED
    BY <2>2, <2>3, <2>5
<1>. QED
  BY <1>1, <1>3, <1>4 DEF IndInv

\* A step of the appliers leaves the stream alone, takes no row back, and at most
\* adds one first entry to the dead-letter table.
LEMMA Guarantee ==
  ASSUME TypeOK, IndInv, [Next]_vars
  PROVE  /\ log' = log /\ faulty' \subseteq faulty /\ RowsKept
         /\ \/ dead' = dead
            \/ \E e \in Entries : /\ dead' = Append(dead, e)
                                  /\ e.status \in {"pending", "quarantined"} /\ e.attempts = 1
<1>1. log' = log /\ RowsKept
  <2>1. CASE rows' = rows
    BY <2>1, RowsStep, RowsUnchangedKept
  <2>2. CASE \E S \in SUBSET Positions(log) : rows' = Write(log, rows, S)
    BY <2>2, RowsStep, WriteKept
  <2>. QED
    BY <2>1, <2>2, RowsStep
<1>2. \A x \in Positions(log) : \A class :
        /\ NewEntry(x, class) \in Entries /\ NewEntry(x, class).attempts = 1
        /\ NewEntry(x, class).status \in {"pending", "quarantined"}
  BY NewEntryTyped DEF NewEntry
<1>3. ASSUME NEW a \in Appliers, DecodeFailure(a)
      PROVE  /\ faulty' = faulty
             /\ \E x \in Positions(log) : \E class : dead' = Append(dead, NewEntry(x, class))
  <2>1. Undecodable(batch[a]) \in SUBSET Positions(log) /\ Undecodable(batch[a]) # {}
    BY <1>3 DEF DecodeFailure, Undecodable, TypeOK
  <2>2. First(Undecodable(batch[a])) \in Positions(log)
    BY <2>1, FirstIn DEF TypeOK
  <2>. QED
    BY <1>3, <2>2 DEF DecodeFailure
<1>4. ASSUME NEW a \in Appliers, PutDeadLetters(a)
      PROVE  /\ faulty' = faulty
             /\ \E x \in Positions(log) : \E class : dead' = Append(dead, NewEntry(x, class))
  <2>1. failed[a] \in SUBSET Positions(log) /\ failed[a] # {}
    BY <1>4 DEF PutDeadLetters, IndInv, Holdings, TypeOK
  <2>2. First(failed[a]) \in Positions(log)
    BY <2>1, FirstIn DEF TypeOK
  <2>. QED
    BY <1>4, <2>2 DEF PutDeadLetters
<1>5. ASSUME NEW a \in Appliers, Start(a) \/ Poll(a) \/ Decoded(a) \/ ApplyRejected(a)
      PROVE  faulty' = faulty /\ dead' = dead
  BY <1>5 DEF Start, Poll, Decoded, ApplyRejected, target
<1>6. ASSUME NEW a \in Appliers, Apply(a) \/ CommitPositionsOnly(a) \/ Isolate(a)
      PROVE  faulty' = faulty /\ dead' = dead
  BY <1>6 DEF Apply, CommitPositionsOnly, Isolate
<1>7. ASSUME NEW a \in Appliers,
             TransientError(a) \/ MisjudgedError(a) \/ MisjudgedCommit(a) \/ Crash(a)
      PROVE  faulty' = faulty /\ dead' = dead
  BY <1>7 DEF TransientError, MisjudgedError, MisjudgedCommit, Crash
<1>8. CASE (\E x \in faulty : Heal(x)) \/ UNCHANGED vars
  BY <1>1, <1>8 DEF Heal, vars, target
<1>9. ASSUME NEW a \in Appliers, Step(a) \/ Crash(a)
      PROVE  /\ faulty' = faulty
             /\ dead' = dead \/ \E x \in Positions(log) : \E class : dead' = Append(dead, NewEntry(x, class))
  BY <1>3, <1>4, <1>5, <1>6, <1>7, <1>9 DEF Step
<1>. QED
  BY <1>1, <1>2, <1>8, <1>9 DEF Next
=============================================================================
