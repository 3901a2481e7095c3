---------------------------- MODULE CutoverProofs ----------------------------
(***************************************************************************)
(* Proofs about the reconciler and the cutover gate: for any tables, limits *)
(* and interleavings a pass localises every lasting difference, the gate    *)
(* only opens on a pass that was clean and complete, and the phase machine  *)
(* is only left by a race of two requests.                                  *)
(***************************************************************************)
EXTENDS Cutover, FiniteSetTheorems, SequenceTheorems, TLAPS

Ranges == [low : Int \cup {NoBound}, high : Int \cup {NoBound}, depth : Nat]

SourceRow == [key : Keys, val : Images]
TargetRow == [deleted : BOOLEAN, val : Images]
Kinds == {"missing_in_target", "value_mismatch", "missing_in_source", "range_unresolved"}
Findings == [kind : Kinds, keys : SUBSET Keys]

Pass == [step : {"off", "range", "digest", "leaf", "rows", "record"}, table : Nat,
         stack : Seq(Ranges), rows : SUBSET SourceRow, findings : SUBSET Findings,
         total : Nat, complete : BOOLEAN, began : Nat]

State == [phase : Phases, ranAt : Nat, findings : Nat, complete : BOOLEAN,
          armed : BOOLEAN, began : Nat]

Codes ==
  {"wrong_phase", "lag_above_threshold", "lag_not_stable_long_enough", "open_dead_letters",
   "reconciliation_findings", "reconciliation_incomplete", "reconciliation_stale",
   "parts_not_loaded", "reverse_replication_not_armed"}

Evaluation == [step : {"idle", "counts", "parts", "done"}, state : State, open : Nat,
               blockers : SUBSET Codes]

Types ==
  /\ source \in [Keys -> Images \cup {Absent}]
  /\ target \in [Keys -> TargetRow \cup {NoRow}]
  /\ recon \in Pass
  /\ IsFiniteSet(recon.findings)
  /\ state \in State \cup {NoState}
  /\ now \in Nat
  /\ events \in Nat
  /\ touched \in [Keys -> Nat]
  /\ gate \in Evaluation
  /\ letters \in {0, 1}
  /\ request \in [Requests -> [from : Phases, to : Phases] \cup {NoRequest}]

-----------------------------------------------------------------------------
(***************************************************************************)
(* The inductive invariant.                                                *)
(***************************************************************************)

Descending == recon.step \in {"range", "digest", "leaf", "rows"}

\* Where a pass is.
PassShape ==
  /\ recon.step # "off" => recon.began <= events
  /\ Descending => recon.table \in DOMAIN Tables
  /\ recon.step \in {"digest", "leaf", "rows"} => recon.stack # <<>> /\ ~AtLimit

\* The source rows in hand are those of the range, as far as nobody has touched
\* them since the pass began.
RowsInHand ==
  recon.step \in {"digest", "rows"} =>
    \A k \in Keys, v \in Images :
      Since(k, recon.began) =>
        ([key |-> k, val |-> v] \in recon.rows
           <=> k \in Table /\ source[k] # Absent /\ source[k] = v
                 /\ InRange(k, Head(recon.stack)))

\* A lasting difference has been reported or is in a range still to be visited.
Covered(k) ==
  Reported(k) \/ \E i \in DOMAIN recon.stack : InRange(k, recon.stack[i])

DescentComplete ==
  Descending /\ ~AtLimit =>
    \A k \in Table : Visible(k) /\ Since(k, recon.began) => Covered(k)

\* No visible difference in this table has been there since this moment.
CleanSince(i, time) == \A k \in Tables[i] : Since(k, time) => ~Visible(k)

\* A pass without an error and a finding vouches for the tables behind it ...
PassVouches ==
  recon.step # "off" /\ recon.complete /\ recon.total = 0 =>
    \A i \in DOMAIN Tables :
      (Descending => i < recon.table) => CleanSince(i, recon.began)

PassInv == PassShape /\ RowsInHand /\ DescentComplete /\ PassVouches

\* ... and so does a row of migration_state that records such a pass.
Vouches(s) ==
  s.complete /\ s.findings = 0 =>
    /\ s.began <= events
    /\ \A i \in DOMAIN Tables : CleanSince(i, s.began)

StateVouches == state # NoState => Vouches(state)

GateVouches ==
  /\ Vouches(gate.state)
  /\ gate.step = "done" /\ gate.blockers = {} =>
       gate.state.complete /\ gate.state.findings = 0

RequestsChecked ==
  \A r \in Requests :
    request[r] = NoRequest \/ Transition(request[r].from, request[r].to)

IndInv ==
  Types /\ PassInv /\ StateVouches /\ GateVouches /\ RequestsChecked

-----------------------------------------------------------------------------
(***************************************************************************)
(* Ranges.                                                                 *)
(***************************************************************************)

\* The bisector returns an integer or gives up.
LEMMA BisectType ==
  ASSUME NEW r \in Ranges
  PROVE  Bisect(r) \in Int \cup {NoMid}
<1>1. \A n \in Int : Clamp(n) \in Int
  BY OptionsAssumption DEF Clamp
<1>2. CASE r.low = NoBound \/ r.high = NoBound
  BY <1>1, <1>2, OptionsAssumption DEF Bisect, Ranges
<1>3. CASE r.low # NoBound /\ r.high # NoBound
  <2>1. r.low \in Int /\ r.high \in Int
    BY <1>3 DEF Ranges
  <2>2. (r.low + r.high) \div 2 \in Int
    BY <2>1
  <2> QED BY <1>1, <1>3, <2>2 DEF Bisect
<1> QED BY <1>2, <1>3

\* The halves of a range are ranges, and a key of the range whose chunk column
\* is not NULL is in one of them.
LEMMA HalvesCover ==
  ASSUME NEW r \in Ranges, Bisect(r) # NoMid
  PROVE  /\ Halves(r) \in Seq(Ranges) /\ Len(Halves(r)) = 2
         /\ \A k \in Keys : InRange(k, r) /\ ColOf[k] # NullCol =>
              InRange(k, Halves(r)[1]) \/ InRange(k, Halves(r)[2])
<1>1. Bisect(r) \in Int /\ Bisect(r) # NoBound
  BY BisectType, OptionsAssumption
<1> DEFINE lower == [low |-> r.low, high |-> Bisect(r), depth |-> r.depth + 1]
           upper == [low |-> Bisect(r), high |-> r.high, depth |-> r.depth + 1]
<1>2. lower \in Ranges /\ upper \in Ranges
  BY <1>1 DEF Ranges
<1>3. Halves(r) = <<lower, upper>>
  BY DEF Halves
<1>4. Halves(r) \in Seq(Ranges) /\ Len(Halves(r)) = 2
      /\ Halves(r)[1] = lower /\ Halves(r)[2] = upper
  BY <1>2, <1>3
<1>5. ASSUME NEW k \in Keys, InRange(k, r), ColOf[k] # NullCol
      PROVE  InRange(k, lower) \/ InRange(k, upper)
  <2>1. ColOf[k] \in Int
    BY <1>5, TablesAssumption
  <2>2. ColOf[k] <= Bisect(r) \/ ColOf[k] > Bisect(r)
    BY <1>1, <2>1
  <2> QED BY <1>1, <1>5, <2>2 DEF InRange
<1> QED BY <1>4, <1>5

-----------------------------------------------------------------------------
(***************************************************************************)
(* What a step changes of the world.                                       *)
(***************************************************************************)

\* A key that was not touched after a moment before this step is not touched by
\* it: its rows are the same on both sides.
Undisturbed ==
  /\ events' \in Nat /\ events' >= events
  /\ \A k \in Keys, time \in Nat :
       time <= events /\ touched'[k] <= time =>
         Since(k, time) /\ source'[k] = source[k] /\ target'[k] = target[k]

\* No step disturbs a key it does not stamp.
LEMMA Frame ==
  ASSUME Types, [Next]_vars
  PROVE  Undisturbed
<1> USE DEF Types
<1>1. ASSUME NEW k \in Keys, NEW v \in Images \cup {Absent}, SourceChanges(k, v)
      PROVE  Undisturbed
  BY <1>1 DEF SourceChanges, Event, Undisturbed, Since
<1>2. ASSUME NEW k \in Keys, Replicate(k)
      PROVE  Undisturbed
  BY <1>2 DEF Replicate, Event, Undisturbed, Since
<1>3. CASE UNCHANGED <<source, target, touched>> /\ (UNCHANGED events \/ Event)
  BY <1>3 DEF Event, Undisturbed, Since
<1>4. CASE ReconStep
  BY <1>3, <1>4 DEF ReconStep, BeginPass, DigestSource, DigestTarget, StopAtLimit,
     ReadSourceRows, CompareRows, EndTable, RecordReconcileRun
<1>5. CASE QueryFails \/ PassLost
  BY <1>3, <1>5 DEF QueryFails, PassLost
<1>6. CASE ReadState \/ ReadCounts \/ ReadParts
  BY <1>3, <1>6 DEF ReadState, ReadCounts, ReadParts, reconVars
<1>7. ASSUME NEW r \in Requests,
             SetPhase(r) \/ \E to \in Targets : RequestPhase(r, to)
      PROVE  Undisturbed
  BY <1>3, <1>7 DEF SetPhase, RequestPhase
<1>8. CASE LettersChange \/ PartRecorded \/ Tick
  BY <1>3, <1>8 DEF LettersChange, PartRecorded, Tick
<1>9. CASE UNCHANGED vars
  BY <1>3, <1>9 DEF vars, reconVars
<1> QED BY <1>1, <1>2, <1>4, <1>5, <1>6, <1>7, <1>8, <1>9 DEF Next, ReconNext

\* What is visible of an undisturbed key stays as it is.
LEMMA StillVisible ==
  ASSUME Types, Undisturbed, NEW k \in Keys, NEW time \in Nat,
         time <= events, touched'[k] <= time
  PROVE  Since(k, time) /\ (Visible(k)' <=> Visible(k))
<1>1. Since(k, time) /\ source'[k] = source[k] /\ target'[k] = target[k]
  BY DEF Undisturbed
<1> QED BY <1>1 DEF Visible, Hidden, Mirrors, Tombstone

\* A table that was clean since some moment stays clean since that moment.
LEMMA StillClean ==
  ASSUME Types, Undisturbed, NEW i \in DOMAIN Tables, NEW time \in Nat,
         time <= events, CleanSince(i, time)
  PROVE  CleanSince(i, time)'
<1> SUFFICES ASSUME NEW k \in Tables[i], touched'[k] <= time
             PROVE  ~Visible(k)'
  BY DEF CleanSince, Since
<1>1. k \in Keys
  BY TablesAssumption
<1> QED BY <1>1, StillVisible DEF CleanSince

\* A row goes on vouching for the tables it vouches for.
LEMMA StillVouches ==
  ASSUME Types, Undisturbed, NEW s \in State, Vouches(s)
  PROVE  Vouches(s)'
<1> SUFFICES ASSUME s.complete, s.findings = 0
             PROVE  /\ s.began <= events'
                    /\ \A i \in DOMAIN Tables : CleanSince(i, s.began)'
  BY DEF Vouches
<1>1. s.began \in Nat /\ s.began <= events /\ \A i \in DOMAIN Tables : CleanSince(i, s.began)
  BY DEF Vouches, State
<1>2. s.began <= events'
  BY <1>1 DEF Undisturbed, Types
<1> QED BY <1>1, <1>2, StillClean

-----------------------------------------------------------------------------
(***************************************************************************)
(* Findings.                                                               *)
(***************************************************************************)

\* The findings of one kind about one key each are finitely many.
Singles(kind) == {Finding(kind, {k}) : k \in Keys}

\* ... and are findings.
LEMMA SinglesFinite ==
  ASSUME NEW kind \in Kinds
  PROVE  IsFiniteSet(Singles(kind)) /\ Singles(kind) \subseteq Findings
<1> DEFINE f == [k \in Keys |-> Finding(kind, {k})]
<1>1. f \in Surjection(Keys, Singles(kind))
  BY DEF Surjection, Singles
<1>2. IsFiniteSet(Keys)
  BY TablesAssumption
<1> HIDE DEF f
<1>3. IsFiniteSet(Singles(kind))
  BY <1>1, <1>2, FS_Surjection
<1>4. Singles(kind) \subseteq Findings
  BY DEF Singles, Finding, Findings
<1> QED BY <1>3, <1>4

\* Both loops of compareRows find finitely many.
LEMMA ComparedFinite ==
  ASSUME NEW src \in SUBSET SourceRow, NEW tgt \in SUBSET SourceRow
  PROVE  /\ IsFiniteSet(OnSource(src, tgt)) /\ OnSource(src, tgt) \subseteq Findings
         /\ IsFiniteSet(OnTarget(src, tgt)) /\ OnTarget(src, tgt) \subseteq Findings
<1> DEFINE both == Singles("missing_in_target") \cup Singles("value_mismatch")
<1>0. /\ "missing_in_target" \in Kinds /\ "value_mismatch" \in Kinds
      /\ "missing_in_source" \in Kinds
  BY DEF Kinds
<1>1. IsFiniteSet(both) /\ both \subseteq Findings
  <2>1. /\ IsFiniteSet(Singles("missing_in_target"))
        /\ Singles("missing_in_target") \subseteq Findings
    BY <1>0, SinglesFinite, Zenon
  <2>2. /\ IsFiniteSet(Singles("value_mismatch"))
        /\ Singles("value_mismatch") \subseteq Findings
    BY <1>0, SinglesFinite, Zenon
  <2> QED BY <2>1, <2>2, FS_Union
<1>2. OnSource(src, tgt) \subseteq both
  BY DEF OnSource, Singles, KeysOf, SourceRow
<1>3. OnTarget(src, tgt) \subseteq Singles("missing_in_source")
  BY DEF OnTarget, Singles, KeysOf, SourceRow
<1> HIDE DEF both
<1>4. IsFiniteSet(OnSource(src, tgt)) /\ OnSource(src, tgt) \subseteq Findings
  BY <1>1, <1>2, FS_Subset
<1>5. IsFiniteSet(Singles("missing_in_source"))
      /\ Singles("missing_in_source") \subseteq Findings
  BY <1>0, SinglesFinite, Zenon
<1>6. IsFiniteSet(OnTarget(src, tgt)) /\ OnTarget(src, tgt) \subseteq Findings
  BY <1>3, <1>5, FS_Subset
<1> QED BY <1>4, <1>6

\* A loop only adds findings, and below the limit it adds all there are.
LEMMA Appended ==
  ASSUME NEW found \in SUBSET Findings, IsFiniteSet(found),
         NEW new \in SUBSET Findings, IsFiniteSet(new),
         NEW all \in UpToLimit(found, new)
  PROVE  /\ all \in SUBSET Findings /\ IsFiniteSet(all) /\ found \subseteq all
         /\ Cardinality(all) < MaxFindings =>
              all = found \cup new /\ Cardinality(found) < MaxFindings
<1>1. PICK some \in SUBSET new : all = found \cup some
  BY DEF UpToLimit
<1>2. IsFiniteSet(all)
  BY <1>1, FS_Subset, FS_Union
<1>3. Cardinality(all) \in Nat /\ Cardinality(found) \in Nat
      /\ Cardinality(found) <= Cardinality(all)
  BY <1>1, <1>2, FS_CardinalityType, FS_Subset
<1>4. all = found \cup new \/ Cardinality(all) = MaxFindings
  BY DEF UpToLimit
<1> QED BY <1>1, <1>2, <1>3, <1>4, OptionsAssumption

-----------------------------------------------------------------------------
(***************************************************************************)
(* The queries.                                                            *)
(***************************************************************************)

\* What the queries return.
LEMMA QueriesType ==
  ASSUME Types, NEW r
  PROVE  SourceRows(r) \subseteq SourceRow /\ TargetDigest(r) \subseteq SourceRow
         /\ TargetRows(r) \subseteq SourceRow /\ Table \subseteq Keys
<1>1. Table \subseteq Keys
  BY TablesAssumption DEF Table
<1>2. SourceRows(r) \subseteq SourceRow
  BY <1>1 DEF SourceRows, SourceRow, Types
<1>3. TargetDigest(r) \subseteq SourceRow
  BY <1>1 DEF TargetDigest, SourceRow, TargetRow, Types
<1>4. TargetRows(r) \subseteq SourceRow
  BY <1>1 DEF TargetRows, SourceRow, TargetRow, Types
<1> QED BY <1>1, <1>2, <1>3, <1>4

-----------------------------------------------------------------------------
(***************************************************************************)
(* Steps that leave the pass alone, and steps within one table.            *)
(***************************************************************************)

\* A change of either database, or of anything else, between two queries of a
\* pass breaks nothing the pass relies on.
LEMMA KeepsPass ==
  ASSUME Types, PassInv, Undisturbed, recon' = recon
  PROVE  PassInv'
<1>1. recon.began \in Nat /\ (recon.step # "off" => recon.began <= events)
  BY DEF Types, Pass, PassInv, PassShape
<1>2. PassShape'
  BY <1>1 DEF PassInv, PassShape, Descending, AtLimit, Undisturbed, Types
<1>3. RowsInHand'
  <2> SUFFICES ASSUME recon.step \in {"digest", "rows"}, NEW k \in Keys, NEW v \in Images,
                      touched'[k] <= recon.began
               PROVE  [key |-> k, val |-> v] \in recon.rows
                        <=> k \in Table' /\ source'[k] # Absent /\ source'[k] = v
                              /\ InRange(k, Head(recon.stack))
    BY DEF RowsInHand, Since, InRange
  <2>1. Since(k, recon.began) /\ source'[k] = source[k]
    BY <1>1 DEF Undisturbed
  <2> QED BY <2>1 DEF PassInv, RowsInHand, Table
<1>4. DescentComplete'
  <2> SUFFICES ASSUME Descending, ~AtLimit, NEW k \in Table, Visible(k)',
                      touched'[k] <= recon.began
               PROVE  Covered(k)
    BY DEF DescentComplete, Descending, AtLimit, Table, Since, Covered, Reported, InRange
  <2>1. k \in Keys
    BY TablesAssumption DEF Table
  <2>2. recon.began <= events
    BY <1>1 DEF Descending
  <2>3. Since(k, recon.began) /\ Visible(k)
    BY <1>1, <2>1, <2>2, StillVisible
  <2> QED BY <2>3 DEF PassInv, DescentComplete
<1>5. PassVouches'
  <2> SUFFICES ASSUME recon.step # "off", recon.complete, recon.total = 0,
                      NEW i \in DOMAIN Tables, Descending => i < recon.table
               PROVE  CleanSince(i, recon.began)'
    BY DEF PassVouches, Descending
  <2>1. CleanSince(i, recon.began)
    BY DEF PassInv, PassVouches
  <2> QED BY <1>1, <2>1, StillClean
<1> QED BY <1>2, <1>3, <1>4, <1>5 DEF PassInv

\* A step that stays in its table leaves what is known of the tables before it.
LEMMA SameTable ==
  ASSUME Types, PassInv, Undisturbed, Descending, Descending',
         recon'.table = recon.table, recon'.began = recon.began,
         recon'.total = recon.total, recon'.complete = recon.complete
  PROVE  PassVouches'
<1> SUFFICES ASSUME recon.complete, recon.total = 0,
                    NEW i \in DOMAIN Tables, i < recon.table
             PROVE  CleanSince(i, recon.began)'
  BY DEF PassVouches
<1>1. CleanSince(i, recon.began)
  BY DEF PassInv, PassVouches, Descending
<1>2. recon.began \in Nat /\ recon.began <= events
  BY DEF PassInv, PassShape, Descending, Types, Pass
<1> QED BY <1>1, <1>2, StillClean

\* What a step leaves of the pass is well-formed.
PassType == recon \in Pass /\ IsFiniteSet(recon.findings)

\* A step that enters the next table, or ends the pass after the last one, with
\* the tables behind it vouched for.
LEMMA Entered ==
  ASSUME Types, Undisturbed, NEW p \in Pass, NEW t \in 1 .. Len(Tables) + 1,
         p.began <= events, recon' = Enter(p, t),
         p.complete /\ p.total = 0 =>
           \A i \in DOMAIN Tables : i < t => CleanSince(i, p.began)
  PROVE  PassType' /\ PassInv'
<1> DEFINE full == <<FullRange>>
           none == <<>>
<1>1. FullRange \in Ranges /\ \A k \in Keys : InRange(k, FullRange)
  BY DEF FullRange, Ranges, InRange
<1>2. full \in Seq(Ranges) /\ DOMAIN full = {1} /\ full[1] = FullRange
  BY <1>1
<1>2a. none \in Seq(Ranges)
  OBVIOUS
<1> HIDE DEF full, none
<1>3. DOMAIN Tables = 1 .. Len(Tables) /\ Len(Tables) \in Nat
  BY TablesAssumption
<1>4. /\ recon'.began = p.began /\ recon'.complete = p.complete /\ recon'.total = p.total
      /\ recon'.findings = {}
      /\ \/ /\ t \in DOMAIN Tables /\ recon'.step = "range" /\ recon'.table = t
            /\ recon'.stack = full
         \/ /\ t = Len(Tables) + 1 /\ recon'.step = "record"
      /\ recon' \in Pass
  <2>0. t \in Nat
    BY <1>3
  <2>1. CASE t \in DOMAIN Tables
    <3>1. recon' = [p EXCEPT !.step = "range", !.table = t, !.stack = full,
                             !.rows = {}, !.findings = {}]
      BY <2>1 DEF Enter, full
    <3> QED BY <1>2, <2>0, <2>1, <3>1 DEF Pass
  <2>2. CASE t \notin DOMAIN Tables
    <3>1. t = Len(Tables) + 1
      BY <1>3, <2>2
    <3>2. recon' = [p EXCEPT !.step = "record", !.table = 0, !.stack = none,
                             !.rows = {}, !.findings = {}]
      BY <2>2 DEF Enter, none
    <3>3. recon'.step = "record" /\ recon'.findings = {}
      BY <3>2 DEF Pass
    <3>3a. recon' \in Pass
      <4> DEFINE nowhere == 0
      <4>1. nowhere \in Nat
        OBVIOUS
      <4> HIDE DEF nowhere
      <4>2. recon' = [p EXCEPT !.step = "record", !.table = nowhere, !.stack = none,
                             !.rows = {}, !.findings = {}]
        BY <3>2 DEF nowhere
      <4> QED BY <1>2a, <4>1, <4>2 DEF Pass
    <3>4. recon'.began = p.began /\ recon'.complete = p.complete /\ recon'.total = p.total
      BY <3>2 DEF Pass
    <3> QED BY <3>1, <3>3, <3>3a, <3>4
  <2> QED BY <2>1, <2>2
<1>5. PassType'
  BY <1>4, FS_EmptySet DEF PassType
<1>6. p.began \in Nat /\ events \in Nat /\ events' \in Nat /\ p.began <= events'
  BY DEF Pass, Types, Undisturbed
<1>7. PassShape'
  BY <1>4, <1>6 DEF PassShape, Descending
<1>8. RowsInHand'
  BY <1>4 DEF RowsInHand
<1>9. DescentComplete'
  <2> SUFFICES ASSUME Descending', NEW k \in Table'
               PROVE  Covered(k)'
    BY DEF DescentComplete
  <2>1. k \in Keys
    BY TablesAssumption DEF Table
  <2>2. recon'.stack = full
    BY <1>4 DEF Descending
  <2>3. InRange(k, recon'.stack[1])
    BY <1>1, <1>2, <2>1, <2>2
  <2> QED BY <1>2, <2>2, <2>3 DEF Covered, InRange
<1>10. PassVouches'
  <2> SUFFICES ASSUME p.complete, p.total = 0, NEW i \in DOMAIN Tables,
                      Descending' => i < recon'.table
               PROVE  CleanSince(i, recon.began)'
    BY <1>4 DEF PassVouches
  <2>1. i < t
    BY <1>3, <1>4 DEF Descending
  <2>2. CleanSince(i, p.began)
    BY <2>1
  <2> QED BY <1>4, <1>6, <2>2, StillClean
<1> QED BY <1>5, <1>7, <1>8, <1>9, <1>10 DEF PassInv

\* A pass begins with nothing vouched for.
LEMMA PassBegins ==
  ASSUME Types, Undisturbed, BeginPass
  PROVE  PassType' /\ PassInv'
<1> DEFINE p == [Off EXCEPT !.began = events]
<1>1. p \in Pass /\ p.began = events
  <2>1. <<>> \in Seq(Ranges) /\ events \in Nat
    BY DEF Types
  <2> QED BY <2>1 DEF Off, Pass
<1>2. recon' = Enter(p, 1)
  BY DEF BeginPass
<1>3. 1 \in 1 .. Len(Tables) + 1 /\ \A i \in DOMAIN Tables : ~(i < 1)
  BY TablesAssumption
<1> HIDE DEF p
<1>4. p.began <= events
  BY <1>1 DEF Types
<1> QED BY <1>1, <1>2, <1>3, <1>4, Entered

\* A table whose descent ends without a finding is clean since the pass began.
LEMMA TableEnds ==
  ASSUME Types, PassInv, Undisturbed, EndTable
  PROVE  PassType' /\ PassInv'
<1> DEFINE n == Cardinality(recon.findings)
           p == [recon EXCEPT !.total = @ + n]
           t == recon.table + 1
<1>1. n \in Nat /\ (n = 0 <=> recon.findings = {})
  BY FS_CardinalityType, FS_EmptySet DEF Types
<1>2. /\ p \in Pass /\ p.began = recon.began /\ p.complete = recon.complete
      /\ p.total = recon.total + n /\ recon.total \in Nat
  <2> HIDE DEF n
  <2>1. recon \in Pass
    BY DEF Types
  <2>2. recon.total \in Nat /\ recon.total + n \in Nat
    BY <1>1, <2>1 DEF Pass
  <2>3. p = [recon EXCEPT !.total = recon.total + n]
    BY <2>1 DEF Pass
  <2> QED BY <2>1, <2>2, <2>3 DEF Pass
<1>3. Descending /\ recon.table \in DOMAIN Tables /\ recon.began <= events
  BY DEF EndTable, PassInv, PassShape, Descending
<1>4. t \in 1 .. Len(Tables) + 1 /\ DOMAIN Tables = 1 .. Len(Tables)
  BY <1>3, TablesAssumption
<1>5. recon' = Enter(p, t)
  BY DEF EndTable
<1>6. ASSUME p.complete, p.total = 0, NEW i \in DOMAIN Tables, i < t
      PROVE  CleanSince(i, p.began)
  <2>1. recon.total = 0 /\ n = 0
    BY <1>1, <1>2, <1>6
  <2>2. CASE i < recon.table
    BY <1>2, <1>3, <1>6, <2>1, <2>2 DEF PassInv, PassVouches, Descending
  <2>3. CASE i = recon.table
    <3>1. Table = Tables[i] /\ ~AtLimit
      BY <1>3, <2>1, <2>3, OptionsAssumption DEF Table, AtLimit
    <3>2. \A k \in Table : ~Covered(k)
      BY <1>1, <2>1 DEF Covered, Reported, EndTable
    <3> QED BY <1>2, <1>3, <3>1, <3>2 DEF CleanSince, PassInv, DescentComplete
  <2> QED BY <1>3, <1>4, <1>6, <2>2, <2>3
<1> HIDE DEF n, p, t
<1> QED BY <1>2, <1>3, <1>4, <1>5, <1>6, Entered

\* A table that failed makes the pass incomplete, and it vouches for nothing.
LEMMA TableFails ==
  ASSUME Types, PassInv, Undisturbed, QueryFails
  PROVE  PassType' /\ PassInv'
<1> DEFINE p == [recon EXCEPT !.complete = FALSE]
           t == recon.table + 1
<1>1. p \in Pass /\ p.began = recon.began /\ p.complete = FALSE
  BY DEF Types, Pass
<1>2. recon.table \in DOMAIN Tables /\ recon.began <= events
  BY DEF QueryFails, PassInv, PassShape, Descending
<1>3. t \in 1 .. Len(Tables) + 1
  BY <1>2, TablesAssumption
<1>4. recon' = Enter(p, t)
  BY DEF QueryFails
<1> HIDE DEF p, t
<1> QED BY <1>1, <1>2, <1>3, <1>4, Entered

-----------------------------------------------------------------------------
(***************************************************************************)
(* The descent.                                                            *)
(***************************************************************************)

\* The range being visited and the ones after it.
LEMMA StackParts ==
  ASSUME NEW stack \in Seq(Ranges), stack # <<>>
  PROVE  /\ Head(stack) \in Ranges /\ Tail(stack) \in Seq(Ranges)
         /\ \A k : (\E i \in DOMAIN stack : InRange(k, stack[i])) =>
              InRange(k, Head(stack))
                \/ \E i \in DOMAIN Tail(stack) : InRange(k, Tail(stack)[i])
<1>1. /\ Len(stack) \in Nat \ {0} /\ DOMAIN stack = 1 .. Len(stack)
      /\ Head(stack) = stack[1] /\ stack[1] \in Ranges
  OBVIOUS
<1>2. /\ Tail(stack) \in Seq(Ranges) /\ DOMAIN Tail(stack) = 1 .. Len(stack) - 1
      /\ \A j \in 1 .. Len(stack) - 1 : Tail(stack)[j] = stack[j + 1]
  BY <1>1
<1>3. ASSUME NEW k, NEW i \in DOMAIN stack, InRange(k, stack[i]), i # 1
      PROVE  \E j \in DOMAIN Tail(stack) : InRange(k, Tail(stack)[j])
  <2>1. i - 1 \in 1 .. Len(stack) - 1 /\ (i - 1) + 1 = i
    BY <1>1, <1>3
  <2>2. Tail(stack)[i - 1] = stack[i]
    BY <1>2, <2>1
  <2> QED BY <1>2, <1>3, <2>1, <2>2
<1> QED BY <1>1, <1>2, <1>3

\* The stack after a split.
LEMMA SplitStack ==
  ASSUME NEW r \in Ranges, Bisect(r) # NoMid, NEW rest \in Seq(Ranges)
  PROVE  /\ Halves(r) \o rest \in Seq(Ranges) /\ Halves(r) \o rest # <<>>
         /\ \A k \in Keys :
              \/ InRange(k, r) /\ ColOf[k] # NullCol
              \/ \E i \in DOMAIN rest : InRange(k, rest[i])
              => \E i \in DOMAIN (Halves(r) \o rest) : InRange(k, (Halves(r) \o rest)[i])
<1> DEFINE h == Halves(r)
           all == h \o rest
<1>1. /\ h \in Seq(Ranges) /\ Len(h) = 2
      /\ \A k \in Keys : InRange(k, r) /\ ColOf[k] # NullCol =>
              InRange(k, h[1]) \/ InRange(k, h[2])
  BY HalvesCover
<1> HIDE DEF h
<1>2. /\ all \in Seq(Ranges) /\ Len(rest) \in Nat /\ DOMAIN rest = 1 .. Len(rest)
      /\ Len(all) = 2 + Len(rest) /\ DOMAIN all = 1 .. 2 + Len(rest)
      /\ all[1] = h[1] /\ all[2] = h[2]
      /\ \A j \in 1 .. Len(rest) : all[j + 2] = rest[j]
  <2>1. Len(rest) \in Nat /\ DOMAIN rest = 1 .. Len(rest)
    OBVIOUS
  <2>2. all \in Seq(Ranges) /\ Len(all) = Len(h) + Len(rest)
    BY <1>1, ConcatProperties
  <2>4. \A j \in 1 .. Len(h) + Len(rest) :
          all[j] = IF j <= Len(h) THEN h[j] ELSE rest[j - Len(h)]
    BY <1>1, ConcatProperties
  <2> HIDE DEF all
  <2>3. DOMAIN all = 1 .. 2 + Len(rest)
    BY <1>1, <2>1, <2>2
  <2>5. all[1] = h[1] /\ all[2] = h[2]
    BY <1>1, <2>1, <2>4
  <2>6. ASSUME NEW j \in 1 .. Len(rest)
        PROVE  all[j + 2] = rest[j]
    <3>1. j + 2 \in 1 .. 2 + Len(rest) /\ ~(j + 2 <= 2) /\ (j + 2) - 2 = j
      BY <2>1
    <3> QED BY <1>1, <2>1, <2>4, <3>1
  <2> QED BY <1>1, <2>1, <2>2, <2>3, <2>5, <2>6
<1> HIDE DEF all
<1>3. all # <<>> /\ 1 \in DOMAIN all /\ 2 \in DOMAIN all
  BY <1>2
<1>4. ASSUME NEW k \in Keys, NEW j \in DOMAIN rest, InRange(k, rest[j])
      PROVE  \E i \in DOMAIN all : InRange(k, all[i])
  <2>1. j + 2 \in DOMAIN all /\ all[j + 2] = rest[j]
    BY <1>2
  <2> QED BY <1>4, <2>1
<1>5. \A k \in Keys : InRange(k, r) /\ ColOf[k] # NullCol =>
        \E i \in DOMAIN all : InRange(k, all[i])
  BY <1>1, <1>2, <1>3
<1> QED BY <1>2, <1>3, <1>4, <1>5 DEF all, h

\* The source's answer is what the source holds of the range.
LEMMA SourceAnswers ==
  ASSUME Types, NEW r, NEW k \in Keys, NEW v \in Images
  PROVE  [key |-> k, val |-> v] \in SourceRows(r)
           <=> k \in Table /\ source[k] # Absent /\ source[k] = v /\ InRange(k, r)
BY DEF SourceRows

\* A query of the source, first for the digest and then for the rows, puts the
\* rows of the range in hand.
LEMMA SourceRead ==
  ASSUME Types, PassInv, Undisturbed, DigestSource \/ ReadSourceRows
  PROVE  PassType' /\ PassInv'
<1> DEFINE rows == SourceRows(Head(recon.stack))
<1>0. rows \in SUBSET SourceRow
  BY QueriesType
<1>1. /\ Descending /\ ~AtLimit /\ recon.stack # <<>>
      /\ UNCHANGED <<source, target, events, touched>>
  BY DEF DigestSource, ReadSourceRows, Descending, PassInv, PassShape
<1>2. PICK step \in {"digest", "rows"} :
        recon' = [recon EXCEPT !.step = step, !.rows = rows]
  BY DEF DigestSource, ReadSourceRows
<1> HIDE DEF rows
<1>3. recon \in Pass /\ IsFiniteSet(recon.findings)
  BY DEF Types
<1>4. recon' \in Pass
  BY <1>0, <1>2, <1>3 DEF Pass
<1>5. /\ recon'.step = step /\ recon'.rows = rows /\ recon'.table = recon.table
      /\ recon'.stack = recon.stack /\ recon'.findings = recon.findings
      /\ recon'.total = recon.total /\ recon'.complete = recon.complete
      /\ recon'.began = recon.began
  BY <1>2, <1>3 DEF Pass
<1>6. PassType' /\ Descending' /\ Table' = Table /\ (AtLimit' <=> AtLimit)
  BY <1>3, <1>4, <1>5 DEF PassType, Descending, Table, AtLimit
<1>7. PassShape'
  BY <1>1, <1>5, <1>6 DEF PassShape, PassInv, Descending
<1>8. RowsInHand'
  <2>1. ASSUME NEW k \in Keys, NEW v \in Images
        PROVE  [key |-> k, val |-> v] \in rows
           <=> k \in Table /\ source[k] # Absent /\ source[k] = v
                 /\ InRange(k, Head(recon.stack))
    BY SourceAnswers, Zenon DEF rows
  <2> QED BY <1>1, <1>5, <1>6, <2>1 DEF RowsInHand, InRange
<1>9. DescentComplete'
  <2> SUFFICES ASSUME NEW k \in Table, Visible(k), Since(k, recon.began)
               PROVE  Covered(k)'
    BY <1>1, <1>5, <1>6 DEF DescentComplete, Visible, Hidden, Mirrors, Tombstone, Since
  <2>1. Covered(k)
    BY <1>1 DEF PassInv, DescentComplete
  <2> QED BY <2>1, <1>5 DEF Covered, Reported, InRange
<1>10. PassVouches'
  BY <1>1, <1>5, <1>6, SameTable
<1> QED BY <1>6, <1>7, <1>8, <1>9, <1>10 DEF PassInv

\* A visit of a range that ends: a lasting difference in it is among the findings,
\* unless they were cut off, and one elsewhere is still covered.
LEMMA Returned ==
  ASSUME Types, PassInv, Undisturbed, UNCHANGED <<source, target, events, touched>>,
         recon.step \in {"digest", "rows"},
         NEW found \in SUBSET Findings, IsFiniteSet(found), recon.findings \subseteq found,
         recon' = [recon EXCEPT !.step = "range", !.stack = Tail(recon.stack), !.rows = {},
                                !.findings = found],
         Cardinality(found) < MaxFindings =>
           \A k \in Table : Visible(k) /\ Since(k, recon.began)
                              /\ InRange(k, Head(recon.stack)) => \E f \in found : k \in f.keys
  PROVE  PassType' /\ PassInv'
<1>1. /\ Descending /\ ~AtLimit /\ recon.stack # <<>> /\ recon.table \in DOMAIN Tables
      /\ recon.began <= events
  BY DEF Descending, PassInv, PassShape
<1>2. recon \in Pass /\ recon.stack \in Seq(Ranges)
  BY DEF Types, Pass
<1> DEFINE rest == Tail(recon.stack)
<1>3. /\ rest \in Seq(Ranges)
      /\ \A k : (\E i \in DOMAIN recon.stack : InRange(k, recon.stack[i])) =>
              InRange(k, Head(recon.stack)) \/ \E i \in DOMAIN rest : InRange(k, rest[i])
  BY <1>1, <1>2, StackParts, Zenon
<1> HIDE DEF rest
<1>4. recon' = [recon EXCEPT !.step = "range", !.stack = rest, !.rows = {},
                             !.findings = found]
  BY DEF rest
<1>5. recon' \in Pass
  BY <1>2, <1>3, <1>4 DEF Pass
<1>6. /\ recon'.step = "range" /\ recon'.stack = rest /\ recon'.findings = found
      /\ recon'.table = recon.table /\ recon'.total = recon.total
      /\ recon'.complete = recon.complete /\ recon'.began = recon.began
  BY <1>2, <1>4 DEF Pass
<1>7. PassType' /\ Descending' /\ Table' = Table
  BY <1>5, <1>6 DEF PassType, Descending, Table
<1>8. PassShape' /\ RowsInHand'
  BY <1>1, <1>6 DEF PassShape, RowsInHand, Descending
<1>9. DescentComplete'
  <2> SUFFICES ASSUME ~AtLimit', NEW k \in Table, Visible(k), Since(k, recon.began)
               PROVE  Covered(k)'
    BY <1>6, <1>7 DEF DescentComplete, Visible, Hidden, Mirrors, Tombstone, Since
  <2>1. Cardinality(found) < MaxFindings
    BY <1>6, FS_CardinalityType, OptionsAssumption DEF AtLimit
  <2>2. Covered(k)
    BY <1>1 DEF PassInv, DescentComplete
  <2>3. CASE Reported(k)
    BY <1>6, <2>3 DEF Covered, Reported
  <2>4. CASE InRange(k, Head(recon.stack))
    BY <1>6, <2>1, <2>4 DEF Covered, Reported
  <2>5. CASE \E i \in DOMAIN rest : InRange(k, rest[i])
    BY <1>6, <2>5 DEF Covered, InRange
  <2> QED BY <1>3, <2>2, <2>3, <2>4, <2>5 DEF Covered
<1>10. PassVouches'
  BY <1>1, <1>6, <1>7, SameTable
<1> QED BY <1>7, <1>8, <1>9, <1>10 DEF PassInv

\* When the two digests agree, a row nobody touched since the pass began is the
\* same on both sides: the source's rows in hand are still its own.
LEMMA EqualDigests ==
  ASSUME Types, PassInv, recon.step = "digest",
         recon.rows = TargetDigest(Head(recon.stack)),
         NEW k \in Table, Since(k, recon.began), InRange(k, Head(recon.stack))
  PROVE  Mirrors(k)
<1> DEFINE r == Head(recon.stack)
<1>1. k \in Keys
  BY TablesAssumption DEF Table
<1>2. \A v \in Images : [key |-> k, val |-> v] \in recon.rows
                          <=> source[k] # Absent /\ source[k] = v
  BY <1>1 DEF PassInv, RowsInHand
<1>3. \A v \in Images : [key |-> k, val |-> v] \in TargetDigest(r)
                          <=> target[k] # NoRow /\ ~target[k].deleted /\ target[k].val = v
  BY <1>1 DEF TargetDigest
<1>4. source[k] \in Images \cup {Absent} /\ target[k] \in TargetRow \cup {NoRow}
  BY <1>1 DEF Types
<1>5. target[k] # NoRow => target[k].val \in Images
  BY <1>4 DEF TargetRow
<1> HIDE DEF r
<1>6. \A v \in Images : source[k] # Absent /\ source[k] = v
                          <=> target[k] # NoRow /\ ~target[k].deleted /\ target[k].val = v
  BY <1>2, <1>3 DEF r
<1> QED BY <1>4, <1>5, <1>6 DEF Mirrors

\* A range that is compared by its digests.
LEMMA TargetDigested ==
  ASSUME Types, PassInv, Undisturbed, DigestTarget
  PROVE  PassType' /\ PassInv'
<1> DEFINE r   == Head(recon.stack)
           tgt == TargetDigest(r)
<1>1. /\ recon.step = "digest" /\ UNCHANGED <<source, target, events, touched>>
      /\ recon' = Descended(recon.rows, tgt, r)
  BY DEF DigestTarget
<1>2. /\ Descending /\ ~AtLimit /\ recon.stack # <<>> /\ recon.table \in DOMAIN Tables
      /\ recon.began <= events
  BY <1>1 DEF Descending, PassInv, PassShape
<1>3. /\ recon \in Pass /\ recon.stack \in Seq(Ranges) /\ recon.findings \subseteq Findings
      /\ IsFiniteSet(recon.findings)
  BY DEF Types, Pass
<1>4. /\ r \in Ranges /\ Tail(recon.stack) \in Seq(Ranges)
      /\ \A k : (\E i \in DOMAIN recon.stack : InRange(k, recon.stack[i])) =>
              InRange(k, r) \/ \E i \in DOMAIN Tail(recon.stack) :
                                 InRange(k, Tail(recon.stack)[i])
  BY <1>2, <1>3, StackParts, Zenon
<1>5. CASE recon.rows = tgt
  <2>1. recon' = [recon EXCEPT !.step = "range", !.stack = Tail(recon.stack), !.rows = {},
                               !.findings = recon.findings]
    BY <1>1, <1>3, <1>5 DEF Descended, Return, Pass
  <2>2. \A k \in Table : Since(k, recon.began) /\ InRange(k, r) => ~Visible(k)
    BY <1>1, <1>5, EqualDigests DEF Visible
  <2> QED BY <1>1, <1>3, <2>1, <2>2, Returned
<1>6. CASE recon.rows # tgt /\ ~IsLeaf(recon.rows, tgt, r)
  <2> DEFINE split == Halves(r) \o Tail(recon.stack)
  <2>1. recon' = [recon EXCEPT !.step = "range", !.rows = {}, !.stack = split]
    BY <1>1, <1>3, <1>6 DEF Descended, Pass
  <2>2. /\ split \in Seq(Ranges)
        /\ \A k \in Keys :
              \/ InRange(k, r) /\ ColOf[k] # NullCol
              \/ \E i \in DOMAIN Tail(recon.stack) : InRange(k, Tail(recon.stack)[i])
              => \E i \in DOMAIN split : InRange(k, split[i])
    <3>1. Bisect(r) # NoMid
      BY <1>6 DEF IsLeaf
    <3> HIDE DEF r
    <3> QED BY <1>4, <3>1, SplitStack, Zenon
  <2> HIDE DEF split, r
  <2>3. recon' \in Pass
    BY <1>3, <2>1, <2>2 DEF Pass
  <2>4. /\ recon'.step = "range" /\ recon'.stack = split
        /\ recon'.findings = recon.findings
        /\ recon'.table = recon.table /\ recon'.total = recon.total
        /\ recon'.complete = recon.complete /\ recon'.began = recon.began
    BY <1>3, <2>1 DEF Pass
  <2>5. PassType' /\ Descending' /\ Table' = Table
    BY <1>3, <2>3, <2>4 DEF PassType, Descending, Table
  <2>6. PassShape' /\ RowsInHand'
    BY <1>1, <1>2, <2>4 DEF PassShape, RowsInHand, Descending
  <2>7. DescentComplete'
    <3> SUFFICES ASSUME NEW k \in Table, Visible(k), Since(k, recon.began)
                 PROVE  Covered(k)'
      BY <1>1, <2>4, <2>5 DEF DescentComplete, Visible, Hidden, Mirrors, Tombstone, Since
    <3>1. k \in Keys /\ ColOf[k] # NullCol
      BY TablesAssumption DEF Table, Visible
    <3>2. Covered(k)
      BY <1>2 DEF PassInv, DescentComplete
    <3>3. CASE Reported(k)
      BY <2>4, <3>3 DEF Covered, Reported
    <3>4. CASE \E i \in DOMAIN recon.stack : InRange(k, recon.stack[i])
      <4>1. \E i \in DOMAIN split : InRange(k, split[i])
        BY <1>4, <2>2, <3>1, <3>4
      <4> QED BY <2>4, <4>1 DEF Covered, InRange
    <3> QED BY <3>2, <3>3, <3>4 DEF Covered
  <2>8. PassVouches'
    BY <1>2, <2>4, <2>5, SameTable
  <2> QED BY <2>5, <2>6, <2>7, <2>8 DEF PassInv
<1>7. CASE recon.rows # tgt /\ IsLeaf(recon.rows, tgt, r) /\ r.depth >= MaxDepth
  <2> DEFINE new == Finding("range_unresolved", {k \in Table : InRange(k, r)})
             found == recon.findings \cup {new}
  <2>1. recon' = [recon EXCEPT !.step = "range", !.stack = Tail(recon.stack), !.rows = {},
                               !.findings = found]
    BY <1>1, <1>3, <1>7 DEF Descended, Return, Pass
  <2>2. new \in Findings /\ new.keys = {k \in Table : InRange(k, r)}
    BY TablesAssumption DEF Finding, Findings, Kinds, Table
  <2>3. IsFiniteSet(found)
    BY <1>3, FS_AddElement
  <2>4. \A k \in Table : InRange(k, r) => \E f \in found : k \in f.keys
    BY <2>2
  <2>5. found \in SUBSET Findings /\ recon.findings \subseteq found
    BY <1>3, <2>2
  <2> HIDE DEF found
  <2> QED BY <1>1, <2>1, <2>3, <2>4, <2>5, Returned
<1>8. CASE recon.rows # tgt /\ IsLeaf(recon.rows, tgt, r) /\ ~(r.depth >= MaxDepth)
  <2>1. recon' = [recon EXCEPT !.step = "leaf", !.rows = {}]
    BY <1>1, <1>3, <1>8 DEF Descended
  <2>2. recon' \in Pass
    BY <1>3, <2>1 DEF Pass
  <2>3. /\ recon'.step = "leaf" /\ recon'.stack = recon.stack
        /\ recon'.findings = recon.findings
        /\ recon'.table = recon.table /\ recon'.total = recon.total
        /\ recon'.complete = recon.complete /\ recon'.began = recon.began
    BY <1>3, <2>1 DEF Pass
  <2>4. PassType' /\ Descending' /\ Table' = Table /\ (AtLimit' <=> AtLimit)
    BY <1>3, <2>2, <2>3 DEF PassType, Descending, Table, AtLimit
  <2>5. PassShape' /\ RowsInHand'
    BY <1>1, <1>2, <2>3, <2>4 DEF PassShape, RowsInHand, Descending
  <2>6. DescentComplete'
    <3> SUFFICES ASSUME NEW k \in Table, Visible(k), Since(k, recon.began)
                 PROVE  Covered(k)'
      BY <1>1, <2>3, <2>4 DEF DescentComplete, Visible, Hidden, Mirrors, Tombstone, Since
    <3>1. Covered(k)
      BY <1>2 DEF PassInv, DescentComplete
    <3> QED BY <3>1, <2>3 DEF Covered, Reported, InRange
  <2>7. PassVouches'
    BY <1>2, <2>3, <2>4, SameTable
  <2> QED BY <2>4, <2>5, <2>6, <2>7 DEF PassInv
<1> QED BY <1>5, <1>6, <1>7, <1>8

\* A descent that stops at the limit promises nothing any more.
LEMMA Stopped ==
  ASSUME Types, PassInv, Undisturbed, StopAtLimit
  PROVE  PassType' /\ PassInv'
<1> DEFINE none == <<>>
<1>1. none \in Seq(Ranges)
  OBVIOUS
<1>2. recon' = [recon EXCEPT !.stack = none]
  BY DEF StopAtLimit
<1> HIDE DEF none
<1>3. /\ recon \in Pass /\ recon.step = "range" /\ Descending /\ AtLimit
      /\ UNCHANGED events /\ IsFiniteSet(recon.findings)
  BY DEF StopAtLimit, Types, Descending
<1>4. recon' \in Pass
  BY <1>1, <1>2, <1>3 DEF Pass
<1>5. /\ recon'.step = "range" /\ recon'.findings = recon.findings
      /\ recon'.table = recon.table /\ recon'.total = recon.total
      /\ recon'.complete = recon.complete /\ recon'.began = recon.began
  BY <1>2, <1>3 DEF Pass
<1>6. PassType' /\ Descending' /\ AtLimit'
  BY <1>3, <1>4, <1>5 DEF PassType, Descending, AtLimit
<1>7. PassShape' /\ RowsInHand' /\ DescentComplete'
  BY <1>3, <1>5, <1>6 DEF PassInv, PassShape, RowsInHand, DescentComplete, Descending
<1>8. PassVouches'
  BY <1>3, <1>5, <1>6, SameTable
<1> QED BY <1>6, <1>7, <1>8 DEF PassInv

\* The row comparison reports every lasting difference of the range, except a
\* tombstone with the source's columns.
LEMMA Distinguished ==
  ASSUME Types, PassInv, recon.step = "rows",
         NEW k \in Table, Since(k, recon.began), Visible(k), InRange(k, Head(recon.stack)),
         NEW tgt, tgt = TargetRows(Head(recon.stack))
  PROVE  \E f \in OnSource(recon.rows, tgt) \cup OnTarget(recon.rows, tgt) : k \in f.keys
<1>1. k \in Keys
  BY TablesAssumption DEF Table
<1>2. \A v \in Images : [key |-> k, val |-> v] \in recon.rows
                          <=> source[k] # Absent /\ source[k] = v
  BY <1>1 DEF PassInv, RowsInHand
<1>3. source[k] \in Images \cup {Absent} /\ target[k] \in TargetRow \cup {NoRow}
  BY <1>1 DEF Types
<1>4. recon.rows \subseteq SourceRow
  BY DEF Types, Pass
<1>5. source[k] = Absent => k \notin KeysOf(recon.rows)
  BY <1>2, <1>4 DEF KeysOf, SourceRow
<1>6. target[k] # NoRow => k \in KeysOf(tgt)
  <2> DEFINE y == [key |-> k, val |-> target[k].val]
  <2>1. y.key = k
    OBVIOUS
  <2>2. target[k] # NoRow => y \in tgt
    BY DEF TargetRows
  <2> HIDE DEF y
  <2> QED BY <2>1, <2>2 DEF KeysOf
<1>7. target[k] = NoRow => k \notin KeysOf(tgt)
  BY DEF TargetRows, KeysOf
<1>8. \A v \in Images : [key |-> k, val |-> v] \in tgt => target[k].val = v
  BY <1>1 DEF TargetRows
<1>9. CASE source[k] = Absent
  <2>1. target[k] # NoRow
    BY <1>9 DEF Visible, Mirrors
  <2>2. Finding("missing_in_source", {k}) \in OnTarget(recon.rows, tgt)
    BY <1>5, <1>6, <1>9, <2>1 DEF OnTarget
  <2> QED BY <2>2 DEF Finding
<1>10. CASE source[k] # Absent
  <2> DEFINE x == [key |-> k, val |-> source[k]]
  <2>1. source[k] \in Images /\ x \in recon.rows /\ x.key = k
    BY <1>2, <1>3, <1>10
  <2>2. k \in KeysOf(recon.rows)
    BY <2>1 DEF KeysOf
  <2>3. CASE target[k] = NoRow
    <3>1. Finding("missing_in_target", {k}) \in OnSource(recon.rows, tgt)
      BY <1>7, <2>2, <2>3 DEF OnSource
    <3> QED BY <3>1 DEF Finding
  <2>4. CASE target[k] # NoRow
    <3>1. target[k].val # source[k]
      BY <1>10, <2>4 DEF Visible, Mirrors, Hidden, Tombstone
    <3>2. x \notin tgt
      BY <1>8, <2>1, <3>1
    <3>3. x.key \in KeysOf(tgt)
      BY <1>6, <2>1, <2>4
    <3> HIDE DEF x
    <3>4. Finding("value_mismatch", {x.key}) \in OnSource(recon.rows, tgt)
      BY <2>1, <3>2, <3>3 DEF OnSource
    <3> QED BY <2>1, <3>4 DEF Finding
  <2> QED BY <2>3, <2>4
<1> QED BY <1>9, <1>10

\* A range that is compared row by row.
LEMMA RowsCompared ==
  ASSUME Types, PassInv, Undisturbed, CompareRows
  PROVE  PassType' /\ PassInv'
<1> DEFINE r   == Head(recon.stack)
           tgt == TargetRows(r)
           onSource == OnSource(recon.rows, tgt)
           onTarget == OnTarget(recon.rows, tgt)
<1>1. recon.step = "rows" /\ UNCHANGED <<source, target, events, touched>>
  BY DEF CompareRows
<1>2. PICK first \in UpToLimit(recon.findings, onSource) :
        \E all \in UpToLimit(first, onTarget) :
          recon' = [Return(recon) EXCEPT !.findings = all]
  BY DEF CompareRows
<1>3. PICK all \in UpToLimit(first, onTarget) :
        recon' = [Return(recon) EXCEPT !.findings = all]
  BY <1>2
<1>4. /\ recon \in Pass /\ recon.findings \in SUBSET Findings /\ recon.rows \in SUBSET SourceRow
      /\ IsFiniteSet(recon.findings)
  BY DEF Types, Pass
<1>5. tgt \in SUBSET SourceRow
  BY QueriesType
<1>6. \A k \in Table : Visible(k) /\ Since(k, recon.began) /\ InRange(k, r) =>
        \E f \in onSource \cup onTarget : k \in f.keys
  BY <1>1, Distinguished
<1> HIDE DEF tgt
<1>7. /\ IsFiniteSet(onSource) /\ onSource \in SUBSET Findings
      /\ IsFiniteSet(onTarget) /\ onTarget \in SUBSET Findings
  BY <1>4, <1>5, ComparedFinite
<1> HIDE DEF onSource, onTarget
<1>8. /\ first \in SUBSET Findings /\ IsFiniteSet(first) /\ recon.findings \subseteq first
      /\ Cardinality(first) < MaxFindings => first = recon.findings \cup onSource
  BY <1>4, <1>7, Appended
<1>9. /\ all \in SUBSET Findings /\ IsFiniteSet(all) /\ first \subseteq all
      /\ Cardinality(all) < MaxFindings =>
           all = first \cup onTarget /\ Cardinality(first) < MaxFindings
  BY <1>7, <1>8, Appended
<1>10. recon' = [recon EXCEPT !.step = "range", !.stack = Tail(recon.stack), !.rows = {},
                              !.findings = all]
  BY <1>3, <1>4 DEF Return, Pass
<1>11. Cardinality(all) < MaxFindings =>
         \A k \in Table : Visible(k) /\ Since(k, recon.began) /\ InRange(k, r)
                            => \E f \in all : k \in f.keys
  BY <1>6, <1>8, <1>9
<1>12. recon.findings \subseteq all
  BY <1>8, <1>9
<1> QED BY <1>1, <1>9, <1>10, <1>11, <1>12, Returned

\* A pass that is recorded or lost leaves none behind.
LEMMA Ended ==
  ASSUME Types, recon' = Off
  PROVE  PassType' /\ PassInv'
<1> DEFINE none == <<>>
           zero == 0
<1>1. none \in Seq(Ranges) /\ zero \in Nat
  OBVIOUS
<1>2. Off = [step |-> "off", table |-> zero, stack |-> none, rows |-> {}, findings |-> {},
             total |-> zero, complete |-> TRUE, began |-> zero]
  BY DEF Off
<1> HIDE DEF none, zero
<1>3. Off \in Pass /\ Off.step = "off" /\ Off.findings = {}
  BY <1>1, <1>2 DEF Pass
<1> QED BY <1>3, FS_EmptySet DEF PassType, PassInv, PassShape, RowsInHand, DescentComplete,
     PassVouches, Descending

-----------------------------------------------------------------------------
(***************************************************************************)
(* The control tables, the gate and the requests.                          *)
(***************************************************************************)

\* A row no pass has touched vouches for nothing.
LEMMA NewStateVouches ==
  ASSUME NEW phase \in Phases, NEW armed \in BOOLEAN
  PROVE  NewState(phase, armed) \in State /\ Vouches(NewState(phase, armed))
         /\ NewState(phase, armed).phase = phase
<1> DEFINE zero == 0
           s == [phase |-> phase, ranAt |-> zero, findings |-> zero, complete |-> FALSE,
                 armed |-> armed, began |-> zero]
<1>1. zero \in Nat
  OBVIOUS
<1>2. NewState(phase, armed) = s
  BY DEF NewState
<1> HIDE DEF zero
<1>3. s \in State /\ s.complete = FALSE /\ s.phase = phase
  BY <1>1 DEF State
<1> HIDE DEF s
<1> QED BY <1>2, <1>3 DEF Vouches

\* The row a read of the table returns, also when there is none.
LEMMA StateLoaded ==
  ASSUME Types, StateVouches
  PROVE  LoadState \in State /\ Vouches(LoadState)
<1>1. CASE state = NoState
  <2>1. "planning" \in Phases /\ FALSE \in BOOLEAN
    BY DEF Phases, validTransitions
  <2>2. LoadState = NewState("planning", FALSE)
    BY <1>1 DEF LoadState
  <2> QED BY <2>1, <2>2, NewStateVouches, Zenon
<1>2. CASE state # NoState
  BY <1>2 DEF LoadState, Types, StateVouches
<1> QED BY <1>1, <1>2

\* A recorded pass vouches for what it vouched for while it ran.
LEMMA Recorded ==
  ASSUME Types, PassInv, StateVouches, Undisturbed, RecordReconcileRun
  PROVE  state' \in State \cup {NoState} /\ StateVouches'
<1>1. CASE state = NoState
  BY <1>1 DEF RecordReconcileRun, StateVouches
<1>2. CASE state # NoState
  <2>1. state \in State /\ recon \in Pass /\ now \in Nat
    BY <1>2 DEF Types
  <2>2. recon.total \in Nat /\ recon.complete \in BOOLEAN /\ recon.began \in Nat
    BY <2>1 DEF Pass
  <2>3. state' = [state EXCEPT !.ranAt = now, !.findings = recon.total,
                               !.complete = recon.complete, !.began = recon.began]
    BY <1>2 DEF RecordReconcileRun
  <2>4. /\ state' \in State /\ state'.findings = recon.total
        /\ state'.complete = recon.complete /\ state'.began = recon.began
    BY <2>1, <2>2, <2>3 DEF State
  <2>5. recon.began <= events /\ recon.step = "record"
    BY DEF RecordReconcileRun, PassInv, PassShape
  <2>6. recon.complete /\ recon.total = 0 =>
          \A i \in DOMAIN Tables : CleanSince(i, recon.began)
    BY <2>5 DEF PassInv, PassVouches, Descending
  <2>7. PICK s \in State : s = state'
    BY <2>4
  <2>8. Vouches(s)
    BY <2>4, <2>5, <2>6, <2>7 DEF Vouches
  <2>9. Vouches(s)'
    BY <2>8, StillVouches
  <2> QED BY <2>4, <2>7, <2>9 DEF StateVouches, Vouches
<1> QED BY <1>1, <1>2

\* An open gate has seen a complete pass without findings.
LEMMA OpenGateSaw ==
  ASSUME NEW o, NEW t, o.findings \in Nat, o.complete \in BOOLEAN, t.maxFindings = 0
  PROVE  /\ Evaluate(o, t) \subseteq Codes
         /\ Evaluate(o, t) = {} => o.complete /\ o.findings = 0
<1>1. ~o.complete => "reconciliation_incomplete" \in Evaluate(o, t)
  BY DEF Evaluate
<1>2. o.findings > 0 => "reconciliation_findings" \in Evaluate(o, t)
  BY DEF Evaluate
<1>3. Evaluate(o, t) \subseteq Codes
  BY DEF Evaluate, Codes
<1> QED BY <1>1, <1>2, <1>3

-----------------------------------------------------------------------------
(***************************************************************************)
(* Induction.                                                              *)
(***************************************************************************)

\* Every step keeps what the pass relies on.
LEMMA PassStep ==
  ASSUME Types, PassInv, [Next]_vars
  PROVE  PassType' /\ PassInv'
<1>0. Undisturbed
  BY Frame
<1>1. CASE ReconStep
  <2>1. CASE RecordReconcileRun
    BY <2>1, Ended DEF RecordReconcileRun
  <2> QED BY <1>0, <1>1, <2>1, PassBegins, SourceRead, TargetDigested, Stopped,
          RowsCompared, TableEnds DEF ReconStep
<1>2. CASE QueryFails
  BY <1>0, <1>2, TableFails
<1>3. CASE PassLost
  BY <1>3, Ended DEF PassLost
<1>4. CASE recon' = recon
  BY <1>0, <1>4, KeepsPass DEF PassType, Types
<1>5. ASSUME NEW k \in Keys, Replicate(k) \/ \E v \in Images \cup {Absent} : SourceChanges(k, v)
      PROVE  recon' = recon
  BY <1>5 DEF Replicate, SourceChanges
<1>6. CASE ReadState \/ ReadCounts \/ ReadParts \/ LettersChange \/ PartRecorded \/ Tick
  <2>1. recon' = recon
    BY <1>6 DEF ReadState, ReadCounts, ReadParts, LettersChange, PartRecorded, Tick, reconVars
  <2> QED BY <1>4, <2>1
<1>7. ASSUME NEW r \in Requests, SetPhase(r) \/ \E to \in Targets : RequestPhase(r, to)
      PROVE  recon' = recon
  BY <1>7 DEF SetPhase, RequestPhase
<1>8. CASE UNCHANGED vars
  BY <1>4, <1>8 DEF vars, reconVars
<1> QED BY <1>1, <1>2, <1>3, <1>4, <1>5, <1>6, <1>7, <1>8 DEF Next, ReconNext

\* The databases, the clocks and the counters keep their types.
LEMMA WorldTypes ==
  ASSUME Types, [Next]_vars
  PROVE  /\ source' \in [Keys -> Images \cup {Absent}]
         /\ target' \in [Keys -> TargetRow \cup {NoRow}]
         /\ now' \in Nat /\ events' \in Nat /\ touched' \in [Keys -> Nat]
<1> USE DEF Types
<1>1. ASSUME NEW k \in Keys, NEW v \in Images \cup {Absent}, SourceChanges(k, v)
      PROVE  /\ source' \in [Keys -> Images \cup {Absent}] /\ UNCHANGED <<target, now>>
             /\ events' \in Nat /\ touched' \in [Keys -> Nat]
  BY <1>1 DEF SourceChanges, Event
<1>2. ASSUME NEW k \in Keys, Replicate(k)
      PROVE  /\ UNCHANGED <<source, now>> /\ target' \in [Keys -> TargetRow \cup {NoRow}]
             /\ events' \in Nat /\ touched' \in [Keys -> Nat]
  <2> DEFINE row == IF source[k] = Absent THEN [target[k] EXCEPT !.deleted = TRUE]
                    ELSE [deleted |-> FALSE, val |-> source[k]]
  <2>1. row \in TargetRow
    <3>1. CASE source[k] = Absent
      <4>1. target[k] \in TargetRow
        BY <1>2, <3>1 DEF Replicate, Mirrors
      <4> QED BY <3>1, <4>1 DEF TargetRow
    <3>2. CASE source[k] # Absent
      BY <3>2 DEF TargetRow
    <3> QED BY <3>1, <3>2
  <2>2. target' = [target EXCEPT ![k] = row]
    BY <1>2 DEF Replicate
  <2> HIDE DEF row
  <2>3. target' \in [Keys -> TargetRow \cup {NoRow}]
    BY <2>1, <2>2
  <2> QED BY <1>2, <2>3 DEF Replicate, Event
<1>3. CASE UNCHANGED <<source, target, touched>> /\ (now' = now \/ now' = now + 1)
             /\ (UNCHANGED events \/ Event)
  BY <1>3 DEF Event
<1>4. CASE ReconStep
  BY <1>3, <1>4 DEF ReconStep, BeginPass, DigestSource, DigestTarget, StopAtLimit,
     ReadSourceRows, CompareRows, EndTable, RecordReconcileRun
<1>5. CASE QueryFails \/ PassLost
  BY <1>3, <1>5 DEF QueryFails, PassLost
<1>6. CASE ReadState \/ ReadCounts \/ ReadParts
  BY <1>3, <1>6 DEF ReadState, ReadCounts, ReadParts, reconVars
<1>7. ASSUME NEW r \in Requests, SetPhase(r) \/ \E to \in Targets : RequestPhase(r, to)
      PROVE  UNCHANGED <<source, target, touched, now>> /\ (UNCHANGED events \/ Event)
  BY <1>7 DEF SetPhase, RequestPhase
<1>8. CASE LettersChange \/ PartRecorded \/ Tick
  BY <1>3, <1>8 DEF LettersChange, PartRecorded, Tick
<1>9. CASE UNCHANGED vars
  BY <1>3, <1>9 DEF vars, reconVars
<1> QED BY <1>1, <1>2, <1>3, <1>4, <1>5, <1>6, <1>7, <1>8, <1>9 DEF Next, ReconNext

\* The migration_state row: only a recorded pass changes what it vouches for.
LEMMA StateStep ==
  ASSUME Types, PassInv, StateVouches, RequestsChecked, [Next]_vars
  PROVE  state' \in State \cup {NoState} /\ StateVouches'
<1>0. Undisturbed
  BY Frame
<1>1. CASE state' = state
  <2>1. CASE state = NoState
    BY <1>1, <2>1 DEF StateVouches, Types
  <2>2. CASE state # NoState
    <3>1. PICK s \in State : s = state
      BY <2>2 DEF Types
    <3>2. Vouches(s)
      BY <2>2, <3>1 DEF StateVouches
    <3>3. Vouches(s)'
      BY <1>0, <3>2, StillVouches
    <3> QED BY <1>1, <3>1, <3>3 DEF StateVouches, Vouches
  <2> QED BY <2>1, <2>2
<1>2. CASE RecordReconcileRun
  BY <1>0, <1>2, Recorded
<1>3. ASSUME NEW r \in Requests, SetPhase(r)
      PROVE  state' \in State \cup {NoState} /\ StateVouches'
  <2>1. CASE state = NoState
    BY <1>3, <2>1 DEF SetPhase, StateVouches
  <2>2. CASE state # NoState
    <3>1. state \in State /\ request[r].to \in Phases
      BY <1>3, <2>2 DEF Types, SetPhase
    <3>2. state' = [state EXCEPT !.phase = request[r].to]
      BY <1>3, <2>2 DEF SetPhase
    <3>3. /\ state' \in State /\ state'.findings = state.findings
          /\ state'.complete = state.complete /\ state'.began = state.began
      BY <3>1, <3>2 DEF State
    <3>4. PICK s \in State : s = state'
      BY <3>3
    <3>5. Vouches(s)
      BY <2>2, <3>3, <3>4 DEF StateVouches, Vouches
    <3>6. Vouches(s)'
      BY <1>0, <3>5, StillVouches
    <3> QED BY <3>3, <3>4, <3>6 DEF StateVouches, Vouches
  <2> QED BY <2>1, <2>2
<1>4. CASE ReconStep \/ QueryFails \/ PassLost
  BY <1>1, <1>2, <1>4 DEF ReconStep, BeginPass, DigestSource, DigestTarget, StopAtLimit,
     ReadSourceRows, CompareRows, EndTable, QueryFails, PassLost
<1>5. ASSUME NEW k \in Keys, Replicate(k) \/ \E v \in Images \cup {Absent} : SourceChanges(k, v)
      PROVE  state' = state
  BY <1>5 DEF Replicate, SourceChanges
<1>6. CASE ReadState \/ ReadCounts \/ ReadParts \/ LettersChange \/ PartRecorded \/ Tick
  BY <1>1, <1>6 DEF ReadState, ReadCounts, ReadParts, LettersChange, PartRecorded, Tick,
     reconVars
<1>7. ASSUME NEW r \in Requests, NEW to \in Targets, RequestPhase(r, to)
      PROVE  state' = state
  BY <1>7 DEF RequestPhase
<1>8. CASE UNCHANGED vars
  BY <1>1, <1>8 DEF vars, reconVars
<1> QED BY <1>1, <1>3, <1>4, <1>5, <1>6, <1>7, <1>8 DEF Next, ReconNext

\* An evaluation: what was read stays vouched for while it is under way.
LEMMA GateStep ==
  ASSUME Types, StateVouches, GateVouches, [Next]_vars
  PROVE  gate' \in Evaluation /\ GateVouches'
<1>0. Undisturbed /\ gate \in Evaluation
  BY Frame DEF Types
<1>1. ASSUME NEW s \in State, s = gate'.state, Vouches(s),
             gate'.step = "done" /\ gate'.blockers = {} =>
               gate'.state.complete /\ gate'.state.findings = 0
      PROVE  GateVouches'
  <2>1. Vouches(s)'
    BY <1>0, <1>1, StillVouches
  <2> QED BY <1>1, <2>1 DEF GateVouches, Vouches
<1>2. gate.state \in State /\ Vouches(gate.state)
  BY <1>0 DEF Evaluation, GateVouches
<1>3. CASE gate' = gate
  BY <1>0, <1>1, <1>2, <1>3 DEF GateVouches
<1>4. CASE ReadState
  <2> DEFINE zero == 0
  <2>1. LoadState \in State /\ Vouches(LoadState)
    BY StateLoaded
  <2>2. zero \in Nat
    OBVIOUS
  <2>3. gate' = [step |-> "counts", state |-> LoadState, open |-> zero, blockers |-> {}]
    BY <1>4 DEF ReadState, IdleGate
  <2> HIDE DEF zero
  <2>4. gate' \in Evaluation /\ gate'.step = "counts" /\ gate'.state = LoadState
    BY <2>1, <2>2, <2>3 DEF Evaluation
  <2> QED BY <1>1, <2>1, <2>4
<1>5. CASE ReadCounts
  <2>1. gate' = [gate EXCEPT !.step = "parts", !.open = letters] /\ letters \in Nat
    BY <1>5 DEF ReadCounts, Types
  <2>2. gate' \in Evaluation /\ gate'.step = "parts" /\ gate'.state = gate.state
    BY <1>0, <2>1 DEF Evaluation
  <2> QED BY <1>1, <1>2, <2>2
<1>6. CASE ReadParts
  <2> DEFINE st == gate.state
             o == [phase |-> st.phase, lag |-> currentLag.current,
                   lagUnder |-> currentLag.stableFor, open |-> gate.open,
                   findings |-> st.findings, ranAt |-> st.ranAt,
                   complete |-> st.complete, total |-> PartCounts.total,
                   loaded |-> PartCounts.loaded, armed |-> st.armed, now |-> now]
             seen == Evaluate(o, Thresholds)
  <2>1. gate' = [gate EXCEPT !.step = "done", !.blockers = seen]
    BY <1>6 DEF ReadParts
  <2>2. o.findings = st.findings /\ o.complete = st.complete
    OBVIOUS
  <2>3. st.findings \in Nat /\ st.complete \in BOOLEAN
    BY <1>2 DEF State
  <2> HIDE DEF o
  <2>4. seen \subseteq Codes /\ (seen = {} => st.complete /\ st.findings = 0)
    BY <2>2, <2>3, OpenGateSaw, ThresholdsAssumption
  <2> HIDE DEF seen
  <2>5. /\ gate' \in Evaluation /\ gate'.step = "done" /\ gate'.state = gate.state
        /\ gate'.blockers = seen
    BY <1>0, <2>1, <2>4 DEF Evaluation
  <2> QED BY <1>1, <1>2, <2>4, <2>5
<1>7. CASE ReconNext /\ UNCHANGED controlVars
  BY <1>3, <1>7 DEF controlVars
<1>8. ASSUME NEW r \in Requests, SetPhase(r) \/ \E to \in Targets : RequestPhase(r, to)
      PROVE  gate' = gate
  BY <1>8 DEF SetPhase, RequestPhase
<1>9. CASE LettersChange \/ PartRecorded \/ Tick
  BY <1>3, <1>9 DEF LettersChange, PartRecorded, Tick, controlVars
<1>10. CASE UNCHANGED vars
  BY <1>3, <1>10 DEF vars, controlVars
<1> QED BY <1>3, <1>4, <1>5, <1>6, <1>7, <1>8, <1>9, <1>10 DEF Next

\* The number of open letters and the requests in flight.
LEMMA RequestStep ==
  ASSUME Types, StateVouches, RequestsChecked, [Next]_vars
  PROVE  /\ letters' \in {0, 1}
         /\ request' \in [Requests -> [from : Phases, to : Phases] \cup {NoRequest}]
         /\ RequestsChecked'
<1> USE DEF Types
<1>1. CASE UNCHANGED request /\ (UNCHANGED letters \/ letters' = 1 - letters)
  BY <1>1 DEF RequestsChecked
<1>2. ASSUME NEW r \in Requests, SetPhase(r)
      PROVE  /\ UNCHANGED letters /\ RequestsChecked'
             /\ request' \in [Requests -> [from : Phases, to : Phases] \cup {NoRequest}]
  BY <1>2 DEF SetPhase, RequestsChecked
<1>3. ASSUME NEW r \in Requests, NEW to \in Targets, RequestPhase(r, to)
      PROVE  /\ UNCHANGED letters /\ RequestsChecked'
             /\ request' \in [Requests -> [from : Phases, to : Phases] \cup {NoRequest}]
  <2> DEFINE new == [from |-> LoadState.phase, to |-> to]
  <2>1. LoadState.phase \in Phases /\ to \in Phases
    BY StateLoaded, TargetsAssumption DEF State
  <2>2. /\ new \in [from : Phases, to : Phases] /\ new.from = LoadState.phase /\ new.to = to
    BY <2>1
  <2>3. /\ request' = [request EXCEPT ![r] = new] /\ UNCHANGED letters
        /\ Transition(new.from, new.to)
    BY <1>3, <2>2 DEF RequestPhase
  <2> HIDE DEF new
  <2>4. request' \in [Requests -> [from : Phases, to : Phases] \cup {NoRequest}]
    BY <2>2, <2>3
  <2>5. RequestsChecked'
    BY <2>3 DEF RequestsChecked, Transition, CanTransitionTo
  <2> QED BY <2>3, <2>4, <2>5
<1>4. CASE ReconNext /\ UNCHANGED controlVars
  BY <1>1, <1>4 DEF controlVars
<1>5. CASE ReadState \/ ReadCounts \/ ReadParts \/ LettersChange \/ PartRecorded \/ Tick
  BY <1>1, <1>5 DEF ReadState, ReadCounts, ReadParts, LettersChange, PartRecorded, Tick,
     controlVars
<1>6. CASE UNCHANGED vars
  BY <1>1, <1>6 DEF vars, controlVars
<1> QED BY <1>1, <1>2, <1>3, <1>4, <1>5, <1>6 DEF Next

\* The first state of a behaviour.
LEMMA InitInv ==
  ASSUME Init
  PROVE  IndInv
<1> DEFINE zero == 0
<1>0. zero \in Nat /\ zero \in {0, 1} /\ events = zero /\ letters = zero
  BY DEF Init
<1>1. PICK rows \in [Keys -> UNION {FirstRows[k] : k \in Keys}] :
        /\ \A k \in Keys : rows[k] \in FirstRows[k]
        /\ source = [k \in Keys |-> rows[k].src]
        /\ target = [k \in Keys |-> rows[k].tgt]
  BY DEF Init
<1>2. \A k \in Keys : rows[k] \in [src : Images \cup {Absent}, tgt : TargetRow \cup {NoRow}]
  BY <1>1, FirstRowsAssumption DEF TargetRow
<1>3. /\ source \in [Keys -> Images \cup {Absent}]
      /\ target \in [Keys -> TargetRow \cup {NoRow}]
  BY <1>1, <1>2
<1>4. recon \in Pass /\ IsFiniteSet(recon.findings) /\ recon.step = "off"
  <2> DEFINE none == <<>>
  <2>1. none \in Seq(Ranges)
    OBVIOUS
  <2>2. recon = [step |-> "off", table |-> zero, stack |-> none, rows |-> {}, findings |-> {},
                 total |-> zero, complete |-> TRUE, began |-> zero]
    BY DEF Off, Init
  <2> HIDE DEF none, zero
  <2> QED BY <1>0, <2>1, <2>2, FS_EmptySet DEF Pass
<1>5. PassInv
  BY <1>4 DEF PassInv, PassShape, RowsInHand, DescentComplete, PassVouches, Descending
<1>6. state \in State \cup {NoState} /\ StateVouches
  <2>1. CASE state = NoState
    BY <2>1 DEF StateVouches
  <2>2. CASE state # NoState
    <3>1. PICK phase \in Phases, armed \in BOOLEAN : state = NewState(phase, armed)
      BY <2>2, FirstStatesAssumption DEF Init
    <3> QED BY <3>1, NewStateVouches DEF StateVouches
  <2> QED BY <2>1, <2>2
<1>7. gate \in Evaluation /\ GateVouches
  <2> DEFINE first == NewState("planning", FALSE)
  <2>1. "planning" \in Phases /\ FALSE \in BOOLEAN
    BY DEF Phases, validTransitions
  <2>2. first \in State /\ Vouches(first)
    BY <2>1, NewStateVouches, Zenon
  <2>3. gate = [step |-> "idle", state |-> first, open |-> zero, blockers |-> {}]
    BY DEF Init, IdleGate
  <2> HIDE DEF first, zero
  <2>4. gate \in Evaluation /\ gate.step = "idle" /\ gate.state = first
    BY <1>0, <2>2, <2>3 DEF Evaluation
  <2> QED BY <2>2, <2>4 DEF GateVouches
<1>8. /\ request \in [Requests -> [from : Phases, to : Phases] \cup {NoRequest}]
      /\ RequestsChecked
  BY DEF Init, RequestsChecked
<1>9. now \in Nat /\ touched \in [Keys -> Nat]
  BY DEF Init
<1> QED BY <1>0, <1>3, <1>4, <1>5, <1>6, <1>7, <1>8, <1>9 DEF IndInv, Types

-----------------------------------------------------------------------------
(***************************************************************************)
(* The results.                                                            *)
(***************************************************************************)

\* The inductive invariant: in every state the databases, the pass, the control
\* row, the evaluation and the requests are as the code relies on.
THEOREM Inductive == Spec => []IndInv
<1>1. Init => IndInv
  BY InitInv
<1>2. ASSUME IndInv, [Next]_vars
      PROVE  IndInv'
  <2> USE <1>2 DEF IndInv
  <2>1. PassType' /\ PassInv'
    BY PassStep
  <2>2. /\ source' \in [Keys -> Images \cup {Absent}]
        /\ target' \in [Keys -> TargetRow \cup {NoRow}]
        /\ now' \in Nat /\ events' \in Nat /\ touched' \in [Keys -> Nat]
    BY WorldTypes
  <2>3. state' \in State \cup {NoState} /\ StateVouches'
    BY StateStep
  <2>4. gate' \in Evaluation /\ GateVouches'
    BY GateStep
  <2>5. /\ letters' \in {0, 1} /\ RequestsChecked'
        /\ request' \in [Requests -> [from : Phases, to : Phases] \cup {NoRequest}]
    BY RequestStep
  <2> QED BY <2>1, <2>2, <2>3, <2>4, <2>5 DEF Types, PassType
<1> QED BY <1>1, <1>2, PTL DEF Spec

\* For any tables, chunk columns, limits and interleaving of changes with the
\* queries of a pass: a difference that was there during the whole pass is
\* reported when the descent of its table ends below the limit
\* (reconcile.go:172-328).
THEOREM PassLocalises == Spec => []DifferencesLocalised
<1>1. IndInv => DifferencesLocalised
  <2> SUFFICES ASSUME IndInv, TableDone, ~AtLimit, NEW k \in Table, Visible(k),
                      Since(k, recon.began)
               PROVE  Reported(k)
    BY DEF DifferencesLocalised
  <2>1. Covered(k)
    BY DEF IndInv, PassInv, DescentComplete, Descending, TableDone
  <2> QED BY <2>1 DEF Covered, TableDone
<1> QED BY <1>1, Inductive, PTL

\* The gate never reports ready on account of a pass that failed on a table, was
\* cut off or found something, whatever is recorded while it reads
\* (phase.go:201-280, controlplane main.go, reconciler main.go:77-123).
THEOREM ReadyIsVerified == Spec => []ReadyMeansVerified
<1>1. IndInv => ReadyMeansVerified
  <2> SUFFICES ASSUME IndInv, gate.step = "done", gate.blockers = {}, NEW k \in Keys,
                      NEW i \in DOMAIN Tables, k \in Tables[i], Since(k, gate.state.began)
               PROVE  ~Visible(k)
    BY DEF ReadyMeansVerified
  <2>1. CleanSince(i, gate.state.began)
    BY DEF IndInv, GateVouches, Vouches
  <2> QED BY <2>1 DEF CleanSince
<1> QED BY <1>1, Inductive, PTL

\* For any number of requests: a move outside the transition table takes another
\* request that changed the phase between check and update (store.go:309-324).
THEOREM PhaseMovesAreLegalOrRaces == Spec => IllegalMovesAreRaces
<1> DEFINE Move ==
      state # NoState /\ state'.phase # state.phase =>
       \/ CanTransitionTo(state.phase, state'.phase)
       \/ \E r \in Requests : /\ request[r].to = state'.phase /\ request'[r] = NoRequest
                               /\ request[r].from # state.phase
<1>1. ASSUME IndInv, [Next]_vars
      PROVE  Move
  <2> SUFFICES ASSUME state # NoState, state'.phase # state.phase
               PROVE  \/ CanTransitionTo(state.phase, state'.phase)
                      \/ \E r \in Requests : /\ request[r].to = state'.phase
                                             /\ request'[r] = NoRequest
                                             /\ request[r].from # state.phase
    OBVIOUS
  <2>1. state \in State
    BY <1>1 DEF IndInv, Types
  <2>2. ~RecordReconcileRun
    BY <2>1 DEF RecordReconcileRun, State
  <2>3. \E r \in Requests : SetPhase(r)
    <3>1. ~ReconStep /\ ~QueryFails /\ ~PassLost
      BY <2>2 DEF ReconStep, BeginPass, DigestSource, DigestTarget, StopAtLimit,
         ReadSourceRows, CompareRows, EndTable, QueryFails, PassLost
    <3>2. \A k \in Keys : ~Replicate(k) /\ \A v \in Images \cup {Absent} : ~SourceChanges(k, v)
      BY DEF Replicate, SourceChanges
    <3>3. ~(ReadState \/ ReadCounts \/ ReadParts \/ LettersChange \/ PartRecorded \/ Tick)
      BY DEF ReadState, ReadCounts, ReadParts, LettersChange, PartRecorded, Tick, reconVars
    <3>4. \A r \in Requests, to \in Targets : ~RequestPhase(r, to)
      BY DEF RequestPhase
    <3>5. ~UNCHANGED vars
      BY DEF vars, reconVars
    <3> QED BY <1>1, <3>1, <3>2, <3>3, <3>4, <3>5 DEF Next, ReconNext
  <2>4. PICK r \in Requests : SetPhase(r)
    BY <2>3
  <2>5. /\ request[r] # NoRequest /\ request'[r] = NoRequest
        /\ state' = [state EXCEPT !.phase = request[r].to]
    BY <1>1, <2>4 DEF SetPhase, IndInv, Types
  <2>6. state'.phase = request[r].to
    BY <2>1, <2>5 DEF State
  <2>7. Transition(request[r].from, request[r].to)
    BY <1>1, <2>5 DEF IndInv, RequestsChecked
  <2> QED BY <2>5, <2>6, <2>7 DEF Transition
<1>2. IndInv /\ [Next]_vars => [Move]_vars
  BY <1>1
<1> QED BY <1>2, Inductive, PTL DEF Spec, IllegalMovesAreRaces

-----------------------------------------------------------------------------
(***************************************************************************)
(* No false alarm.                                                         *)
(***************************************************************************)

\* A finding about one key, when the key has not been touched.
Justified(f) ==
  \A k \in Keys : f.kind # "range_unresolved" /\ k \in f.keys /\ Since(k, recon.began)
                    => ~Mirrors(k) \/ Tombstone(k)

AlarmInv ==
  /\ recon.step = "off" => recon.findings = {}
  /\ \A f \in recon.findings : Justified(f)

\* What the row comparison reports of an untouched key is so.
LEMMA ComparisonJustified ==
  ASSUME Types, PassInv, recon.step = "rows",
         NEW tgt, tgt = TargetRows(Head(recon.stack)),
         NEW f \in OnSource(recon.rows, tgt) \cup OnTarget(recon.rows, tgt)
  PROVE  Justified(f)
<1> SUFFICES ASSUME NEW k \in Keys, k \in f.keys, Since(k, recon.began)
             PROVE  ~Mirrors(k) \/ Tombstone(k)
  BY DEF Justified
<1>1. \A v \in Images : [key |-> k, val |-> v] \in recon.rows
        <=> k \in Table /\ source[k] # Absent /\ source[k] = v
              /\ InRange(k, Head(recon.stack))
  BY DEF PassInv, RowsInHand
<1>2. /\ source[k] \in Images \cup {Absent} /\ target[k] \in TargetRow \cup {NoRow}
      /\ recon.rows \subseteq SourceRow
  BY DEF Types, Pass
<1>3. ASSUME NEW x \in recon.rows, x.key = k
      PROVE  /\ k \in Table /\ source[k] # Absent /\ source[k] = x.val /\ x.val \in Images
             /\ InRange(k, Head(recon.stack)) /\ x = [key |-> k, val |-> source[k]]
  <2>1. x \in SourceRow
    BY <1>2
  <2>2. x.val \in Images /\ x = [key |-> k, val |-> x.val]
    BY <1>3, <2>1 DEF SourceRow
  <2> QED BY <1>1, <1>3, <2>2
<1>4. \A x \in tgt : x.key = k => /\ k \in Table /\ target[k] # NoRow
                                  /\ InRange(k, Head(recon.stack))
  BY DEF TargetRows
<1>5. k \in Table /\ target[k] # NoRow /\ InRange(k, Head(recon.stack)) =>
        [key |-> k, val |-> target[k].val] \in tgt
  BY DEF TargetRows
<1>6. CASE f \in OnSource(recon.rows, tgt)
  <2>1. PICK x \in recon.rows : x.key = k /\ (k \notin KeysOf(tgt) \/ x \notin tgt)
    BY <1>6 DEF OnSource, Finding, KeysOf
  <2>2. k \notin KeysOf(tgt) => [key |-> k, val |-> target[k].val] \notin tgt
    BY DEF KeysOf
  <2> QED BY <1>3, <1>5, <2>1, <2>2 DEF Mirrors
<1>7. CASE f \in OnTarget(recon.rows, tgt)
  <2>1. k \in KeysOf(tgt) /\ k \notin KeysOf(recon.rows)
    BY <1>7 DEF OnTarget, Finding
  <2>2. k \in Table /\ target[k] # NoRow /\ InRange(k, Head(recon.stack))
    BY <1>4, <2>1 DEF KeysOf
  <2>3. \A v \in Images : [key |-> k, val |-> v] \notin recon.rows
    BY <2>1 DEF KeysOf
  <2>4. source[k] = Absent
    BY <1>1, <1>2, <2>2, <2>3
  <2> QED BY <2>2, <2>4 DEF Mirrors, Tombstone
<1> QED BY <1>6, <1>7

\* A finding that was justified stays so: a key that changes is no longer untouched.
LEMMA StillJustified ==
  ASSUME Types, Undisturbed, recon.began <= events, recon'.began = recon.began,
         NEW f, Justified(f)
  PROVE  Justified(f)'
<1> SUFFICES ASSUME NEW k \in Keys, f.kind # "range_unresolved", k \in f.keys,
                    touched'[k] <= recon.began
             PROVE  (~Mirrors(k) \/ Tombstone(k))'
  BY DEF Justified, Since
<1>1. recon.began \in Nat
  BY DEF Types, Pass
<1>2. Since(k, recon.began) /\ source'[k] = source[k] /\ target'[k] = target[k]
  BY <1>1 DEF Undisturbed
<1> QED BY <1>2 DEF Justified, Mirrors, Tombstone

\* A step that only adds justified findings.
LEMMA AlarmsKept ==
  ASSUME Types, PassInv, Undisturbed, AlarmInv, recon.step # "off", recon'.step # "off",
         recon'.began = recon.began,
         \A f \in recon'.findings : f \in recon.findings \/ Justified(f)
  PROVE  AlarmInv'
<1>1. recon.began <= events
  BY DEF PassInv, PassShape
<1>2. \A f \in recon'.findings : Justified(f)
  BY DEF AlarmInv
<1>3. \A f : Justified(f) => Justified(f)'
  BY <1>1, StillJustified
<1> QED BY <1>2, <1>3 DEF AlarmInv

\* Every step adds justified findings, or drops them all.
LEMMA AlarmStep ==
  ASSUME IndInv, AlarmInv, [Next]_vars
  PROVE  AlarmInv'
<1>0. Types /\ PassInv /\ Undisturbed /\ recon \in Pass
  BY Frame DEF IndInv, Types
<1>1. CASE recon'.findings = {}
  BY <1>1 DEF AlarmInv
<1>2. CASE recon' = recon
  <2>1. CASE recon.step = "off"
    BY <1>1, <1>2, <2>1 DEF AlarmInv
  <2>2. CASE recon.step # "off"
    BY <1>0, <1>2, <2>2, AlarmsKept
  <2> QED BY <2>1, <2>2
<1>3. CASE BeginPass \/ EndTable \/ QueryFails \/ RecordReconcileRun \/ PassLost
  <2>1. \A p \in Pass, t \in Nat : Enter(p, t).findings = {}
    BY DEF Enter, Pass
  <2>2. CASE BeginPass \/ EndTable \/ QueryFails
    <3>1. PICK p \in Pass, t \in Nat : recon' = Enter(p, t)
      <4>1. CASE BeginPass
        <5> DEFINE p == [Off EXCEPT !.began = events]
        <5>1. p \in Pass
          <6>1. <<>> \in Seq(Ranges) /\ events \in Nat
            BY <1>0 DEF Types
          <6> QED BY <6>1 DEF Off, Pass
        <5>2. recon' = Enter(p, 1)
          BY <4>1 DEF BeginPass
        <5> HIDE DEF p
        <5> QED BY <5>1, <5>2
      <4>2. CASE EndTable
        <5> DEFINE n == recon.total + Cardinality(recon.findings)
                   p == [recon EXCEPT !.total = n]
        <5>1. n \in Nat /\ recon.table + 1 \in Nat
          BY <1>0, FS_CardinalityType DEF Types, Pass
        <5>2. recon' = Enter(p, recon.table + 1)
          BY <4>2 DEF EndTable
        <5> HIDE DEF n
        <5>3. p \in Pass
          BY <1>0, <5>1 DEF Pass
        <5> HIDE DEF p
        <5> QED BY <5>1, <5>2, <5>3
      <4>3. CASE QueryFails
        <5> DEFINE p == [recon EXCEPT !.complete = FALSE]
        <5>1. p \in Pass
          BY <1>0 DEF Pass
        <5>2. recon.table + 1 \in Nat
          BY <1>0 DEF Pass
        <5>3. recon' = Enter(p, recon.table + 1)
          BY <4>3 DEF QueryFails
        <5> HIDE DEF p
        <5> QED BY <5>1, <5>2, <5>3
      <4> QED BY <2>2, <4>1, <4>2, <4>3
    <3> QED BY <1>1, <2>1, <3>1
  <2>3. CASE RecordReconcileRun \/ PassLost
    BY <1>1, <2>3 DEF RecordReconcileRun, PassLost, Off
  <2> QED BY <1>3, <2>2, <2>3
<1>4. CASE DigestSource \/ StopAtLimit \/ ReadSourceRows
  <2>1. /\ recon.step # "off" /\ recon'.step # "off" /\ recon'.began = recon.began
        /\ recon'.findings = recon.findings
    BY <1>0, <1>4 DEF DigestSource, StopAtLimit, ReadSourceRows, Pass
  <2> QED BY <1>0, <2>1, AlarmsKept
<1>5. CASE DigestTarget
  <2> DEFINE r == Head(recon.stack)
             new == Finding("range_unresolved", {k \in Table : InRange(k, r)})
  <2>1. Justified(new)
    BY DEF Justified, Finding
  <2>2. recon.step = "digest" /\ recon' = Descended(recon.rows, TargetDigest(r), r)
    BY <1>5 DEF DigestTarget
  <2>3. /\ recon'.step # "off" /\ recon'.began = recon.began
        /\ recon'.findings \in {recon.findings, recon.findings \cup {new}}
    BY <1>0, <2>2 DEF Descended, Return, Pass
  <2> HIDE DEF new
  <2> QED BY <1>0, <2>1, <2>2, <2>3, AlarmsKept
<1>6. CASE CompareRows
  <2> DEFINE tgt == TargetRows(Head(recon.stack))
  <2>1. PICK first \in UpToLimit(recon.findings, OnSource(recon.rows, tgt)) :
          \E all \in UpToLimit(first, OnTarget(recon.rows, tgt)) :
            recon' = [Return(recon) EXCEPT !.findings = all]
    BY <1>6 DEF CompareRows
  <2>2. PICK all \in UpToLimit(first, OnTarget(recon.rows, tgt)) :
          recon' = [Return(recon) EXCEPT !.findings = all]
    BY <2>1
  <2>3. all \subseteq recon.findings
                        \cup (OnSource(recon.rows, tgt) \cup OnTarget(recon.rows, tgt))
    BY <2>1, <2>2 DEF UpToLimit
  <2>4. recon.step = "rows" /\ recon'.step # "off" /\ recon'.began = recon.began
        /\ recon'.findings = all
    BY <1>0, <1>6, <2>2 DEF CompareRows, Return, Pass
  <2>5. \A f \in OnSource(recon.rows, tgt) \cup OnTarget(recon.rows, tgt) : Justified(f)
    BY <1>0, <2>4, ComparisonJustified
  <2> HIDE DEF tgt
  <2> QED BY <1>0, <2>3, <2>4, <2>5, AlarmsKept
<1>7. ASSUME NEW k \in Keys, Replicate(k) \/ \E v \in Images \cup {Absent} : SourceChanges(k, v)
      PROVE  recon' = recon
  BY <1>7 DEF Replicate, SourceChanges
<1>8. CASE ReadState \/ ReadCounts \/ ReadParts \/ LettersChange \/ PartRecorded \/ Tick
  <2>1. recon' = recon
    BY <1>8 DEF ReadState, ReadCounts, ReadParts, LettersChange, PartRecorded, Tick, reconVars
  <2> QED BY <1>2, <2>1
<1>9. ASSUME NEW r \in Requests, SetPhase(r) \/ \E to \in Targets : RequestPhase(r, to)
      PROVE  recon' = recon
  BY <1>9 DEF SetPhase, RequestPhase
<1>10. CASE UNCHANGED vars
  BY <1>2, <1>10 DEF vars, reconVars
<1> QED BY <1>2, <1>3, <1>4, <1>5, <1>6, <1>7, <1>8, <1>9, <1>10
        DEF Next, ReconNext, ReconStep

\* For any instance: the lag of some rows raises no alarm about a row that was the
\* same on both sides during the whole pass (reconcile.go:244-328).
THEOREM AlarmsAreReal == Spec => []NoFalseAlarm
<1>1. Init => AlarmInv
  BY DEF Init, Off, AlarmInv
<1>2. IndInv /\ AlarmInv /\ [Next]_vars => AlarmInv'
  BY AlarmStep
<1>3. AlarmInv => NoFalseAlarm
  BY DEF AlarmInv, Justified, NoFalseAlarm
<1> QED BY <1>1, <1>2, <1>3, Inductive, PTL DEF Spec

=============================================================================
