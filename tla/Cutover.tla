------------------------------ MODULE Cutover -------------------------------
(***************************************************************************)
(* The cutover gate and the control plane beside a running reconciler: the *)
(* phase machine, phase changes by concurrent requests, and an evaluation  *)
(* of the gate from three separate reads of the control tables.            *)
(***************************************************************************)
EXTENDS Reconciler

CONSTANTS
  Thresholds,  \* the record the gate is configured with
  Requests,    \* bound: POST /v1/phase requests in flight
  FirstStates, \* bound: the migration_state rows a behaviour may begin with
  FirstRows,   \* bound: the rows each key may begin with: [src, tgt]
  Targets,     \* bound: the phases that are requested
  MaxParts     \* bound: parts that are loaded

ASSUME ThresholdsAssumption == Thresholds.maxFindings = 0
ASSUME FirstRowsAssumption ==
  \A k \in Keys :
    FirstRows[k] \subseteq [src : Images \cup {Absent},
                           tgt : [deleted : BOOLEAN, val : Images] \cup {NoRow}]

VARIABLES
  letters,   \* the number of open dead letters
  parts,     \* the number of rows of part_state
  gate,      \* an evaluation: [step, state, open, blockers]
  request    \* the phase requests: [from, to], or NoRequest

controlVars == <<letters, parts, gate, request>>
vars == <<reconVars, controlVars>>

-----------------------------------------------------------------------------
(***************************************************************************)
(* The phase machine.                                                      *)
(***************************************************************************)

validTransitions ==
  [planning          |-> {"extracting", "failed"},
   extracting        |-> {"loading", "streaming", "failed"},
   loading           |-> {"extracting", "streaming", "failed"},
   streaming         |-> {"verifying", "loading", "failed"},
   verifying         |-> {"ready_for_cutover", "streaming", "failed"},
   ready_for_cutover |-> {"cutting_over", "streaming", "verifying", "failed"},
   cutting_over      |-> {"cutover", "rolled_back", "failed"},
   cutover           |-> {"completed", "rolled_back"},
   completed         |-> {},
   rolled_back       |-> {"streaming", "failed"},
   failed            |-> {"planning"}]

Phases == DOMAIN validTransitions

ASSUME TargetsAssumption == Targets \subseteq Phases

\* A row an operator inserted says nothing of a pass.
ASSUME FirstStatesAssumption ==
  FirstStates \ {NoState} \subseteq {NewState(phase, armed) : phase \in Phases, armed \in BOOLEAN}

CanTransitionTo(from, to) == to \in validTransitions[from]

\* MUTANT: the known phases are checked and the table is not.
TransitionToAnyPhase(from, to) == from \in Phases /\ to \in Phases

\* Transition returns no error.
Transition(from, to) == from = to \/ CanTransitionTo(from, to)

-----------------------------------------------------------------------------
(***************************************************************************)
(* The gate.                                                               *)
(***************************************************************************)

\* Evaluate: every reason there is, by its code.
Evaluate(o, t) ==
  LET laggy  == t.maxLag > 0 /\ o.lag > t.maxLag
      active ==
        [wrong_phase |->
           o.phase \notin {"ready_for_cutover", "verifying", "streaming"},
         lag_above_threshold |-> laggy,
         lag_not_stable_long_enough |->
           ~laggy /\ t.lagStableFor > 0 /\ o.lagUnder < t.lagStableFor,
         open_dead_letters |-> o.open > t.maxOpen,
         reconciliation_findings |-> o.findings > t.maxFindings,
         reconciliation_incomplete |-> ~o.complete,
         reconciliation_stale |->
           o.complete /\ t.maxAge > 0 /\ (o.ranAt = 0 \/ o.now - o.ranAt > t.maxAge),
         parts_not_loaded |-> t.requireParts /\ o.loaded < o.total,
         reverse_replication_not_armed |-> t.requireReverse /\ ~o.armed]
  IN  {code \in DOMAIN active : active[code]}

-----------------------------------------------------------------------------
(***************************************************************************)
(* The control plane.                                                      *)
(***************************************************************************)

NoRequest == [from |-> "none", to |-> "none"]

IdleGate == [step |-> "idle", state |-> NewState("planning", FALSE), open |-> 0,
             blockers |-> {}]

Init ==
  /\ \E rows \in [Keys -> UNION {FirstRows[k] : k \in Keys}] :
       /\ \A k \in Keys : rows[k] \in FirstRows[k]
       /\ source = [k \in Keys |-> rows[k].src]
       /\ target = [k \in Keys |-> rows[k].tgt]
  /\ recon = Off
  /\ state \in FirstStates
  /\ now = 1
  /\ events = 0
  /\ touched = [k \in Keys |-> 0]
  /\ letters = 0
  /\ parts = 0
  /\ gate = IdleGate
  /\ request = [r \in Requests |-> NoRequest]

\* Without a row the migration is in planning.
LoadState == IF state = NoState THEN NewState("planning", FALSE) ELSE state

\* evaluate, first read.
ReadState ==
  /\ gate.step \in {"idle", "done"}
  /\ gate' = [IdleGate EXCEPT !.step = "counts", !.state = LoadState]
  /\ UNCHANGED <<reconVars, letters, parts, request>>

\* Second read: Counts, and Counts.Open.
ReadCounts ==
  /\ gate.step = "counts"
  /\ gate' = [gate EXCEPT !.step = "parts", !.open = letters]
  /\ UNCHANGED <<reconVars, letters, parts, request>>

\* part_state has rows of loaded parts only.
PartCounts == [total |-> parts, loaded |-> parts]

\* The lag feed is a placeholder.
currentLag == [current |-> 0, stableFor |-> 0]

\* Third read and the verdict.
ReadParts ==
  /\ gate.step = "parts"
  /\ LET st == gate.state
         observed == [phase |-> st.phase, lag |-> currentLag.current,
                      lagUnder |-> currentLag.stableFor, open |-> gate.open,
                      findings |-> st.findings, ranAt |-> st.ranAt,
                      complete |-> st.complete, total |-> PartCounts.total,
                      loaded |-> PartCounts.loaded, armed |-> st.armed, now |-> now]
     IN  gate' = [gate EXCEPT !.step = "done", !.blockers = Evaluate(observed, Thresholds)]
  /\ UNCHANGED <<reconVars, letters, parts, request>>

\* POST /v1/phase: SetPhase reads the phase and checks the transition ...
RequestPhase(r, to) ==
  /\ request[r] = NoRequest
  /\ Transition(LoadState.phase, to)
  /\ Event
  /\ request' = [request EXCEPT ![r] = [from |-> LoadState.phase, to |-> to]]
  /\ UNCHANGED <<source, target, recon, state, now, touched, letters, parts, gate>>

\* ... and updates the row whatever its phase is by then.
SetPhase(r) ==
  /\ request[r] # NoRequest
  /\ state' = IF state = NoState THEN NoState ELSE [state EXCEPT !.phase = request[r].to]
  /\ request' = [request EXCEPT ![r] = NoRequest]
  /\ UNCHANGED <<source, target, recon, now, events, touched, letters, parts, gate>>

-----------------------------------------------------------------------------
(***************************************************************************)
(* The other services, as far as the gate sees them.                       *)
(***************************************************************************)

LettersChange ==
  /\ Event
  /\ letters' = 1 - letters
  /\ UNCHANGED <<source, target, recon, state, now, touched, parts, gate, request>>

PartRecorded ==
  /\ parts < MaxParts
  /\ Event
  /\ parts' = parts + 1
  /\ UNCHANGED <<source, target, recon, state, now, touched, letters, gate, request>>

Tick ==
  /\ Event
  /\ now' = now + 1
  /\ UNCHANGED <<source, target, recon, state, touched, controlVars>>

Next ==
  \/ ReconNext /\ UNCHANGED controlVars
  \/ ReadState \/ ReadCounts \/ ReadParts
  \/ \E r \in Requests : SetPhase(r) \/ \E to \in Targets : RequestPhase(r, to)
  \/ LettersChange \/ PartRecorded \/ Tick

Spec == Init /\ [][Next]_vars

-----------------------------------------------------------------------------
(***************************************************************************)
(* Properties.                                                             *)
(***************************************************************************)

\* When a table's descent is over and the limit of findings was not reached,
\* every visible difference that has been there since the pass began is one of
\* the findings, or in a range reported as unresolved, whatever changed around
\* it between the queries (reconcile.go:172-328).
DifferencesLocalised ==
  TableDone /\ ~AtLimit =>
    \A k \in Table : Visible(k) /\ Since(k, recon.began) => Reported(k)

\* A row that was the same on both sides during the whole pass, and no
\* tombstone, is never reported by itself: lag elsewhere raises no false alarm
\* about it (reconcile.go:244-328).
NoFalseAlarm ==
  \A f \in recon.findings, k \in Keys :
    f.kind # "range_unresolved" /\ k \in f.keys /\ Since(k, recon.began)
      => ~Mirrors(k) \/ Tombstone(k)

\* The gate reports ready only if a pass has compared every table without an
\* error and a finding, so that no visible difference has been there since that
\* pass began: not when a table failed, when the findings were cut off, when
\* parts are missing that part_state does not count, or when the row was read
\* before another pass was recorded (phase.go:201-280, reconciler main.go:77-123).
ReadyMeansVerified ==
  gate.step = "done" /\ gate.blockers = {} =>
    \A k \in Keys : (\E i \in DOMAIN Tables : k \in Tables[i]) /\ Since(k, gate.state.began)
                       => ~Visible(k)

\* The phase only moves along the table, except by a request whose check rests
\* on a phase that another request has changed since (store.go:309-324).
IllegalMovesAreRaces ==
  [][state # NoState /\ state'.phase # state.phase =>
       \/ CanTransitionTo(state.phase, state'.phase)
       \/ \E r \in Requests : /\ request[r].to = state'.phase /\ request'[r] = NoRequest
                               /\ request[r].from # state.phase]_vars

=============================================================================
