--------------------------- MODULE SnapshotWindow ---------------------------
(***************************************************************************)
(* The stream strategy: chunks are read between two watermarks written to  *)
(* the source's log and held in a Window until the high watermark comes    *)
(* back through the change stream.  The Window's methods are functions on  *)
(* its state.  The extractor and the consumer that call them are not in    *)
(* the repository; they follow the five steps of the Window's comment.     *)
(***************************************************************************)
EXTENDS ChangeLog

CONSTANTS
  Chunks,      \* a sequence of sets of keys: the chunks of the table
  MaxAborts,   \* bound: chunk reads given up
  MaxRestarts  \* bound: restarts of the consumer

ASSUME ChunksAssumption ==
  /\ Chunks \in Seq(SUBSET Keys)
  /\ UNION {Chunks[c] : c \in DOMAIN Chunks} = Keys
  /\ \A c, d \in DOMAIN Chunks : c # d => Chunks[c] \cap Chunks[d] = {}

VARIABLES
  win,       \* the Window: [state, chunk, rows]; rows are the buffered ones
  reader,    \* the extractor: [phase, chunk, rows, again, lowAt, highAt, late]
  done,      \* the chunks that were emitted
  aborts,    \* chunk reads given up so far
  restarts   \* restarts of the consumer so far

windowVars == <<win, reader, done, aborts, restarts>>

-----------------------------------------------------------------------------
(***************************************************************************)
(* The Window.                                                             *)
(***************************************************************************)

NewWindow == [state |-> "idle", chunk |-> 0, rows |-> {}]

\* A chunk is offered as the set of its rows and of those before the first row
\* that comes again ({} when none does); the read order, in which the rows are
\* emitted, is of no consequence to the rows of the target.

\* Buffer's error cases: another chunk is in flight, or the chunk overlaps.
BufferFails(w, again) == w.state # "idle" \/ again # {}

\* A duplicate key leaves the chunk id and the rows before it behind, idle.
Buffer(w, chunk, rows, again) ==
  IF w.state # "idle" THEN w
  ELSE IF again = {}
         THEN [state |-> "buffered", chunk |-> chunk, rows |-> rows]
         ELSE [state |-> "idle", chunk |-> chunk, rows |-> again]

OnLowWatermark(w, chunk) ==
  IF w.state = "buffered" /\ w.chunk = chunk THEN [w EXCEPT !.state = "open"] ELSE w

\* MUTANT: the rows an event supersedes stay in the window.
OnEventIgnored(w, key) == w

OnEvent(w, key) ==
  IF w.state = "open"
    THEN [w EXCEPT !.rows = {r \in @ : r.key # key}]
    ELSE w

\* MUTANT: a window whose rows were all evicted is not closed.
ClosesNonEmpty(w, chunk) == w.state = "open" /\ w.chunk = chunk /\ w.rows # {}

Closes(w, chunk) == w.state = "open" /\ w.chunk = chunk

\* The rows OnHighWatermark returns.
Emitted(w, chunk) == IF Closes(w, chunk) THEN w.rows ELSE {}

OnHighWatermark(w, chunk) == IF Closes(w, chunk) THEN NewWindow ELSE w

Abort == NewWindow

-----------------------------------------------------------------------------
(***************************************************************************)
(* The extractor and the consumer.                                         *)
(***************************************************************************)

IdleReader ==
  [phase |-> "idle", chunk |-> 0, rows |-> {}, again |-> {}, lowAt |-> 0, highAt |-> 0,
   late |-> FALSE]

WindowInit ==
  /\ win = NewWindow
  /\ reader = IdleReader
  /\ done = {}
  /\ aborts = 0
  /\ restarts = 0

\* Step 1: the next chunk's low watermark is written, once the window is idle.
WriteLow ==
  /\ reader.phase = "idle"
  /\ win.state = "idle"
  /\ DOMAIN Chunks \ done # {}
  /\ LET c == Min(DOMAIN Chunks \ done) IN
     /\ log' = Append(log, Entry("low", c))
     /\ reader' = [IdleReader EXCEPT !.phase = "low", !.chunk = c, !.lowAt = Len(log) + 1]
  /\ UNCHANGED <<seeded, pos, target, win, done, aborts, restarts>>

RowsOf(chunk) == {Current(k) : k \in Chunks[chunk] \cap Live}

\* Step 2: one SELECT; an overlapping predicate returns a row twice.
ReadChunk ==
  /\ reader.phase = "low"
  /\ \E again \in SUBSET RowsOf(reader.chunk) :
       reader' = [reader EXCEPT !.phase = "read", !.rows = RowsOf(reader.chunk),
                                !.again = again]
  /\ UNCHANGED <<logVars, win, done, aborts, restarts>>

BufferChunk ==
  /\ reader.phase = "read"
  /\ win' = Buffer(win, reader.chunk, reader.rows, reader.again)
  /\ reader' = [reader EXCEPT
       !.phase = IF BufferFails(win, reader.again) THEN "failed" ELSE "buffered",
       !.late  = pos >= reader.lowAt]
  /\ UNCHANGED <<logVars, done, aborts, restarts>>

\* Step 3.
WriteHigh ==
  /\ reader.phase = "buffered"
  /\ log' = Append(log, Entry("high", reader.chunk))
  /\ reader' = [reader EXCEPT !.phase = "wait", !.highAt = Len(log) + 1]
  /\ UNCHANGED <<seeded, pos, target, win, done, aborts, restarts>>

ChunkDone ==
  /\ reader.phase = "wait"
  /\ reader.chunk \in done
  /\ reader' = IdleReader
  /\ UNCHANGED <<logVars, win, done, aborts, restarts>>

\* The read fails, Buffer fails, or the high watermark has gone by unanswered:
\* the chunk is given up and read again from the beginning.
AbortChunk ==
  /\ \/ reader.phase \in {"low", "failed"}
     \/ reader.phase = "wait" /\ pos >= reader.highAt /\ reader.chunk \notin done
  /\ aborts < MaxAborts
  /\ aborts' = aborts + 1
  /\ win' = Abort
  /\ reader' = IdleReader
  /\ UNCHANGED <<logVars, done, restarts>>

EmittedOnto(rows, emitted, lsn) ==
  [k \in Keys |->
     IF \E r \in emitted : r.key = k
       THEN FencedUpsert(rows[k], lsn, (CHOOSE r \in emitted : r.key = k).ver)
       ELSE rows[k]]

\* Steps 4 and 5: the next entry of the stream.
ObserveChange ==
  /\ pos < Len(log) /\ IsChange(log[pos + 1])
  /\ target' = Applied(target, log[pos + 1], pos + 1)
  /\ win' = OnEvent(win, log[pos + 1].of)
  /\ pos' = pos + 1
  /\ UNCHANGED <<seeded, log, reader, done, aborts, restarts>>

ObserveLow ==
  /\ pos < Len(log) /\ log[pos + 1].kind = "low"
  /\ win' = OnLowWatermark(win, log[pos + 1].of)
  /\ pos' = pos + 1
  /\ UNCHANGED <<seeded, log, target, reader, done, aborts, restarts>>

ObserveHigh ==
  /\ pos < Len(log) /\ log[pos + 1].kind = "high"
  /\ LET c == log[pos + 1].of IN
     /\ target' = EmittedOnto(target, Emitted(win, c), pos + 1)
     /\ done' = IF Closes(win, c) THEN done \cup {c} ELSE done
     /\ win' = OnHighWatermark(win, c)
  /\ pos' = pos + 1
  /\ UNCHANGED <<seeded, log, reader, aborts, restarts>>

\* The process restarts: the window was memory only, and the stream is replayed
\* from an offset at or before the last entry it delivered.
RestartConsumer ==
  /\ restarts < MaxRestarts
  /\ restarts' = restarts + 1
  /\ pos' \in 0 .. pos
  /\ win' = NewWindow
  /\ reader' = IdleReader
  /\ UNCHANGED <<seeded, log, target, done, aborts>>

WindowNext ==
  \/ WriteLow \/ ReadChunk \/ BufferChunk \/ WriteHigh \/ ChunkDone \/ AbortChunk
  \/ ObserveChange \/ ObserveLow \/ ObserveHigh
  \/ RestartConsumer

=============================================================================
