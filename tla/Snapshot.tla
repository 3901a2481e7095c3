------------------------------ MODULE Snapshot ------------------------------
(***************************************************************************)
(* Phase 1 of a migration under either strategy: the file strategy's parts *)
(* and loader, or the stream strategy's window, beside the change stream.  *)
(***************************************************************************)
EXTENDS PartLoader, SnapshotWindow

CONSTANT MaxChanges(_)  \* bound: changes the source makes under a strategy

VARIABLE strategy  \* how this table is extracted

vars == <<logVars, writerVars, loaderVars, windowVars, strategy>>

Init ==
  /\ strategy \in {"file", "stream"}
  /\ LogInit /\ WriterInit /\ LoaderInit /\ WindowInit
  /\ strategy = "stream" => engine = CHOOSE e \in Engines : TRUE  \* it plays no part

\* The file strategy leaves out rows that are created again after a delete:
\* MergeStaging is known to hide them (FencedRow, run recreated).
Changes ==
  /\ Cardinality({i \in DOMAIN log : IsChange(log[i])}) < MaxChanges(strategy)
  /\ \E k \in Keys, kind \in {"upsert", "delete"} :
       /\ strategy = "file" /\ kind = "upsert" =>
            k \in Live \/ ~\E i \in DOMAIN log : log[i] = Entry("delete", k)
       /\ SourceChange(k, kind)

Next ==
  \/ Changes /\ UNCHANGED <<writerVars, loaderVars, windowVars, strategy>>
  \/ /\ strategy = "file"
     /\ \/ WriterNext /\ UNCHANGED loaderVars
        \/ LoaderNext
     /\ UNCHANGED <<windowVars, strategy>>
  \/ /\ strategy = "stream"
     /\ WindowNext
     /\ UNCHANGED <<writerVars, loaderVars, strategy>>

Spec == Init /\ [][Next]_vars

-----------------------------------------------------------------------------
(***************************************************************************)
(* Properties.                                                             *)
(***************************************************************************)

\* A row of the target never carries an LSN newer than what it shows: a stale
\* snapshot row does not overwrite a fresher change whatever order they arrive
\* in (snapshot/manifest.go:20-23), unless the import did not bring the rows
\* the verified digest stands for.
NeverStale == \A k \in Keys \ tainted : FreshRow(k)

\* On Postgres what a load merges is exactly what it imported: the staging
\* table is private to the load transaction (docs/adr/0007, loader main.go:198).
StagingIsPrivate ==
  engine = "postgres" =>
    \A g \in Goroutines : load[g].phase = "imported" => staging = load[g].rows

\* A complete manifest lists every row that was there during the whole extract,
\* once (PartWriter.Close, Manifest.Validate).
Parted(k) ==
  {x \in (1 .. Len(manifest.parts)) \X (1 .. MaxPartRows) :
     /\ x[2] \in DOMAIN manifest.parts[x[1]].sum
     /\ manifest.parts[x[1]].sum[x[2]].key = k}

CompleteManifestCoversTable ==
  manifest.complete =>
    \A k \in Keys :
      (\A n \in manifest.lsn .. Len(log) : LiveAt(k, n)) => Cardinality(Parted(k)) = 1

\* The loader is through, as PartLoaded sees it: every part of the complete
\* manifest is recorded, and every recorded load merged the rows it verified.
Recorded ==
  /\ manifest.complete
  /\ \A i \in DOMAIN manifest.parts : PartLoaded(manifest.parts[i].index)
  /\ \A e \in partState : e.whole

\* k is in a part that an extract run again has replaced under an index already
\* recorded: PartLoaded asks by index, and the new part is never loaded.
Replaced(k) ==
  \E i \in DOMAIN manifest.parts :
    /\ \E j \in DOMAIN manifest.parts[i].sum : manifest.parts[i].sum[j].key = k
    /\ ~\E e \in partState : /\ e.index = manifest.parts[i].index
                             /\ e.sum = manifest.parts[i].sum

Drained == pos = Len(log)

\* Once the snapshot is through and the stream has delivered every change the
\* target shows the source, with neither a gap nor an overlap at the seam
\* between the two (docs/adr/0003, docs/adr/0007), also when the extract or the
\* loader died on the way; only the rows of replaced parts may be missing,
\* although the failure table says "re-extract that part" loses nothing
\* (docs/architecture.md:388, store.go:340-362).
MirrorsWhenThrough ==
  /\ Drained
  /\ IF strategy = "file" THEN Recorded ELSE done = DOMAIN Chunks
  => \A k \in Keys \ tainted : Mirrors(k) \/ Replaced(k)

\* A chunk buffered before its low watermark came back is emitted when its high
\* watermark does (snapshot/window.go:148-213): only a late Buffer is stuck.
OnlyLateChunksStick ==
  reader.phase = "wait" /\ pos >= reader.highAt /\ reader.chunk \notin done
    => reader.late

=============================================================================
