----------------------------- MODULE PartWriter -----------------------------
(***************************************************************************)
(* The file strategy, extract side: a PartWriter writes the rows of the    *)
(* table to part files, rolls to a new part at a threshold, and describes  *)
(* the parts in a manifest that is replaced as a whole by a rename.  The   *)
(* extractor may die at any step, and an extract that is run again writes  *)
(* over the files and the manifest of the one before.                      *)
(*                                                                         *)
(* A file is the sequence of its rows, and the digest of a part is the     *)
(* file it was computed over.  The program that scans the source, and      *)
(* copies a part to the object store when OnSeal announces it, is not in   *)
(* the repository.                                                         *)
(***************************************************************************)
EXTENDS ChangeLog, SequencesExt

CONSTANTS
  NoFile,       \* no file, no object, or no digest
  MaxPartRows,  \* rows at which a part is rolled
  MaxExtracts   \* bound: runs of the extractor

ASSUME MaxPartRowsAssumption == MaxPartRows \in Nat \ {0}

VARIABLES
  writer,    \* the PartWriter: [phase, lsn, cursor, rows, parts]
  file,      \* the part files, by index
  object,    \* their copies in the object store
  manifest,  \* the manifest on disk; one without parts when there is none
  extracts   \* runs of the extractor so far

writerVars == <<writer, file, object, manifest, extracts>>

Indexes == 0 .. Cardinality(Keys)

Part(i, lsn, state, sum) == [index |-> i, lsn |-> lsn, state |-> state, sum |-> sum]

EmptyManifest == [lsn |-> 0, parts |-> <<>>, rows |-> 0, complete |-> FALSE]

OffWriter == [phase |-> "off", lsn |-> 0, cursor |-> 0, rows |-> 0, parts |-> <<>>]

WriterInit ==
  /\ writer = OffWriter
  /\ file = [i \in Indexes |-> NoFile]
  /\ object = [i \in Indexes |-> NoFile]
  /\ manifest = EmptyManifest
  /\ extracts = 0

-----------------------------------------------------------------------------
(***************************************************************************)
(* The manifest.                                                           *)
(***************************************************************************)

Eligible(p) == p.state = "sealed" /\ p.sum # NoFile

\* The loader takes them in index order.
SealedParts(m) == {p \in Range(m.parts) : Eligible(p)}

RowsIn(p) == IF Eligible(p) THEN Len(p.sum) ELSE 0

TotalRows(parts) == FoldFunction(+, 0, [i \in DOMAIN parts |-> RowsIn(parts[i])])

\* The part and row checks of Validate.
Validate(m) ==
  /\ \A i, j \in DOMAIN m.parts : i # j => m.parts[i].index # m.parts[j].index
  /\ \A i \in DOMAIN m.parts : m.parts[i].state = "sealed" => m.parts[i].sum # NoFile
  /\ m.complete => /\ \A i \in DOMAIN m.parts : m.parts[i].state # "writing"
                   /\ TotalRows(m.parts) = m.rows

\* VerifyPart: size and digest of the local file against the manifest.
VerifyPart(p) == p.sum # NoFile /\ file[p.index] = p.sum

-----------------------------------------------------------------------------
(***************************************************************************)
(* The PartWriter.                                                         *)
(***************************************************************************)

CurIndex == Last(writer.parts).index

CurRows == file[CurIndex]

BuildManifest(w, complete) ==
  [lsn |-> w.lsn, parts |-> w.parts, rows |-> w.rows, complete |-> complete]

\* NewPartWriter up to and including roll: the first file is truncated while
\* the manifest of an earlier extract is still in place.
NewPartWriter ==
  /\ writer.phase = "off"
  /\ extracts < MaxExtracts
  /\ extracts' = extracts + 1
  /\ writer' = [phase |-> "created", lsn |-> Len(log), cursor |-> 0, rows |-> 0,
                parts |-> <<Part(0, Len(log), "writing", NoFile)>>]
  /\ file' = [file EXCEPT ![0] = <<>>]
  /\ UNCHANGED <<logVars, object, manifest>>

\* NewPartWriter's writeManifest(false).
WriteFirstManifest ==
  /\ writer.phase = "created"
  /\ manifest' = BuildManifest(writer, FALSE)
  /\ writer' = [writer EXCEPT !.phase = "scan"]
  /\ UNCHANGED <<logVars, file, object, extracts>>

Unscanned == {k \in Live : k > writer.cursor}

\* seal: the part's record and the manifest, before the callback.  The rows of
\* the file are final.
Sealed(w, rows) ==
  [w EXCEPT !.parts[Len(w.parts)] = Part(CurIndex, w.lsn, "sealed", rows)]

\* MUTANT: the record buffer is not reset, a row after the first repeats it.
WriteRowStaleRecord ==
  /\ writer.phase = "scan"
  /\ Unscanned # {}
  /\ LET k    == Min(Unscanned)
         rows == Append(CurRows, IF CurRows = <<>> THEN Current(k) ELSE Last(CurRows))
         w    == [writer EXCEPT !.cursor = k, !.rows = @ + 1]
     IN
     /\ file' = [file EXCEPT ![CurIndex] = rows]
     /\ \/ /\ Len(rows) < MaxPartRows
           /\ writer' = w
           /\ UNCHANGED manifest
        \/ /\ writer' = Sealed([w EXCEPT !.phase = "announceRoll"], rows)
           /\ manifest' = BuildManifest(writer', FALSE)
  /\ UNCHANGED <<logVars, object, extracts>>

\* The next row of the scan.  The part rolls at MaxPartRows, or earlier when
\* its bytes reach their threshold: it is sealed and the manifest written.
WriteRow ==
  /\ writer.phase = "scan"
  /\ Unscanned # {}
  /\ LET k    == Min(Unscanned)
         rows == Append(CurRows, Current(k))
         w    == [writer EXCEPT !.cursor = k, !.rows = @ + 1]
     IN
     /\ file' = [file EXCEPT ![CurIndex] = rows]
     /\ \/ /\ Len(rows) < MaxPartRows
           /\ writer' = w
           /\ UNCHANGED manifest
        \/ /\ writer' = Sealed([w EXCEPT !.phase = "announceRoll"], rows)
           /\ manifest' = BuildManifest(writer', FALSE)
  /\ UNCHANGED <<logVars, object, extracts>>

\* OnSeal: the part is copied to the object store.
OnSeal ==
  /\ writer.phase \in {"announceRoll", "announceClose"}
  /\ object' = [object EXCEPT ![CurIndex] = CurRows]
  /\ writer' = [writer EXCEPT !.phase = IF @ = "announceRoll" THEN "open" ELSE "finish"]
  /\ UNCHANGED <<logVars, file, manifest, extracts>>

\* roll's second half: the next part, which the manifest does not list yet.
OpenNext ==
  /\ writer.phase = "open"
  /\ LET i == CurIndex + 1 IN
     /\ file' = [file EXCEPT ![i] = <<>>]
     /\ writer' = [writer EXCEPT !.phase = "scan",
                                 !.parts = Append(@, Part(i, writer.lsn, "writing", NoFile))]
  /\ UNCHANGED <<logVars, object, manifest, extracts>>

\* Close, after the last row: an empty trailing part is removed, any other is
\* sealed.
CloseDropsEmpty ==
  /\ writer.phase = "scan"
  /\ Unscanned = {}
  /\ CurRows = <<>> /\ Len(writer.parts) > 1
  /\ file' = [file EXCEPT ![CurIndex] = NoFile]
  /\ writer' = [writer EXCEPT !.phase = "finish", !.parts = Front(@)]
  /\ UNCHANGED <<logVars, object, manifest, extracts>>

CloseSeals ==
  /\ writer.phase = "scan"
  /\ Unscanned = {}
  /\ CurRows # <<>> \/ Len(writer.parts) = 1
  /\ writer' = Sealed([writer EXCEPT !.phase = "announceClose"], CurRows)
  /\ manifest' = BuildManifest(writer', FALSE)
  /\ UNCHANGED <<logVars, file, object, extracts>>

\* Close: the complete manifest replaces the last one.
Finish ==
  /\ writer.phase = "finish"
  /\ Validate(BuildManifest(writer, TRUE))
  /\ manifest' = BuildManifest(writer, TRUE)
  /\ writer' = OffWriter
  /\ UNCHANGED <<logVars, file, object, extracts>>

\* A crash, or an error of any step: the caller gives the extract up.
ExtractorDies ==
  /\ writer.phase # "off"
  /\ writer' = OffWriter
  /\ UNCHANGED <<logVars, file, object, manifest, extracts>>

WriterNext ==
  \/ NewPartWriter \/ WriteFirstManifest \/ WriteRow \/ OnSeal \/ OpenNext
  \/ CloseDropsEmpty \/ CloseSeals \/ Finish \/ ExtractorDies

=============================================================================
