----------------------------- MODULE MCSnapshot -----------------------------
(***************************************************************************)
(* Instances of Snapshot.                                                  *)
(***************************************************************************)
EXTENDS Snapshot

OneChunk == <<{1, 2}>>

FewChanges(strat) == IF strat = "file" THEN 1 ELSE 2
FaultsOn(e) == IF e = "postgres" THEN 1 ELSE 0

LoaderSymmetry == Permutations(Goroutines)

=============================================================================
