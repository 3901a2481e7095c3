---------------------------- MODULE MCCdcApplier ----------------------------
(***************************************************************************)
(* TLC instances of CdcApplier.                                            *)
(***************************************************************************)
EXTENDS CdcApplier, TLC

CONSTANTS k1, k2

\* Replicas are alike.
Replicas == Permutations(Appliers)

\* The i-th change of a log writes the value i; LSNs are those of the source.
Msg(kind, key, lsn, val, fault) ==
  [kind |-> kind, key |-> key, lsn |-> lsn, val |-> val, fault |-> fault]
Good(key, i) == Msg("upsert", key, i, i, "none")
Gone(key, i) == Msg("delete", key, i, i, "none")
Refused(key, i, class) == Msg("upsert", key, i, i, class)
Skip(i) == Msg("skip", k1, i, i, "none")
Garbled(i) == Msg("undecodable", k1, i, i, "none")

\* One busy partition: a hot row, a record the target refuses, a message that
\* does not decode, a refusal that looks like an outage.
OnePartition ==
  { 1 :> <<Good(k1, 1), Refused(k2, 2, "unknown"), Gone(k1, 3)>>,
    1 :> <<Refused(k1, 1, "permanent"), Good(k1, 2), Skip(3)>>,
    1 :> <<Garbled(1), Good(k1, 2), Refused(k1, 3, "unknown")>>,
    1 :> <<Good(k1, 1), Refused(k2, 2, "transient"), Refused(k1, 3, "permanent")>> }

\* The same with an idle second partition, and a stream whose batches span two
\* partitions.
TwoPartitions ==
  {l @@ (2 :> <<>>) : l \in OnePartition} \cup
  { (1 :> <<Refused(k1, 1, "unknown")>>) @@ (2 :> <<Good(k2, 2), Gone(k2, 3)>>) }

\* Nothing wrong with any record.
Clean == { 1 :> <<Good(k1, 1), Good(k2, 2)>> }
CleanTwoPartitions == { (1 :> <<Good(k1, 1)>>) @@ (2 :> <<Good(k2, 2)>>) }
=============================================================================
