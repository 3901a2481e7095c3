--------------------------- MODULE MCRepairWorker ---------------------------
(***************************************************************************)
(* TLC instances of RepairWorker.                                          *)
(***************************************************************************)
EXTENDS RepairWorker, TLC

CONSTANTS k1, k2

Msg(kind, key, lsn, fault) ==
  [kind |-> kind, key |-> key, lsn |-> lsn, val |-> lsn, fault |-> fault]

\* Three failed records: two of one row, and one that does not decode or one
\* that fails for good.
FailedStreams ==
  { 1 :> <<Msg("upsert", k1, 1, "unknown"), Msg("delete", k1, 2, "unknown"),
           Msg("undecodable", k1, 3, "none")>>,
    1 :> <<Msg("upsert", k1, 1, "unknown"), Msg("upsert", k1, 2, "none"),
           Msg("upsert", k2, 3, "permanent")>> }
=============================================================================
