----------------------------- MODULE MCPipeline -----------------------------
(***************************************************************************)
(* TLC instances of Pipeline.                                              *)
(***************************************************************************)
EXTENDS Pipeline, TLC

CONSTANTS k1, k2

Msg(kind, key, lsn, val, fault) ==
  [kind |-> kind, key |-> key, lsn |-> lsn, val |-> val, fault |-> fault]

\* A record fails before and after changes to the same row, and beside a change to
\* another.
DistinctLSNs ==
  { 1 :> <<Msg("upsert", k1, 1, 1, "unknown"), Msg("upsert", k1, 2, 2, "none"),
           Msg("delete", k1, 3, 3, "unknown")>>,
    1 :> <<Msg("upsert", k1, 1, 1, "none"), Msg("upsert", k2, 2, 2, "permanent")>> }

\* One source transaction changes a row twice: both records carry its LSN.
SameLSN ==
  { 1 :> <<Msg("upsert", k1, 1, 1, "unknown"), Msg("upsert", k1, 1, 2, "none")>> }
=============================================================================
