--------------------------- MODULE MCRollupPipeline ---------------------------
(***************************************************************************)
(* RollupPipeline for TLC.  Sizes are the code's: a large transaction is   *)
(* about as large as the rest of a small batch.                            *)
(***************************************************************************)
EXTENDS RollupPipeline

CONSTANTS small, large

Sizes == (small :> 10) @@ (large :> 60)

SmallOnly == small :> 10

\* The sequencer's clock may be behind L1.
Skews == {-1, 0}
=============================================================================
