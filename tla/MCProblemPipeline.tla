-------------------------- MODULE MCProblemPipeline --------------------------
(* Values for TLC: problems k1, k2 have files before the first start, the    *)
(* others are sent by clients.  Copied files carry the id of the original,   *)
(* as src/pack holds p1.aiq and something.bin, both with id 1.               *)
EXTENDS ProblemPipeline, TLC

CONSTANTS k1, k2, n1, n2, n3, copy, copy2

OnePreloadedId == k1 :> 0
OnePreloadedName == k1 :> 0
TwinPreloadedId == k1 :> 1 @@ k2 :> 1
TwinPreloadedName == k1 :> 1 @@ k2 :> copy
=============================================================================
