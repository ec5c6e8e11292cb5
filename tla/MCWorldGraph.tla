---------------------------- MODULE MCWorldGraph ----------------------------
(* The instance TLC checks: see MCGraphData.cfg for the bounds.           *)
EXTENDS WorldGraph, TLC
Sym == Permutations(NodeIds)
============================================================================
