----------------------------- MODULE MCPipeline -----------------------------
(* Instances of Pipeline for TLC. *)
EXTENDS Pipeline, TLC

CONSTANTS m1, m2, m3, p1, p2

\* Every message costs one byte, except m3, which no ring of the runs can hold.
MCSizes == [m \in Msgs |-> IF m = m3 THEN 5 ELSE 1]

WorkerPerms == Permutations(Workers)
=============================================================================
