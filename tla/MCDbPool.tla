------------------------------ MODULE MCDbPool ------------------------------
(* Instances of DbPool for TLC: pools of one and of two connections.       *)
EXTENDS DbPool

Pool(size, faults) == [maxConn |-> size, faults |-> faults]
EveryPool == {Pool(n, f) : n \in 1..2, f \in SUBSET {"connect", "exec"}}
SqlitePool == {Pool(1, {"connect", "exec"})}
=============================================================================
