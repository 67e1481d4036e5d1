---------------------------- MODULE MCJsonFileDb ----------------------------
(* Instances of the JSON engine: what may fail, and how often.              *)
EXTENDS JsonFileDb, TLC

Around(what, m, n) == [faults |-> what, damages |-> m, crashes |-> n]

Failing == Around({"modify", "disk", "remote"}, 0, 1)
Damaged == Around({"damage"}, 2, 1)
InPlace == Around({"modify", "disk", "rename"}, 0, 0)
Erased == Around({"disk", "rename", "erased"}, 0, 0)
Everything == Around({"modify", "disk", "rename", "timeout", "remote", "unfilled"}, 0, 1)
LockFaults == Around({"modify", "timeout", "remote", "unfilled"}, 0, 0)

EverySurroundings == {Failing, Damaged, InPlace, Erased, Everything}
WaitsForLock == {LockFaults, Around({"damage", "timeout"}, 1, 0)}
RepairedFile == {Around({"damage", "modify"}, 1, 0)}

\* Threads, writes and foreign writes are interchangeable.
Symmetry == Permutations(Threads) \cup Permutations(Writes) \cup Permutations(Foreign)
=============================================================================
