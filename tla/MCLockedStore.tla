---------------------------- MODULE MCLockedStore ----------------------------
(* Instances of LockedStore: processes of one or two machines, and engine  *)
(* instances that share a process.                                         *)
EXTENDS LockedStore

CONSTANTS p1, p2, p3, twin

OnePerProcess == [l \in Lockers |-> l]
TwinInP1 == [l \in Lockers |-> IF l = twin THEN p1 ELSE l]
AnyPoint == PC \ {"dead"}
NotInCreate == PC \ {"dead", "write"}

Together == [p \in Procs |-> "host"]
Apart == [p \in Procs |-> IF p = p2 THEN "other" ELSE "host"]
Usual(host) == [host |-> host, slow |-> {}, foreign |-> {}, reused |-> {},
                stuck |-> FALSE, crashes |-> 1]
Calm1 == [Usual(Together) EXCEPT !.crashes = 0]

\* Where no reclaim is due the data file is followed.
CalmSurroundings == {Calm1, [Calm1 EXCEPT !.host = Apart]}
OneMachine == {Usual(Together)}
EverySurroundings ==
  CalmSurroundings \cup
  {Usual(Together), Usual(Apart), [Usual(Together) EXCEPT !.reused = {p1}],
   [Usual(Together) EXCEPT !.stuck = TRUE],
   [Calm1 EXCEPT !.slow = {p2}, !.foreign = {p2}]}
=============================================================================
