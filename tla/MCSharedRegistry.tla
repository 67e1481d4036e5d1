-------------------------- MODULE MCSharedRegistry --------------------------
(* Instances of SharedRegistry: two clients, and other processes  *)
(* of this machine and of another one.                                     *)
EXTENDS SharedRegistry, TLC

CONSTANTS w1, w2

Pid(i, j) == [w \in Writers |-> IF w = w1 THEN i ELSE j]
Usual == [direct |-> FALSE, pid |-> Pid(2, 3), remote |-> {}, hidden |-> {},
          stuck |-> FALSE, unlisted |-> FALSE]

Interchangeable == Permutations(Clients) \cup Permutations(Objects)

\* Two processes; one with the id of the other; one with this process's id, long
\* dead; one on another machine; one of another user; files that resist removal in
\* a directory that may not be readable; and DbBase beside createShared().
EverySurroundings ==
  {Usual, [Usual EXCEPT !.pid = Pid(2, 2)], [Usual EXCEPT !.pid = Pid(1, 2)],
   [Usual EXCEPT !.remote = {w2}], [Usual EXCEPT !.hidden = {w2}],
   [Usual EXCEPT !.stuck = TRUE, !.unlisted = TRUE],
   [Usual EXCEPT !.direct = TRUE]}
=============================================================================
