--------------------------- MODULE ExclusiveGrants ---------------------------
(***************************************************************************)
(* What a connection pool promises (DbPool.h:8-14): a resource is granted  *)
(* to one user at a time, a user has at most one grant, and no more than   *)
(* limit grants are out.                                                   *)
(***************************************************************************)
EXTENDS Naturals, FiniteSets

CONSTANTS Users, Resources

VARIABLES
  held,   \* the grants: pairs of a user and its resource
  limit   \* how many grants may be out, fixed from the start

Init == held = {} /\ limit \in Nat

Grant(u, r) ==
  /\ Cardinality(held) < limit
  /\ \A g \in held : g[1] # u /\ g[2] # r
  /\ held' = held \cup {<<u, r>>}
  /\ UNCHANGED limit

Return(g) ==
  /\ g \in held
  /\ held' = held \ {g}
  /\ UNCHANGED limit

Next ==
  \/ \E u \in Users, r \in Resources : Grant(u, r)
  \/ \E g \in held : Return(g)

Spec == Init /\ [][Next]_<<held, limit>>
=============================================================================
