------------------------------ MODULE TableMap ------------------------------
(***************************************************************************)
(* What the JSON store promises: named tables that map keys to values, and *)
(* transactions that change them all at once or not at all.                *)
(***************************************************************************)
CONSTANTS Names, Keys, Values

VARIABLES
  kept,   \* the tables, as of the last committed transaction
  work    \* the tables, as the open transaction has changed them

With(f, x, y) == [z \in DOMAIN f \cup {x} |-> IF z = x THEN y ELSE f[z]]
Without(f, x) == [z \in DOMAIN f \ {x} |-> f[z]]

Table(n) == IF n \in DOMAIN work THEN work[n] ELSE <<>>

Make(n) == work' = With(work, n, Table(n))
Drop(n) == work' = Without(work, n)
Put(n, k, v) == work' = With(work, n, With(Table(n), k, v))
Patch(n, k, v) == n \in DOMAIN work /\ k \in DOMAIN work[n] /\ Put(n, k, v)
Erase(n, k) == n \in DOMAIN work /\ work' = With(work, n, Without(work[n], k))

Change ==
  /\ \E n \in Names :
       \/ Make(n) \/ Drop(n)
       \/ \E k \in Keys : Erase(n, k) \/ \E v \in Values : Put(n, k, v) \/ Patch(n, k, v)
  /\ UNCHANGED kept

Commit == kept' = work /\ UNCHANGED work
Abort == work' = kept /\ UNCHANGED kept

Next == Change \/ Commit \/ Abort

Spec == kept = work /\ [][Next]_<<kept, work>>
=============================================================================
