---------------------------- MODULE AtomicStore ----------------------------
(***************************************************************************)
(* What the JSON engine promises its callers: a durable value that each    *)
(* update replaces in one step, and a view of it, for the readers of one   *)
(* process, that may lag behind but is always a value the store really had *)
(* and never goes back until the process restarts.                         *)
(***************************************************************************)
CONSTANTS
  Updates,   \* the updates, each made at most once
  First,     \* the value at the start is {First}
  None       \* nothing has been read yet

VARIABLES
  value,     \* the durable value: the updates that made it
  past,      \* every value it has had
  view       \* what the readers see

Init ==
  /\ value = {First}
  /\ past = {{First}}
  /\ view = None

Update(u) ==
  /\ u \notin value
  /\ value' = value \cup {u}
  /\ past' = past \cup {value'}
  /\ UNCHANGED view

Look ==
  /\ view' \in past
  /\ view # None => view \subseteq view'
  /\ UNCHANGED <<value, past>>

Restart ==
  /\ view' = None
  /\ UNCHANGED <<value, past>>

Next == (\E u \in Updates : Update(u)) \/ Look \/ Restart

Spec == Init /\ [][Next]_<<value, past, view>>
=============================================================================
