---------------------------- MODULE MCJsonTable ----------------------------
(* An instance of JsonTable: a few ids, one of them also with a blank in   *)
(* front of it.                                                            *)
EXTENDS JsonTable

CONSTANTS t, a, b, padded, x, y, more, null

\* padded is a with a blank.
Pad == [s \in Spellings |-> IF s = padded THEN a ELSE s]

\* more is ">," and something that only b is greater than; null is "null".
Comparisons == [s \in {more, null} |-> IF s = more THEN {b} ELSE {NoId}]

\* Files as somebody may write them: rows without an id between the others, an
\* id twice, a table twice.
Rows3(r1, r2, r3) == <<[table |-> t, rows |-> <<r1, r2, r3>>]>>
ByHand ==
  { <<>>,
    Rows3([id |-> a, val |-> x], [id |-> NoId, val |-> y], [id |-> b, val |-> x]),
    Rows3([id |-> a, val |-> x], [id |-> NoId, val |-> x], [id |-> NoId, val |-> y]),
    Rows3([id |-> a, val |-> x], [id |-> padded, val |-> y], [id |-> b, val |-> x]),
    << [table |-> t, rows |-> <<[id |-> a, val |-> x]>>],
       [table |-> t, rows |-> <<[id |-> b, val |-> x], [id |-> padded, val |-> y]>>] >> }
=============================================================================
