----------------------------- MODULE JsonTable -----------------------------
(***************************************************************************)
(* The tables of the JSON store and the id -> row index, as the closures   *)
(* that writeWithLock() runs change them.  One transaction is one call:    *)
(* create(), update(), remove() and execSql() make one step, insertBatch() *)
(* and transGo() several, of which the SQL ones are those of execSql().  A *)
(* step that fails ends the call and rolls the store and the index back.   *)
(***************************************************************************)
EXTENDS Naturals, SequencesExt

CONSTANTS
  Names,      \* table names
  Spellings,  \* ids as callers and files write them
  Values,     \* what the other columns of a row hold
  NoId,       \* the id column is missing, null or blank
  Trim,       \* Trim[s]: s without the blanks around it, which is also an id
  Class,      \* Class[s]: valuesEqual() equates ids of one class
  Special,    \* Special[s]: the ids that a query reads in the text s, "null" or a
              \* comparison such as ">,5"
  Files,      \* the stores that data files may hold at the start
  MaxSteps    \* bound: steps of one transaction

Row == [id : Spellings \cup {NoId}, val : Values]
TableObject == [table : Names, rows : Seq(Row)]

ASSUME TableAssumption ==
  /\ NoId \notin Spellings
  /\ Trim \in [Spellings -> Spellings]
  /\ \A s \in Spellings : Trim[Trim[s]] = Trim[s]
  /\ DOMAIN Class = Spellings
  /\ \A s \in DOMAIN Special : Special[s] \subseteq Spellings \cup {NoId}
  /\ Files \subseteq Seq(TableObject)
  /\ MaxSteps \in Nat

VARIABLES
  given,   \* the file at the start, which does not change
  store,   \* store_
  index,   \* tableIdIndex_: a partial function from names to key -> position
  saved,   \* writeWithLock's previous and indexBackup
  open,    \* a transaction runs
  steps    \* the steps it has made

tableVars == <<store, index, saved, open, steps>>

With(f, x, y) == [z \in DOMAIN f \cup {x} |-> IF z = x THEN y ELSE f[z]]
Without(f, x) == Restrict(f, DOMAIN f \ {x})

Keys == {Trim[s] : s \in Spellings}
KeyOf(row) == IF row.id = NoId THEN NoId ELSE Trim[row.id]

\* findTableIndex(), 0 for none.
Find(st, n) == SelectInSeq(st, LAMBDA t : t.table = n)

KeysOf(rows) == {KeyOf(rows[i]) : i \in DOMAIN rows} \ {NoId}
LastRow(rows, k) == SelectLastInSeq(rows, LAMBDA r : KeyOf(r) = k)

\* rebuildIndexLocked(): of two rows with one key the later one counts, and
\* tables of one name share an entry, though only the first of them is found.
Rebuild(st) ==
  [n \in {st[i].table : i \in DOMAIN st} |->
     [k \in UNION {KeysOf(st[i].rows) : i \in {j \in DOMAIN st : st[j].table = n}} |->
        LET i == SelectLastInSeq(st, LAMBDA t : t.table = n /\ k \in KeysOf(t.rows))
        IN LastRow(st[i].rows, k)]]

Init ==
  /\ given \in Files
  /\ store = given
  /\ index = Rebuild(store)
  /\ saved = <<store, index>>
  /\ open = FALSE
  /\ steps = 0

\* The reload at the start of a write.
Begin ==
  /\ ~open
  /\ open' = TRUE
  /\ saved' = <<store, index>>
  /\ index' = Rebuild(store)
  /\ UNCHANGED <<store, steps>>

Step(newStore, newIndex) ==
  /\ open
  /\ steps < MaxSteps
  /\ steps' = steps + 1
  /\ store' = newStore
  /\ index' = newIndex
  /\ UNCHANGED <<saved, open>>

-----------------------------------------------------------------------------
EnsureTable(st, n) ==
  IF Find(st, n) > 0 THEN st ELSE Append(st, [table |-> n, rows |-> <<>>])

Rows(st, n) == st[Find(st, n)].rows
WithRows(st, n, rows) == [st EXCEPT ![Find(st, n)].rows = rows]

\* tableIdIndex_[n] adds an empty entry when there is none.
EntryOf(n) == IF n \in DOMAIN index THEN index[n] ELSE <<>>

SetElement(rows, i, row) == IF i \in DOMAIN rows THEN ReplaceAt(rows, i, row) ELSE rows

(***************************************************************************)
(* upsertRowIndexed(), after ensureTable(): replaces the row that the      *)
(* index names, else appends.  The row has an id, generated if need be.    *)
(***************************************************************************)
Upsert(n, row) ==
  LET st == EnsureTable(store, n)
      key == KeyOf(row)
  IN IF key \in DOMAIN EntryOf(n)
     THEN Step(WithRows(st, n, SetElement(Rows(st, n), EntryOf(n)[key], row)),
               With(index, n, EntryOf(n)))
     ELSE Step(WithRows(st, n, Append(Rows(st, n), row)),
               With(index, n, With(EntryOf(n), key, Len(Rows(st, n)) + 1)))

\* The row the index names, 0 for none.
Position(n, id) == IF id \in DOMAIN EntryOf(n) THEN EntryOf(n)[id] ELSE 0

\* updateRowIndexed(): the patched row takes the id it was found by.
Update(n, id, val) ==
  /\ Find(store, n) > 0
  /\ Step(WithRows(store, n, SetElement(Rows(store, n), Position(n, id), [id |-> id, val |-> val])),
          With(index, n, EntryOf(n)))

\* What deleteRowIndexed() leaves of the rows: the last one moves into the hole.
SwapPop(rows, i) == Front(ReplaceAt(rows, i, Last(rows)))

\* Mutant: the index keeps the old position of the row that was moved.
Delete_ForgetsMoved(n, id) ==
  /\ Find(store, n) > 0
  /\ LET rows == Rows(store, n)
         i == Position(n, id)
     IN IF i \notin DOMAIN rows THEN Step(store, index)
        ELSE Step(WithRows(store, n, SwapPop(rows, i)), With(index, n, Without(EntryOf(n), id)))

\* Mutant: the moved row loses its entry too.
Delete_DropsMoved(n, id) ==
  /\ Find(store, n) > 0
  /\ LET rows == Rows(store, n)
         i == Position(n, id)
     IN IF i \notin DOMAIN rows THEN Step(store, index)
        ELSE Step(WithRows(store, n, SwapPop(rows, i)),
                  With(index, n, Without(Without(EntryOf(n), id), KeyOf(Last(rows)))))

\* deleteRowIndexed(): the index follows the row that moves.
Delete(n, id) ==
  /\ Find(store, n) > 0
  /\ LET rows == Rows(store, n)
         i == Position(n, id)
         moved == KeyOf(Last(rows))
         entry == IF i # Len(rows) /\ moved # NoId THEN With(EntryOf(n), moved, i) ELSE EntryOf(n)
     IN IF i \notin DOMAIN rows
        THEN Step(store, With(index, n, Without(EntryOf(n), id)))
        ELSE Step(WithRows(store, n, SwapPop(rows, i)), With(index, n, Without(entry, id)))

(***************************************************************************)
(* updateRow() and deleteRow() scan the rows of a table without an entry,  *)
(* which is one that outlives a drop of its name.  A delete closes the     *)
(* hole.                                                                   *)
(***************************************************************************)
Scanned(n, id) ==
  SelectInSeq(Rows(store, n), LAMBDA r : r.id # NoId /\ Class[r.id] = Class[id])

UpdateScanned(n, id, val) ==
  /\ Find(store, n) > 0
  /\ Step(WithRows(store, n, SetElement(Rows(store, n), Scanned(n, id), [id |-> id, val |-> val])),
          index)

DeleteScanned(n, id) ==
  /\ Find(store, n) > 0
  /\ LET rows == Rows(store, n)
         i == Scanned(n, id)
     IN Step(WithRows(store, n, IF i = 0 THEN rows ELSE RemoveAt(rows, i)), index)

\* "create table"; also the ensureTable() that precedes a transaction element.
CreateTable(n) == Step(EnsureTable(store, n), With(index, n, EntryOf(n)))

\* Mutant: the index entry of a dropped table stays.
DropTable_KeepsIndex(n) ==
  /\ Find(store, n) > 0
  /\ Step(RemoveAt(store, Find(store, n)), index)

\* "drop table"
DropTable(n) ==
  /\ Find(store, n) > 0
  /\ Step(RemoveAt(store, Find(store, n)), Without(index, n))

-----------------------------------------------------------------------------
(* the calls *)

\* create(), an element of insertBatch(), "Insert" or "Batch": one row each.
CreateRow(n, s, v) == Upsert(n, [id |-> s, val |-> v])

\* update() and remove() look the id up as it is written.
UpdateRow(n, s, v) == Update(n, s, v)
RemoveRow(n, s) == Delete(n, s)

\* A structured "Update" or "Delete" makes the table if it is missing.
UpdateElement(n, s, v) == IF Find(store, n) = 0 THEN CreateTable(n) ELSE Update(n, s, v)
DeleteElement(n, s) == IF Find(store, n) = 0 THEN CreateTable(n) ELSE Delete(n, s)

\* The SQL statements trim the id they look up.
SqlInsert(n, s, v) == Upsert(n, [id |-> s, val |-> v])
SqlUpdate(n, s, v) ==
  IF n \in DOMAIN index THEN Update(n, Trim[s], v) ELSE UpdateScanned(n, Trim[s], v)
SqlDelete(n, s) ==
  IF n \in DOMAIN index THEN Delete(n, Trim[s]) ELSE DeleteScanned(n, Trim[s])

-----------------------------------------------------------------------------
\* Every step returned 200 and the file was written.
Commit ==
  /\ open
  /\ open' = FALSE
  /\ steps' = 0
  /\ UNCHANGED <<store, index, saved>>

\* Mutant: the index is not put back.
Rollback_KeepsIndex ==
  /\ open
  /\ store' = saved[1]
  /\ open' = FALSE
  /\ steps' = 0
  /\ UNCHANGED <<saved, index>>

\* A step failed, threw, or the file could not be written.
Rollback ==
  /\ open
  /\ store' = saved[1]
  /\ index' = saved[2]
  /\ open' = FALSE
  /\ steps' = 0
  /\ UNCHANGED saved

Next ==
  /\ UNCHANGED given
  /\ \/ Begin \/ Commit \/ Rollback
     \/ \E n \in Names :
          \/ CreateTable(n) \/ DropTable(n)
          \/ \E s \in Spellings :
               \/ RemoveRow(n, s) \/ DeleteElement(n, s) \/ SqlDelete(n, s)
               \/ \E v \in Values :
                    \/ CreateRow(n, s, v) \/ UpdateRow(n, s, v) \/ UpdateElement(n, s, v)
                    \/ SqlInsert(n, s, v) \/ SqlUpdate(n, s, v)

Spec == Init /\ [][Next]_<<given, tableVars>>

-----------------------------------------------------------------------------
\* What select() answers for {"id": s}: by the fast path, which looks up the
\* text as it is, and by a scan, for which buildQuerySpec() reads it.
FastPath(n, s) == {i \in DOMAIN Rows(store, n) : s \in DOMAIN index[n] /\ i = index[n][s]}

Asks(s) == IF s \in DOMAIN Special THEN Special[s] ELSE {r \in Spellings : Class[r] = Class[s]}
Scan(n, s) == {i \in DOMAIN Rows(store, n) : Rows(store, n)[i].id \in Asks(s)}

\* The texts without blanks around them that {"id": s} may hold.
Texts == Keys \cup DOMAIN Special

\* A file written by hand may name a table twice, or hold one id twice.
TablesAreUnique(st) == \A i, j \in DOMAIN st : i # j => st[i].table # st[j].table

KeysAreUnique(st) ==
  /\ TablesAreUnique(st)
  /\ \A t \in DOMAIN st : \A i, j \in DOMAIN st[t].rows :
       i # j /\ KeyOf(st[t].rows[i]) = KeyOf(st[t].rows[j]) => KeyOf(st[t].rows[i]) = NoId

\* Ids that are equal to a scan are spellings of one key and no others: not
\* so for the numbers 1 and 1.0, nor for a blank around other text.
ClassesAreKeys ==
  \A r, s \in Spellings : Class[r] = Class[s] <=> Trim[r] = Trim[s]

\* select() by id "answers the query in O(1) instead of scanning the table"
\* (JsonFileDb.cpp:2345-2348): whatever the transactions before it did, the
\* fast path finds the rows a scan would find, if the id asked for has no blanks
\* around it and the file named no table and held no id twice.  Texts that a
\* query reads as a comparison or as "null" are left out: {"id": ">,5"} alone
\* looks for a row whose id is that text, though README.md:317 documents it as
\* a comparison for any field.
FastPathAgreesWithScan ==
  ClassesAreKeys /\ KeysAreUnique(given) /\ ~open =>
    \A n \in DOMAIN index, s \in Texts \ DOMAIN Special :
      Find(store, n) > 0 => FastPath(n, s) = Scan(n, s)

\* Inside a transaction too the index names each row by its key, so that the
\* steps after a swap-pop or a drop work on the right row.
IndexTracksRows == KeysAreUnique(given) => index = Rebuild(store)

\* Whatever rows the file held, an id twice included: an id leads to no row of
\* another id, at any point of a transaction, though a delete may hide a second
\* row of its id until the next write reloads the file.
IndexNamesItsRows ==
  TablesAreUnique(given) => \A n \in DOMAIN index : \A k \in DOMAIN index[n] :
    /\ Find(store, n) > 0
    /\ index[n][k] \in DOMAIN Rows(store, n)
    /\ KeyOf(Rows(store, n)[index[n][k]]) = k

\* The rows of a table as a map; those without an id count as one entry, whose
\* value is what they hold.
RowsAsMap(rows) ==
  [k \in {KeyOf(rows[i]) : i \in DOMAIN rows} |->
     IF k = NoId THEN {rows[i].val : i \in {j \in DOMAIN rows : KeyOf(rows[j]) = NoId}}
     ELSE rows[SelectInSeq(rows, LAMBDA r : KeyOf(r) = k)].val]

\* A file that names a table or holds an id twice is no map: nothing is said of
\* its tables.
AsMap(st) ==
  IF ~KeysAreUnique(given) THEN <<>>
  ELSE [n \in {st[i].table : i \in DOMAIN st} |-> RowsAsMap(Rows(st, n))]

Map == INSTANCE TableMap WITH
         Keys <- Keys, kept <- AsMap(IF open THEN saved[1] ELSE store), work <- AsMap(store)

\* The tables are maps from ids to rows: a delete removes one row and no
\* other, whatever the swap moves, and a failed call leaves no trace.
ImplementsMap == Map!Spec
=============================================================================
