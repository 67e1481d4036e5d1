------------------------------ MODULE JsonQuery ------------------------------
(***************************************************************************)
(* The query pipeline of the JSON engine: the conditions a parameter       *)
(* object becomes (buildQuerySpec), grouping, aggregates, sorting,         *)
(* projection and the two paging paths of queryTableRows, over a table     *)
(* that other calls change between two queries.                            *)
(*                                                                         *)
(* A text is its rank in the byte order of std::string; NumberOf says      *)
(* which texts parse as a number and Contains which text lies within       *)
(* which.  A query is the parameter object after splitting at the commas.  *)
(***************************************************************************)
EXTENDS Integers, FiniteSets, SequencesExt

CONSTANTS
  Texts,        \* ranks of the texts that occur; 0 is the empty text
  NullText,     \* the rank of the text "null"
  NumberOf,     \* parseDouble: [Texts -> Int \cup {NotNumeric}]
  NotNumeric,
  Within,       \* pairs <<whole, part>>: part is a substring of whole
  Ids,          \* texts used as ids
  Configs,      \* the uses of a table to look at: the values stored in its column
                \* "k", the queries asked on their own (asks) and those read page
                \* after page (walks)
  NoQuery,      \* no answer, no walk
  MaxInt,       \* INT_MAX: an int is one of -MaxInt-1..MaxInt
  MaxRows,      \* bound: rows in the table
  MaxChanges    \* bound: changes to the table during one walk

ASSUME QueryAssumption ==
  /\ Texts \subseteq Nat /\ 0 \in Texts /\ NullText \in Texts \ {0}
  /\ NumberOf \in [Texts -> Int \cup {NotNumeric}]
  /\ Within \subseteq Texts \X Texts
  /\ Ids \subseteq Texts \ {0}
  /\ MaxInt \in Nat \ {0} /\ MaxRows \in Nat /\ MaxChanges \in Nat

VARIABLES
  config,   \* the use of the table, which does not change
  rows,     \* the "rows" array of the table: functions from columns to values
  answer,   \* the last answer, with its query
  walk      \* a client that reads the pages of a query one by one

vars == <<rows, answer, walk>>

-----------------------------------------------------------------------------
(* Values.                                                                 *)

Str(t) == [kind |-> "string", text |-> t, num |-> NumberOf[t]]
Num(t) == [kind |-> "number", text |-> t, num |-> NumberOf[t]]
Null   == [kind |-> "null", text |-> 0, num |-> NotNumeric]
Absent == [kind |-> "absent", text |-> 0, num |-> NotNumeric]
\* A computed number; it is compared with other computed numbers only.
Computed(n) == [kind |-> "number", text |-> 0, num |-> n]

Numerals == {t \in Texts : NumberOf[t] # NotNumeric}
Cells == {Str(t) : t \in Texts} \cup {Num(t) : t \in Numerals} \cup {Null, Absent}

\* A key of the parameters that is no option: what it asks of a row.
IsCondition(c) ==
  /\ c.form \in {"ins", "ors", "lks", "compare", "plain"}
  /\ c.form = "ins" => c.texts \subseteq Texts /\ IsFiniteSet(c.texts)
  /\ c.form \in {"ors", "lks"} => c.pairs \subseteq [field : STRING, text : Texts] /\ IsFiniteSet(c.pairs)
  /\ c.form = "compare" => c.tests \in Seq([op : {">", ">=", "<", "<=", "<>", "="}, text : Texts])
  /\ c.form = "plain" => c.text \in Texts

\* What buildQuerySpec makes of a parameter object, direction 1 or -1.
IsQuery(q) ==
  /\ DOMAIN q = {"wellFormed", "conds", "fuzzy", "sort", "page", "size", "group", "counts",
                 "sums", "fields"}
  /\ q.wellFormed \in BOOLEAN /\ q.fuzzy \in BOOLEAN
  /\ IsFiniteSet(q.conds) /\ \A c \in q.conds : IsCondition(c)
  /\ q.sort \in Seq([field : STRING, direction : {-1, 1}])
  /\ q.page \in Int /\ q.size \in Int

ASSUME UseAssumption ==
  /\ NotNumeric \notin Int
  /\ \A use \in Configs :
       /\ use.cells \subseteq Cells
       /\ \A v, w \in use.cells : v.kind = "number" /\ w.kind = "number" /\ v.num = w.num => v = w
       /\ \A q \in use.asks \cup use.walks : IsQuery(q)
       /\ \A q \in use.walks : q.wellFormed

Child(row, field) == IF field \in DOMAIN row THEN row[field] ELSE Absent
IsNil(v) == v.kind \in {"null", "absent"}
BothNumeric(v, w) == v.num # NotNumeric /\ w.num # NotNumeric

\* On the numbers modelled the fuzzy comparison of doubles is equality.
ValuesEqual(v, w) ==
  \/ IsNil(v) /\ IsNil(w)
  \/ /\ ~IsNil(v) /\ ~IsNil(w)
     /\ IF BothNumeric(v, w) THEN v.num = w.num ELSE v.text = w.text

ContainsValue(v, w) == ~IsNil(v) /\ ~IsNil(w) /\ <<v.text, w.text>> \in Within

Compare(a, op, b) ==
  CASE op = ">"  -> a > b
    [] op = ">=" -> a >= b
    [] op = "<"  -> a < b
    [] op = "<=" -> a <= b
    [] op = "<>" -> a # b
    [] op = "="  -> a = b

CompareByOperator(v, op, w) ==
  IF BothNumeric(v, w) THEN Compare(v.num, op, w.num) ELSE Compare(v.text, op, w.text)

-----------------------------------------------------------------------------
(* Conditions and filtering.                                               *)

Passes(row, field, test) == CompareByOperator(Child(row, field), test.op, Str(test.text))

InBounds(row, c) == \A i \in DOMAIN c.tests : Passes(row, c.field, c.tests[i])

Matches(row, c, fuzzy) ==
  \/ /\ c.form = "ins"
     /\ \E t \in c.texts : ValuesEqual(Child(row, c.field), Str(t))
  \/ /\ c.form = "ors"
     /\ \E p \in c.pairs : ValuesEqual(Child(row, p.field), Str(p.text))
  \/ /\ c.form = "lks"
     /\ \E p \in c.pairs : ContainsValue(Child(row, p.field), Str(p.text))
  \/ c.form = "compare" /\ InBounds(row, c)
  \/ /\ c.form = "plain" /\ fuzzy
     /\ ContainsValue(Child(row, c.field), Str(c.text))
  \/ /\ c.form = "plain" /\ ~fuzzy /\ c.text = NullText
     /\ IsNil(Child(row, c.field))
  \/ /\ c.form = "plain" /\ ~fuzzy /\ c.text # NullText
     /\ ValuesEqual(Child(row, c.field), Str(c.text))

MatchesAll(row, q) == \A c \in q.conds : Matches(row, c, q.fuzzy)

\* The rows at some positions, in their order.
RowsAt(table, at) ==
  LET taken[n \in 0..Len(table)] ==
        IF n = 0 THEN <<>>
        ELSE IF n \in at THEN Append(taken[n - 1], table[n]) ELSE taken[n - 1]
  IN  taken[Len(table)]

Matching(table, q) == {i \in DOMAIN table : MatchesAll(table[i], q)}

FilterRows(table, q) == RowsAt(table, Matching(table, q))

-----------------------------------------------------------------------------
(* Groups and aggregates.                                                  *)

\* The sum of the first n of some numbers.
SumUpTo(number, n) ==
  LET total[i \in 0..n] == IF i = 0 THEN 0 ELSE total[i - 1] + number[i]
  IN  total[n]

\* Of the rows at some positions: a group, or all of them.
SumOf(table, at, source) ==
  LET number(i) == Child(table[i], source).num
      numeric == {i \in at : number(i) # NotNumeric}
  IN  IF numeric = {} THEN Null
      ELSE Computed(SumUpTo([i \in DOMAIN table |-> IF i \in numeric THEN number(i) ELSE 0], Len(table)))

CountOf(table, at, source) ==
  Computed(Cardinality({i \in at : source \in {"*", "1"} \/ ~IsNil(Child(table[i], source))}))

Aggregates(q) == DOMAIN q.counts \cup DOMAIN q.sums

\* A sum overwrites the count of its name.
AggregateRow(table, at, q) ==
  [a \in Aggregates(q) |-> IF a \in DOMAIN q.sums THEN SumOf(table, at, q.sums[a])
                           ELSE CountOf(table, at, q.counts[a])]

\* The first digits of valueTypeCode as std::map orders the keys:
\* "0:" null, "128:" undefined, "2:" number, "3:" string.
TypeRank == [null |-> 0, absent |-> 1, number |-> 2, string |-> 3]

GroupKey(v) == <<TypeRank[v.kind], v.text>>

KeyBefore(k, l) == k[1] < l[1] \/ (k[1] = l[1] /\ k[2] < l[2])

KeyOf(table, i, q) == GroupKey(Child(table[i], q.group))

Keys(table, q) == {KeyOf(table, i, q) : i \in DOMAIN table}

InKeyOrder(keys) ==
  CHOOSE s \in [1..Cardinality(keys) -> keys] : \A i, j \in DOMAIN s : i < j => KeyBefore(s[i], s[j])

\* Mutant: a group takes every row whose value has the text of its key.
Members_ByText(table, k, q) == {i \in DOMAIN table : KeyOf(table, i, q)[2] = k[2]}

Members(table, k, q) == {i \in DOMAIN table : KeyOf(table, i, q) = k}

\* An aggregate overwrites the group value of its name.
GroupRow(table, at, q) ==
  [f \in {q.group} \cup Aggregates(q) |->
     IF f \in Aggregates(q) THEN AggregateRow(table, at, q)[f] ELSE Child(table[Max(at)], q.group)]

GroupedRows(table, q) ==
  LET ordered == InKeyOrder(Keys(table, q))
  IN  [i \in DOMAIN ordered |-> GroupRow(table, Members(table, ordered[i], q), q)]

HasAggregates(q) == Aggregates(q) # {}

-----------------------------------------------------------------------------
(* Sorting.                                                                *)

Sign(a, b) == IF a < b THEN -1 ELSE IF a > b THEN 1 ELSE 0

\* Mutant: a null sorts like the empty text.
CompareSortValues_NilIsEmpty(v, w) ==
  IF BothNumeric(v, w) THEN Sign(v.num, w.num) ELSE Sign(v.text, w.text)

CompareSortValues(v, w) ==
  CASE IsNil(v) /\ IsNil(w) -> 0
    [] IsNil(v) /\ ~IsNil(w) -> 1
    [] ~IsNil(v) /\ IsNil(w) -> -1
    [] OTHER -> IF BothNumeric(v, w) THEN Sign(v.num, w.num) ELSE Sign(v.text, w.text)

Before(left, right, clauses) ==
  LET order(i) == clauses[i].direction
                  * CompareSortValues(Child(left, clauses[i].field), Child(right, clauses[i].field))
  IN  \E i \in DOMAIN clauses : order(i) < 0 /\ \A j \in 1..(i - 1) : order(j) = 0

\* std::sort requires a strict weak ordering of the rows it sorts.
StrictWeakOrder(S, clauses) ==
  /\ \A r, s, t \in S :
       Before(r, s, clauses) /\ Before(s, t, clauses) => Before(r, t, clauses)
  /\ \A r, s, t \in S :
       Before(r, t, clauses) => Before(r, s, clauses) \/ Before(s, t, clauses)

\* What std::sort may leave: an ordered arrangement, equal rows in any order;
\* without a strict weak ordering its behaviour is undefined and the model
\* lets it leave any arrangement.
Sorted(table, clauses) ==
  LET arrangements == {[i \in DOMAIN table |-> table[p[i]]] : p \in Bijection(DOMAIN table, DOMAIN table)}
      ordered == {a \in arrangements : \A i, j \in DOMAIN a : i < j => ~Before(a[j], a[i], clauses)}
  IN  CASE clauses = <<>> -> {table}
        [] clauses # <<>> /\ StrictWeakOrder(ToSet(table), clauses) -> ordered
        [] OTHER -> arrangements

-----------------------------------------------------------------------------
(* Projection, paging and the answer.                                      *)

\* No field asked for means every field.
ProjectFields(table, q) ==
  LET allowed == q.fields \cup {q.group} \cup Aggregates(q)
      projected(row) == [f \in DOMAIN row \cap allowed |-> row[f]]
  IN  IF q.fields = {} THEN table ELSE [i \in DOMAIN table |-> projected(table[i])]

Lesser(a, b) == IF a < b THEN a ELSE b

\* int arithmetic; the build wraps around, the standard leaves it undefined.
Wrap(n) == ((n + MaxInt + 1) % (2 * MaxInt + 2)) - MaxInt - 1

Size(q) == IF q.size <= 0 THEN 20 ELSE q.size

Start(q) == Wrap((q.page - 1) * Size(q))

Pages(records, page, size) ==
  IF page > 0 THEN (records + size - 1) \div size ELSE Lesser(records, 1)

MakeQueryResult(data, records, page, size) ==
  [status |-> IF data = <<>> THEN "empty" ELSE "success",
   data |-> data, records |-> records, pages |-> Pages(records, page, size)]

PageOnly(q) == q.sort = <<>> /\ q.group = "" /\ ~HasAggregates(q) /\ q.page > 0

\* Mutant: records counts the rows of the page.
FastAnswer_CountsPage(table, q) ==
  LET matches == FilterRows(table, q)
      page == SubSeq(matches, Start(q) + 1, Lesser(Start(q) + Size(q), Len(matches)))
  IN  MakeQueryResult(page, Len(page), q.page, Size(q))

\* The loop that keeps the first Size(q) matches after the first Start(q).
FastAnswer(table, q) ==
  LET matches == FilterRows(table, q)
      skipped == IF Start(q) < 0 THEN 0 ELSE Start(q)
      page == SubSeq(matches, skipped + 1, Lesser(skipped + Size(q), Len(matches)))
  IN  MakeQueryResult(page, Len(matches), q.page, Size(q))

\* resultRows[i] outside the array is an error value, pushed like a row.
ErrorRow == <<>>

\* The rows a query asks for: its groups, one row of aggregates or the matches.
Shaped(table, q) ==
  LET matches == FilterRows(table, q)
  IN  CASE q.group # "" -> GroupedRows(matches, q)
        [] q.group = "" /\ HasAggregates(q) -> <<AggregateRow(matches, DOMAIN matches, q)>>
        [] OTHER -> matches

Cut(result, q) ==
  LET end == Lesser(Len(result), Wrap(Start(q) + Size(q)))
  IN  [i \in 1..(end - Start(q)) |->
         IF Start(q) + i \in DOMAIN result THEN result[Start(q) + i] ELSE ErrorRow]

\* Every answer of the general path: shape, sort, project, cut the page out.
GeneralAnswers(table, q) ==
  LET answered(result) ==
        IF q.page > 0 THEN MakeQueryResult(Cut(result, q), Len(result), q.page, Size(q))
        ELSE MakeQueryResult(result, Len(result), 0, Size(q))
  IN  {answered(ProjectFields(result, q)) : result \in Sorted(Shaped(table, q), q.sort)}

QueryTableRows(table, q) ==
  CASE ~q.wellFormed -> {[status |-> "paramerr"]}
    [] q.wellFormed /\ PageOnly(q) -> {FastAnswer(table, q)}
    [] OTHER -> GeneralAnswers(table, q)

-----------------------------------------------------------------------------
(* select(): one row by its id, or the whole pipeline.                     *)

\* A parameter object that may hold the key "id" and no other.
OnlyId(q) ==
  /\ \E c \in q.conds : q.conds = {c} /\ c.form \in {"plain", "compare"} /\ c.field = "id"
  /\ ~q.fuzzy /\ q.sort = <<>> /\ q.group = "" /\ ~HasAggregates(q)
  /\ q.page = 0 /\ q.size = 0

\* The text is looked up in the id index as it is, be it "null" or a
\* comparison; no id reads like a comparison here.
FastSelect(table, q) ==
  LET named(id) == \E c \in q.conds : c.form = "plain" /\ c.text = id
      found == ProjectFields(RowsAt(table, {i \in DOMAIN table : named(table[i]["id"].text)}), q)
  IN  MakeQueryResult(found, Len(found), 0, 20)

\* Beside the id there may be keys that ask for nothing (fuzzy "0", page "0",
\* the fields), and then it is not the only key.
Select(table, q) ==
  QueryTableRows(table, q) \cup IF OnlyId(q) THEN {FastSelect(table, q)} ELSE {}

-----------------------------------------------------------------------------
(* The table under the calls of its clients.                               *)

Init ==
  /\ config \in Configs
  /\ rows = <<>>
  /\ answer = NoQuery
  /\ walk = NoQuery

IdOf(row) == row["id"].text
Position(id) == SelectInSeq(rows, LAMBDA row : IdOf(row) = id)
\* A row may lack the column "k".
NewRow(id, cell) ==
  [f \in {"id"} \cup (IF cell.kind = "absent" THEN {} ELSE {"k"}) |-> IF f = "id" THEN Str(id) ELSE cell]

Walking == walk # NoQuery

\* A walk notes the rows that match throughout and the changes it overlaps.
Observe(changed) ==
  IF ~Walking THEN walk' = walk
  ELSE /\ walk.changes + changed <= MaxChanges
       /\ ~walk.done
       /\ walk' = [walk EXCEPT
            !.changes = @ + changed,
            !.kept = {id \in @ : \E i \in DOMAIN rows' :
                        IdOf(rows'[i]) = id /\ MatchesAll(rows'[i], walk.query)}]

\* Mutant: a new row goes to the front of the table.
AddRow_InFront(id, cell) ==
  /\ answer = NoQuery
  /\ Position(id) = 0 /\ Len(rows) < MaxRows
  /\ rows' = <<NewRow(id, cell)>> \o rows
  /\ UNCHANGED answer
  /\ Observe(0)

\* create() with a new id appends.
AddRow(id, cell) ==
  /\ answer = NoQuery
  /\ Position(id) = 0 /\ Len(rows) < MaxRows
  /\ rows' = Append(rows, NewRow(id, cell))
  /\ UNCHANGED answer
  /\ Observe(0)

\* create() and update() with an id that is there write the row in place.
ChangeRow(id, cell) ==
  /\ answer = NoQuery
  /\ Position(id) > 0
  /\ rows' = [rows EXCEPT ![Position(id)] = NewRow(id, cell)]
  /\ UNCHANGED answer
  /\ Observe(1)

\* remove() moves the last row into the hole.
RemoveRow(id) ==
  /\ answer = NoQuery
  /\ Position(id) > 0
  /\ rows' = Front([rows EXCEPT ![Position(id)] = Last(rows)])
  /\ UNCHANGED answer
  /\ Observe(1)

\* select() of any query.
Ask(q) ==
  /\ answer = NoQuery
  /\ \E a \in Select(rows, q) : answer' = [query |-> q, result |-> a]
  /\ UNCHANGED <<rows, walk>>

\* The client has its answer; only then the table changes again.
TakeAnswer ==
  /\ answer # NoQuery
  /\ answer' = NoQuery
  /\ UNCHANGED <<rows, walk>>

\* A client calls select() with page 1, 2, ... until a page is empty.
StartWalk(q) ==
  /\ ~Walking
  /\ walk' = [query |-> q, page |-> 0, seen |-> <<>>, changes |-> 0, done |-> FALSE,
              kept |-> {IdOf(rows[i]) : i \in {j \in DOMAIN rows : MatchesAll(rows[j], q)}}]
  /\ UNCHANGED <<rows, answer>>

PageOf(w) == [w.query EXCEPT !.page = w.page]

ReadPage ==
  /\ Walking /\ ~walk.done
  /\ \E a \in Select(rows, [walk.query EXCEPT !.page = walk.page + 1]) :
       walk' = [walk EXCEPT !.page = @ + 1,
                            !.seen = @ \o [i \in DOMAIN a.data |-> IdOf(a.data[i])],
                            !.done = a.status = "empty"]
  /\ UNCHANGED <<rows, answer>>

EndWalk ==
  /\ Walking /\ walk.done
  /\ walk' = NoQuery
  /\ UNCHANGED <<rows, answer>>

Next ==
  /\ UNCHANGED config
  /\ \/ \E id \in Ids, cell \in config.cells : AddRow(id, cell) \/ ChangeRow(id, cell)
     \/ \E id \in Ids : RemoveRow(id)
     \/ \E q \in config.asks : Ask(q)
     \/ TakeAnswer
     \/ \E q \in config.walks : StartWalk(q)
     \/ ReadPage
     \/ EndWalk

Spec == Init /\ [][Next]_<<config, vars>>

-----------------------------------------------------------------------------
Answered == answer # NoQuery /\ answer.result.status # "paramerr"
Unpaged(q) == [q EXCEPT !.page = 0]
PageFits(q) == q.page * Size(q) <= MaxInt

\* The paging of every path (queryTableRows): a page is that slice of an
\* answer the same query gives unpaged, "records" and "pages" count the whole
\* answer, and 202 says that the page is past its end (ContractSuite.h:388), as
\* long as page * size is an int.
PageIsSliceOfWhole ==
  Answered /\ answer.query.page > 0 /\ answer.query.fields = {}
  /\ PageFits(answer.query) =>
    LET q == answer.query
        r == answer.result
    IN  \E whole \in GeneralAnswers(rows, Unpaged(q)) :
          /\ r.data = SubSeq(whole.data, (q.page - 1) * Size(q) + 1,
                             Lesser(q.page * Size(q), Len(whole.data)))
          /\ r.records = Len(whole.data)
          /\ r.status = "empty" <=> (q.page - 1) * Size(q) >= Len(whole.data)
          /\ \A p \in 1..(r.records + 1) : p <= r.pages <=> (p - 1) * Size(q) < r.records

Value(v) == IF v.num = NotNumeric THEN 0 ELSE v.num
Total(data, column) == SumUpTo([i \in DOMAIN data |-> Value(data[i][column])], Len(data))

\* Groups partition the matching rows (buildGroupedRows): their counts add up
\* to the number of matches and their sums to the sum without groups, and no
\* two groups have one value, unless an aggregate takes its name.
GroupsPartition ==
  Answered /\ answer.query.group # "" /\ answer.query.page = 0 /\ answer.query.fields = {} =>
    LET q == answer.query
        data == answer.result.data
        matches == FilterRows(rows, q)
    IN  /\ \A a \in Aggregates(q) :
             Total(data, a) = Value(AggregateRow(matches, DOMAIN matches, q)[a])
        /\ q.group \notin Aggregates(q) => \A i, j \in DOMAIN data : i # j => Child(data[i], q.group) # Child(data[j], q.group)

InOrder(v, w, direction) ==
  IF BothNumeric(v, w) THEN direction * v.num <= direction * w.num
  ELSE direction * v.text <= direction * w.text

\* Numbers compare as numbers and all other pairs as texts, which orders a
\* column only if it does not mix numeric and other texts.
Comparable(table, field) ==
  \A v, w \in {Child(table[i], field) : i \in DOMAIN table} :
    ~IsNil(v) /\ ~IsNil(w) => (v.num = NotNumeric <=> w.num = NotNumeric)

\* "sort" sets the order (README.md:241): the rows come in the order of the
\* first column named, those that have no value last when ascending and first
\* when descending, if every column named can be ordered and the page's end is
\* an int.
SortedAnswerIsOrdered ==
  Answered /\ answer.query.sort # <<>> /\ PageFits(answer.query)
  /\ (\A i \in DOMAIN answer.query.sort : Comparable(rows, answer.query.sort[i].field)) =>
    LET clause == Head(answer.query.sort)
        data == answer.result.data
        cell(i) == Child(data[i], clause.field)
    IN  \A i, j \in DOMAIN data : i < j =>
          /\ ~IsNil(cell(i)) /\ ~IsNil(cell(j)) => InOrder(cell(i), cell(j), clause.direction)
          /\ IsNil(cell(i)) /\ ~IsNil(cell(j)) => clause.direction = -1
          /\ ~IsNil(cell(i)) /\ IsNil(cell(j)) => clause.direction = 1

Missed == walk.kept \ ToSet(walk.seen)
Repeats == Len(walk.seen) - Cardinality(ToSet(walk.seen))

\* What concurrent writers can do to a client that walks through the pages of
\* an unsorted query: rows appended meanwhile never hide or repeat a row, and
\* every row removed (which moves the last row forward) or rewritten meanwhile
\* costs at most one row missed and one row seen twice.
WalkErrorsBounded ==
  Walking /\ walk.done /\ PageOnly(PageOf(walk)) /\ PageFits(PageOf(walk)) =>
    Cardinality(Missed) <= walk.changes /\ Repeats <= walk.changes
=============================================================================
