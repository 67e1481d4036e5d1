------------------------------ MODULE SqlBuilder ------------------------------
(***************************************************************************)
(* The smart query of the SQL backends: the statements genSql() makes of a *)
(* parameter object, the count statement that goes with it, and select()   *)
(* with attachRecordsPages().  The server that runs a statement is         *)
(* external: its operators say what standard SQL answers, with its own     *)
(* choice of where NULLs sort and of the order nobody asked for.           *)
(*                                                                         *)
(* The queries and the tables are those of JsonQuery, so that the answers  *)
(* of the two kinds of backends can be compared.                           *)
(***************************************************************************)
EXTENDS JsonQuery

-----------------------------------------------------------------------------
(* genSql(): the statement.  A term compares a column with some texts.     *)

Term(field, op, texts) == [field |-> field, op |-> op, texts |-> texts]

\* The terms a key of the parameters becomes: one of several texts, or some of
\* one text each.
Terms(c, fuzzy) ==
  LET pairs == SetToSeq(c.pairs)
  IN  CASE c.form = "ins" -> <<Term(c.field, "in", SetToSeq(c.texts))>>
        [] c.form = "ors" -> [i \in DOMAIN pairs |-> Term(pairs[i].field, "=", <<pairs[i].text>>)]
        [] c.form = "lks" -> [i \in DOMAIN pairs |-> Term(pairs[i].field, "like", <<pairs[i].text>>)]
        [] c.form = "compare" ->
             [i \in DOMAIN c.tests |-> Term(c.field, c.tests[i].op, <<c.tests[i].text>>)]
        [] c.form = "plain" /\ fuzzy -> <<Term(c.field, "like", <<c.text>>)>>
        [] c.form = "plain" /\ ~fuzzy -> <<Term(c.field, "=", <<c.text>>)>>

\* The values a clause adds.
Texted(terms) ==
  IF Len(terms) = 1 THEN terms[1].texts ELSE [i \in DOMAIN terms |-> terms[i].texts[1]]

\* The values the first n clauses have added.
Bound(clauses, n) ==
  LET bound[i \in 0..n] == IF i = 0 THEN <<>> ELSE bound[i - 1] \o Texted(clauses[i])
  IN  bound[n]

\* Mutant: every clause numbers its placeholders from 1.
Places_FromOne(terms, before) ==
  [i \in DOMAIN terms |-> [j \in DOMAIN terms[i].texts |-> i - 1 + j]]

\* nextPlaceholder() numbers on over the whole statement: `before` are taken.
Places(terms, before) ==
  [i \in DOMAIN terms |-> [j \in DOMAIN terms[i].texts |-> before + i - 1 + j]]

\* The pairs of "ors" and "lks" stand in parentheses of their own.
Joined(c) == IF c.form \in {"ors", "lks"} THEN "or" ELSE "and"

\* The clauses, joined by "and", and the values to bind.
Where(q) ==
  LET conds == SetToSeq(q.conds)
      terms == [n \in DOMAIN conds |-> Terms(conds[n], q.fuzzy)]
  IN  [clauses |-> [n \in DOMAIN conds |->
                      [join |-> Joined(conds[n]), terms |-> terms[n],
                       places |-> Places(terms[n], Len(Bound(terms, n - 1)))]],
       values |-> Bound(terms, Len(conds))]

\* Aggregates, or a group without fields, project the group and not the fields.
Columns(q) ==
  IF HasAggregates(q) \/ (q.group # "" /\ q.fields = {}) THEN {q.group} \ {""}
  ELSE IF q.fields = {} THEN {"id", "k"} ELSE q.fields

\* The limit clause of a page; without a page there is none.
GenSql(q, parameterized) ==
  [parameterized |-> parameterized, where |-> Where(q), columns |-> Columns(q),
   counts |-> q.counts, sums |-> q.sums, group |-> q.group, order |-> q.sort,
   limited |-> q.page > 0, offset |-> Wrap((q.page - 1) * q.size), size |-> q.size]

\* Mutant: the count statement forgets the conditions.
CountSql_Everything(q, parameterized) ==
  [parameterized |-> parameterized, where |-> Where([q EXCEPT !.conds = {}]), group |-> q.group]

\* Built from the same parts: count(1) over the matches, or over the subquery
\* "select * ... group by" of the groups.
CountSql(q, parameterized) ==
  [parameterized |-> parameterized, where |-> Where(q), group |-> q.group]

-----------------------------------------------------------------------------
(* The server.  The table has a text column "id" and a numeric column "k". *)

\* A missing value is NULL in a table.
Cell(row, column) == IF IsNil(Child(row, column)) THEN Null ELSE row[column]

SqlCompare(column, v, op, w) ==
  IF column = "id" THEN Compare(v.text, op, w.text) ELSE Compare(v.num, op, w.num)

\* A comparison with NULL is never true.
Holds(row, clause, i, s) ==
  LET term == clause.terms[i]
      v == Cell(row, term.field)
      text(j) == IF s.parameterized THEN s.where.values[clause.places[i][j]] ELSE term.texts[j]
  IN  /\ v # Null
      /\ \E j \in DOMAIN term.texts :
           CASE term.op = "like" -> <<v.text, text(j)>> \in Within
             [] term.op = "in"   -> SqlCompare(term.field, v, "=", Str(text(j)))
             [] OTHER            -> SqlCompare(term.field, v, term.op, Str(text(j)))

ClauseHolds(row, clause, s) ==
  IF clause.join = "or" THEN \E i \in DOMAIN clause.terms : Holds(row, clause, i, s)
  ELSE \A i \in DOMAIN clause.terms : Holds(row, clause, i, s)

Selected(table, s) ==
  {i \in DOMAIN table : \A n \in DOMAIN s.where.clauses : ClauseHolds(table[i], s.where.clauses[n], s)}

SameGroup(table, i, s) == {j \in DOMAIN table : Cell(table[j], s.group) = Cell(table[i], s.group)}

\* The rows that become one row of the result: a group, all of them, or each.
Parts(table, s) ==
  CASE s.group # "" -> {SameGroup(table, i, s) : i \in DOMAIN table}
    [] s.group = "" /\ DOMAIN s.counts \cup DOMAIN s.sums # {} -> {DOMAIN table}
    [] OTHER -> {{i} : i \in DOMAIN table}

\* What the rows at some positions are to "order by" and the select list; a
\* column that is not aggregated is that of the first of them.
RowFor(table, at, s) ==
  LET present(column) == {i \in at : column \in {"*", "1"} \/ Cell(table[i], column) # Null}
      number(column) == [i \in DOMAIN table |-> IF i \in present(column) THEN table[i][column].num ELSE 0]
      sum(column) == IF present(column) = {} THEN Null
                     ELSE Computed(SumUpTo(number(column), Len(table)))
      shown(column) == IF at = {} THEN Null ELSE Cell(table[Min(at)], column)
  IN  [f \in {"id", "k"} \cup DOMAIN s.counts \cup DOMAIN s.sums |->
         IF f \in DOMAIN s.sums THEN sum(s.sums[f])
         ELSE IF f \in DOMAIN s.counts THEN Computed(Cardinality(present(s.counts[f])))
         ELSE shown(f)]

\* NULLs sort below (nulls = -1) or above (nulls = 1) every value.
SqlOrder(v, w, nulls, column) ==
  CASE v = Null /\ w = Null -> 0
    [] v = Null /\ w # Null -> nulls
    [] v # Null /\ w = Null -> -nulls
    [] OTHER -> IF column = "id" THEN Sign(v.text, w.text) ELSE Sign(v.num, w.num)

InSqlOrder(left, right, s, nulls) ==
  LET order(i) == s.order[i].direction
                  * SqlOrder(left[s.order[i].field], right[s.order[i].field], nulls, s.order[i].field)
  IN  \A i \in DOMAIN s.order : order(i) > 0 => \E j \in 1..(i - 1) : order(j) < 0

\* Every arrangement the server may choose, without those columns that only
\* sorted it, cut by the limit clause.
Delivered(table, s) ==
  LET matches == RowsAt(table, Selected(table, s))
      parts == Parts(matches, s)
      arranged(nulls) ==
        {a \in {[i \in DOMAIN p |-> RowFor(matches, p[i], s)] : p \in Bijection(1..Cardinality(parts), parts)} :
           \A i, j \in DOMAIN a : i < j => InSqlOrder(a[i], a[j], s, nulls)}
      shown(row) == [f \in s.columns \cup DOMAIN s.counts \cup DOMAIN s.sums |-> row[f]]
      cut(a) == IF s.limited THEN SubSeq(a, s.offset + 1, Lesser(s.offset + s.size, Len(a))) ELSE a
  IN  {cut([i \in DOMAIN a |-> shown(a[i])]) : a \in arranged(-1) \cup arranged(1)}

\* A strict server refuses bare columns beside "group by": -1.
CountGiven(table, s, strict) ==
  CASE s.group = "" -> Cardinality(Selected(table, s))
    [] s.group # "" /\ ~strict -> Cardinality(Parts(RowsAt(table, Selected(table, s)), s))
    [] s.group # "" /\ strict -> -1

-----------------------------------------------------------------------------
(* select() of a SQL backend.                                              *)

\* runCountQueryOn() failing, or no page asked for, counts the rows returned.
Records(table, q, parameterized, strict, data) ==
  LET counted == IF q.page > 0 /\ q.size > 0 THEN CountGiven(table, CountSql(q, parameterized), strict)
                 ELSE -1
  IN  IF counted < 0 THEN Len(data) ELSE counted

SqlPages(records, q) ==
  IF q.page > 0 /\ q.size > 0 THEN (records + q.size - 1) \div q.size ELSE Lesser(records, 1)

\* attachRecordsPages() runs on 200 only: an empty answer has no counters.
SqlSelect(table, q, parameterized, strict) ==
  LET answered(data) ==
        IF data = <<>> THEN [status |-> "empty"]
        ELSE LET records == Records(table, q, parameterized, strict, data)
             IN  [status |-> "success", data |-> data,
                  records |-> records, pages |-> SqlPages(records, q)]
  IN  IF ~q.wellFormed THEN {[status |-> "paramerr"]}
      ELSE {answered(data) : data \in Delivered(table, GenSql(q, parameterized))}

-----------------------------------------------------------------------------
(* What a query and a table must be for the backends to agree at all.      *)

Numbers(table) == \A i \in DOMAIN table : Child(table[i], "k").kind \in {"number", "null", "absent"}
HasNil(table) == \E i \in DOMAIN table : IsNil(Child(table[i], "k"))
ShowsAbsence(table) == Cardinality({Child(table[i], "k").kind : i \in DOMAIN table} \cap {"null", "absent"}) > 1
IdsOrderAsTexts(table) ==
  \A i, j \in DOMAIN table :
    LET v == table[i]["id"] w == table[j]["id"] IN CompareSortValues(v, w) = Sign(v.text, w.text)

\* The engine compares two numeric texts as numbers: a text column does not,
\* and a numeric column is compared with numbers only.
ComparesAlike(table, field, text) ==
  \/ field = "k" /\ NumberOf[text] # NotNumeric
  \/ field = "id" /\ \A i \in DOMAIN table :
                       CompareSortValues(table[i]["id"], Str(text)) = Sign(table[i]["id"].text, text)

PortableCondition(c, table, fuzzy) ==
  CASE c.form = "ins" -> \A t \in c.texts : ComparesAlike(table, c.field, t)
    [] c.form = "ors" -> \A p \in c.pairs : ComparesAlike(table, p.field, p.text)
    [] c.form = "lks" -> \A p \in c.pairs : p.field \in {"id", "k"}
    [] c.form = "compare" -> /\ c.field = "k" => ~HasNil(table)
                             /\ \A i \in DOMAIN c.tests : ComparesAlike(table, c.field, c.tests[i].text)
    [] c.form = "plain" /\ fuzzy -> c.field \in {"id", "k"}
    [] c.form = "plain" /\ ~fuzzy -> c.text # NullText /\ ComparesAlike(table, c.field, c.text)

\* The columns there are to sort by: those of the groups, or of the table.
Names(q) ==
  IF q.group # "" \/ HasAggregates(q) THEN ({q.group} \ {""}) \cup Aggregates(q) ELSE {"id", "k"}

Portable(q, table, strict) ==
  /\ Numbers(table)
  /\ \A c \in q.conds : PortableCondition(c, table, q.fuzzy)
  /\ OnlyId(q) => q.wellFormed /\ \A c \in q.conds : c.form = "plain"
  /\ PageOnly(q) => q.fields = {}
  /\ q.page > 0 => q.size > 0 /\ q.page * q.size <= MaxInt
  /\ q.group # "" => q.group \in {"id", "k"} /\ ~ShowsAbsence(table) /\ (strict => q.page <= 0)
  /\ HasAggregates(q) /\ q.group = "" => q.page <= 0
  /\ ~HasAggregates(q) => q.fields \subseteq Names(q)
  /\ \A a \in DOMAIN q.sums : q.sums[a] = "k" /\ a \notin DOMAIN q.counts \cup {"id", "k"}
  /\ \A a \in DOMAIN q.counts : q.counts[a] \in {"*", "1", "id", "k"} /\ a \notin {"id", "k"}
  /\ q.sort # <<>> => IdsOrderAsTexts(table) /\ \A i \in DOMAIN q.sort : q.sort[i].field \in Names(q)

\* A row the JSON engine answers; the columns it lacks read as NULL.
AsSqlRow(row, q) ==
  [f \in Columns(q) \cup DOMAIN q.counts \cup DOMAIN q.sums \cup DOMAIN row |-> Cell(row, f)]

\* "Behavior contract (identical on every backend)" (README.md:126) for
\* select(): what the JSON engine answers, row by row, column by column and
\* with its records and pages, is an answer of a SQL backend over the same
\* rows, whether values are bound to placeholders or written into the
\* statement, for the queries and the tables that Portable leaves.  An answer
\* without rows agrees in its status only: the engine adds records and pages
\* to a 202 and the SQL backends do not (SqlBackendBase.cpp:132-134), though
\* select() "always returns records + pages" (README.md:134).
SqlAnswersLikeJson ==
  answer # NoQuery =>
    LET q == answer.query
        r == answer.result
    IN  \A parameterized, strict \in BOOLEAN :
          Portable(q, rows, strict) =>
            \E a \in SqlSelect(rows, q, parameterized, strict) :
              /\ a.status = r.status
              /\ r.status = "success" =>
                   a = [r EXCEPT !.data = [i \in DOMAIN @ |-> AsSqlRow(@[i], q)]]
=============================================================================
