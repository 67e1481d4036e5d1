---------------------------- MODULE MCJsonQuery ----------------------------
(* Instances of JsonQuery: the tables and the queries of each use.         *)
EXTENDS SqlBuilder

\* The texts "", "1", "10", "1a", "9" and "null", in byte order.
MCTexts == 0..5
MCNumberOf == [t \in MCTexts |-> CASE t = 1 -> 1 [] t = 2 -> 10 [] t = 4 -> 9 [] OTHER -> NotNumeric]
MCWithin == {<<t, t>> : t \in MCTexts} \cup {<<t, 0>> : t \in MCTexts} \cup {<<2, 1>>, <<3, 1>>}

NumericCells == {Num(1), Str(1), Num(2), Str(4), Null, Absent}
TwoCells == {Num(2), Null}
MixedCells == {Num(2), Str(4), Str(3), Null}

Base == [wellFormed |-> TRUE, conds |-> {}, fuzzy |-> FALSE, sort |-> <<>>, page |-> 0,
         size |-> 2, group |-> "", counts |-> <<>>, sums |-> <<>>, fields |-> {}]
Plain(f, t) == [form |-> "plain", field |-> f, text |-> t]
Test(op, t) == [op |-> op, text |-> t]
Between(f, tests) == [form |-> "compare", field |-> f, tests |-> tests]
By(f, d) == [field |-> f, direction |-> d]

Conditions ==
  {{}, {Plain("k", 1)}, {Plain("k", 5)}, {Plain("id", 2), Between("k", <<Test(">=", 1)>>)},
   {[form |-> "ins", field |-> "k", texts |-> {1, 4}]},
   {[form |-> "ors", pairs |-> {[field |-> "k", text |-> 4], [field |-> "id", text |-> 1]}]},
   {[form |-> "lks", pairs |-> {[field |-> "k", text |-> 1], [field |-> "id", text |-> 4]}]},
   {Between("k", <<Test(">", 1)>>)},
   {Between("k", <<Test(">=", 1), Test("<", 2)>>)}, {Between("k", <<Test("<", 2)>>)}, {Between("id", <<Test(">=", 2)>>)}}
Sorts == {<<By("k", 1)>>, <<By("k", -1), By("id", 1)>>}
Counted == [Base EXCEPT !.counts = [total |-> "*", some |-> "k"], !.sums = [all |-> "k"]]

Filtered == {[Base EXCEPT !.conds = c, !.page = p] : c \in Conditions, p \in 0..2}
            \cup {[Base EXCEPT !.conds = {Plain("k", 1)}, !.fuzzy = TRUE, !.size = 0, !.page = 1]}
\* By id and nothing else: one that is there, "null", a comparison, a wrong one.
ById == {[Base EXCEPT !.conds = {c}, !.size = 0, !.fields = f] :
           c \in {Plain("id", 2), Plain("id", 5), Between("id", <<Test(">=", 1)>>)}, f \in {{}, {"k"}}}
        \cup {[Base EXCEPT !.conds = {Between("id", <<>>)}, !.size = 0, !.wellFormed = FALSE]}
PagedFields == {[Base EXCEPT !.fields = {"id"}, !.page = p] : p \in 1..2}
Ordered == {[Base EXCEPT !.sort = s, !.page = p] : s \in Sorts, p \in 0..2}
           \cup {[Base EXCEPT !.sort = <<By("k", 1)>>, !.fields = {"id"}]}
Grouped == {[Counted EXCEPT !.group = g, !.page = p, !.conds = c] :
              g \in {"", "k"}, p \in 0..2, c \in {{}, {Between("k", <<Test(">", 1)>>)}}}
           \cup {[Counted EXCEPT !.group = "k", !.sort = <<By("total", -1)>>, !.fields = {"total"}]}
           \cup {[Base EXCEPT !.counts = [all |-> "1"], !.group = "id"]}
           \cup {[Base EXCEPT !.group = "k", !.fields = f] : f \in {{}, {"k"}, {"id"}}}

Walks == {Base, [Base EXCEPT !.conds = {Between("k", <<Test(">", 1)>>)}], [Base EXCEPT !.size = 1]}

\* Tables of numeric values asked anything, a column that mixes numeric and
\* other texts sorted, and tables that change while they are read.
EveryUse ==
  { [cells |-> NumericCells, walks |-> {},
     asks |-> Filtered \cup ById \cup PagedFields \cup Ordered \cup Grouped \cup {[Base EXCEPT !.wellFormed = FALSE]}],
    [cells |-> MixedCells, walks |-> {}, asks |-> Ordered],
    [cells |-> TwoCells, walks |-> Walks, asks |-> {}] }
=============================================================================
