------------------------- MODULE SqlBuilder_proofs -------------------------
(***************************************************************************)
(* That a SQL backend, asked any query the two kinds of backends share     *)
(* over any such table, may answer what the JSON engine answers.           *)
(***************************************************************************)
EXTENDS SqlBuilder, JsonQuery_proofs

-----------------------------------------------------------------------------
(* The where clause: the values of a statement and their places.           *)

LEMMA Enumerated ==
  ASSUME NEW S, IsFiniteSet(S)
  PROVE  /\ SetToSeq(S) \in Seq(S)
         /\ \A x \in S : \E i \in DOMAIN SetToSeq(S) : SetToSeq(S)[i] = x
<1> DEFINE n == Cardinality(S)
           f == SetToSeq(S)
<1>1. n \in Nat /\ \E g \in [1..n -> S] : IsInjective(g)
  BY FS_CardinalityType DEF ExistsBijection, Bijection, Injection
<1>2. f \in [1..n -> S] /\ IsInjective(f)
  BY <1>1 DEF SetToSeq
<1> HIDE DEF f
<1>3. f \in Injection(1..n, S)
  BY <1>2 DEF Injection
<1>4. IsFiniteSet(1..n) /\ Cardinality(1..n) = n
  BY <1>1, FS_Interval
<1>5. f \in Surjection(1..n, S)
  BY <1>3, <1>4, FS_Injection
<1> HIDE DEF n
<1>6. f \in Seq(S)
  BY <1>1, <1>2
<1>7. \A x \in S : \E i \in 1..n : f[i] = x
  BY <1>5 DEF Surjection
<1> QED
  BY <1>2, <1>6, <1>7 DEF f

RightBound(t, clauses, n) ==
  t = [i \in 0..n |-> IF i = 0 THEN <<>> ELSE t[i - 1] \o Texted(clauses[i])]

LEMMA BoundExists ==
  ASSUME NEW clauses, NEW n \in Nat
  PROVE  \E t : RightBound(t, clauses, n)
<1> DEFINE S == {m \in Nat : \E t : RightBound(t, clauses, m)}
<1>1. 0 \in S
  <2>1. RightBound([i \in 0..0 |-> <<>>], clauses, 0)
    BY DEF RightBound
  <2> QED
    BY <2>1
<1>2. ASSUME NEW m \in Nat, m \in S
      PROVE  m + 1 \in S
  <2>1. PICK t : RightBound(t, clauses, m)
    BY <1>2
  <2> DEFINE u == [i \in 0..(m + 1) |-> IF i = m + 1 THEN t[m] \o Texted(clauses[m + 1]) ELSE t[i]]
  <2>2. \A i \in 0..(m + 1) : u[i] = IF i = 0 THEN <<>> ELSE u[i - 1] \o Texted(clauses[i])
    BY <2>1 DEF RightBound
  <2>3. RightBound(u, clauses, m + 1)
    <3> HIDE DEF u
    <3> QED
      BY <2>2 DEF u, RightBound
  <2> QED
    BY <2>3
<1> HIDE DEF S
<1>3. n \in S
  BY <1>1, <1>2, Induct
<1> QED
  BY <1>3 DEF S

\* The values of n clauses are those of n - 1 and of the last.
LEMMA BoundIs ==
  ASSUME NEW clauses
  PROVE  /\ Bound(clauses, 0) = <<>>
         /\ \A n \in Nat \ {0} : Bound(clauses, n) = Bound(clauses, n - 1) \o Texted(clauses[n])
<1> DEFINE t == [m \in Nat |-> CHOOSE x : RightBound(x, clauses, m)]
<1>1. \A m \in Nat : Bound(clauses, m) = t[m][m]
  BY DEF Bound, RightBound
<1>2. \A m \in Nat : RightBound(t[m], clauses, m)
  BY BoundExists
<1> HIDE DEF t
<1>3. \A m \in Nat : \A i \in 0..m : t[m][i] = IF i = 0 THEN <<>> ELSE t[m][i - 1] \o Texted(clauses[i])
  BY <1>2 DEF RightBound
<1>4. ASSUME NEW n \in Nat \ {0}
      PROVE  Bound(clauses, n) = Bound(clauses, n - 1) \o Texted(clauses[n])
  <2> DEFINE U == {m \in Nat : m <= n - 1 => t[n][m] = t[n - 1][m]}
  <2>1. 0 \in U
    <3>1. n - 1 \in Nat /\ n \in Nat /\ 0 \in 0..n /\ 0 \in 0..(n - 1)
      OBVIOUS
    <3>2. t[n][0] = <<>> /\ t[n - 1][0] = <<>>
      BY <1>3, <3>1
    <3> QED
      BY <3>2
  <2>2. ASSUME NEW m \in Nat, m \in U PROVE m + 1 \in U
    <3> SUFFICES ASSUME m + 1 <= n - 1 PROVE t[n][m + 1] = t[n - 1][m + 1]
      OBVIOUS
    <3>1. m <= n - 1 /\ n - 1 \in Nat /\ m + 1 \in 0..(n - 1) /\ m + 1 \in 0..n /\ (m + 1) - 1 = m /\ m + 1 # 0
      OBVIOUS
    <3>2. t[n][m + 1] = t[n][m] \o Texted(clauses[m + 1])
      BY <1>3, <3>1
    <3>3. t[n - 1][m + 1] = t[n - 1][m] \o Texted(clauses[m + 1])
      BY <1>3, <3>1
    <3> QED
      BY <2>2, <3>1, <3>2, <3>3
  <2>3. n - 1 \in Nat /\ n \in Nat /\ n \in 0..n /\ n # 0
    OBVIOUS
  <2>4. t[n][n - 1] = t[n - 1][n - 1]
    <3> HIDE DEF U
    <3>1. n - 1 \in U
      BY <2>1, <2>2, <2>3, Induct
    <3> QED
      BY <2>3, <3>1 DEF U
  <2>5. t[n][n] = t[n][n - 1] \o Texted(clauses[n])
    BY <1>3, <2>3
  <2> QED
    BY <1>1, <2>3, <2>4, <2>5
<1>5. Bound(clauses, 0) = <<>>
  BY <1>1, <1>3
<1> QED
  BY <1>4, <1>5

LEMMA ConcatIs ==
  ASSUME NEW S, NEW s \in Seq(S), NEW t \in Seq(S)
  PROVE  /\ s \o t \in Seq(S) /\ Len(s \o t) = Len(s) + Len(t)
         /\ \A i \in 1..Len(s) : (s \o t)[i] = s[i]
         /\ \A i \in 1..Len(t) : (s \o t)[Len(s) + i] = t[i]
OBVIOUS

\* b[m] is what the first m sequences of x make.
Chained(b, x, len, S) ==
  /\ b[0] = <<>>
  /\ \A m \in 1..len : b[m] = b[m - 1] \o x[m] /\ x[m] \in Seq(S)

LEMMA ChainedTyped ==
  ASSUME NEW b, NEW x, NEW len \in Nat, NEW S, Chained(b, x, len, S)
  PROVE  \A m \in 0..len : b[m] \in Seq(S)
<1> DEFINE U == {m \in Nat : m <= len => b[m] \in Seq(S)}
<1>1. 0 \in U
  <2>1. b[0] = <<>> /\ <<>> \in Seq(S)
    BY EmptySeq DEF Chained
  <2> QED
    BY <2>1
<1>2. ASSUME NEW m \in Nat, m \in U PROVE m + 1 \in U
  <2> SUFFICES ASSUME m + 1 <= len PROVE b[m + 1] \in Seq(S)
    OBVIOUS
  <2>1. m + 1 \in 1..len /\ (m + 1) - 1 = m /\ b[m] \in Seq(S)
    BY <1>2
  <2>2. b[m + 1] = b[m] \o x[m + 1] /\ x[m + 1] \in Seq(S)
    BY <2>1 DEF Chained
  <2> QED
    BY <2>1, <2>2, ConcatIs
<1> HIDE DEF U
<1>3. Nat \subseteq U
  BY <1>1, <1>2, Induct
<1> QED
  BY <1>3 DEF U

\* The sequence y lies in s after the first n.
LiesAt(y, s, n) == n + Len(y) <= Len(s) /\ \A j \in 1..Len(y) : s[n + j] = y[j]

LEMMA LiesOn ==
  ASSUME NEW S, NEW s \in Seq(S), NEW t \in Seq(S), NEW y \in Seq(S), NEW n \in Nat
  PROVE  /\ LiesAt(y, s, n) => LiesAt(y, s \o t, n)
         /\ LiesAt(y, s \o y, Len(s))
BY ConcatIs DEF LiesAt

LEMMA ChainedStays ==
  ASSUME NEW b, NEW x, NEW len \in Nat, NEW S, Chained(b, x, len, S), NEW n \in 1..len
  PROVE  LiesAt(x[n], b[len], Len(b[n - 1]))
<1> DEFINE at == Len(b[n - 1])
           U == {m \in Nat : n + m <= len => LiesAt(x[n], b[n + m], at)}
<1>1. n - 1 \in 0..len /\ b[n - 1] \in Seq(S) /\ x[n] \in Seq(S) /\ b[n] = b[n - 1] \o x[n]
  <2>1. n - 1 \in 0..len
    OBVIOUS
  <2>2. \A m \in 0..len : b[m] \in Seq(S)
    BY ChainedTyped
  <2> QED
    BY <2>1, <2>2 DEF Chained
<1>2. at \in Nat
  BY <1>1
<1> HIDE DEF at
<1>3. 0 \in U
  <2>1. LiesAt(x[n], b[n], at)
    BY <1>1, LiesOn DEF at
  <2> QED
    BY <2>1
<1>4. ASSUME NEW m \in Nat, m \in U PROVE m + 1 \in U
  <2> SUFFICES ASSUME n + (m + 1) <= len PROVE LiesAt(x[n], b[n + (m + 1)], at)
    OBVIOUS
  <2>1. n + m \in 0..len /\ n + (m + 1) \in 1..len /\ (n + (m + 1)) - 1 = n + m
    OBVIOUS
  <2>2. LiesAt(x[n], b[n + m], at)
    BY <1>4
  <2>3. b[n + (m + 1)] = b[n + m] \o x[n + (m + 1)] /\ x[n + (m + 1)] \in Seq(S) /\ b[n + m] \in Seq(S)
    BY <2>1, ChainedTyped DEF Chained
  <2> QED
    BY <1>1, <1>2, <2>2, <2>3, LiesOn
<1>5. len - n \in Nat /\ n + (len - n) = len
  OBVIOUS
<1> HIDE DEF U
<1>6. len - n \in U
  BY <1>3, <1>4, <1>5, Induct
<1>7. LiesAt(x[n], b[len], at)
  BY <1>5, <1>6 DEF U
<1> QED
  BY <1>7 DEF at

\* Every clause finds its values where it left them.
LEMMA ValuesStay ==
  ASSUME NEW S, NEW clauses, NEW len \in Nat, \A i \in 1..len : Texted(clauses[i]) \in Seq(S),
         NEW n \in 1..len
  PROVE  /\ \A m \in 0..len : Bound(clauses, m) \in Seq(S)
         /\ LiesAt(Texted(clauses[n]), Bound(clauses, len), Len(Bound(clauses, n - 1)))
<1> DEFINE b == [m \in 0..len |-> Bound(clauses, m)]
           x == [m \in 1..len |-> Texted(clauses[m])]
<1>1. \A m \in 1..len : m \in Nat \ {0} /\ m - 1 \in 0..len /\ m \in 0..len
  OBVIOUS
<1>2. 0 \in 0..len /\ len \in 0..len /\ n - 1 \in 0..len
  OBVIOUS
<1>3. \A m \in 1..len : b[m] = b[m - 1] \o x[m]
  <2> SUFFICES ASSUME NEW m \in 1..len PROVE b[m] = b[m - 1] \o x[m]
    OBVIOUS
  <2>1. Bound(clauses, m) = Bound(clauses, m - 1) \o Texted(clauses[m])
    BY <1>1, BoundIs
  <2> QED
    BY <1>1, <2>1
<1>4. b[0] = <<>>
  BY <1>2, BoundIs
<1>5. \A m \in 1..len : x[m] \in Seq(S)
  OBVIOUS
<1>6. \A m \in 0..len : b[m] = Bound(clauses, m)
  OBVIOUS
<1>7. x[n] = Texted(clauses[n])
  OBVIOUS
<1> HIDE DEF b, x
<1>8. Chained(b, x, len, S)
  BY <1>3, <1>4, <1>5 DEF Chained
<1>9. \A m \in 0..len : b[m] \in Seq(S)
  BY <1>8, ChainedTyped
<1>10. LiesAt(x[n], b[len], Len(b[n - 1]))
  BY <1>8, ChainedStays
<1> QED
  BY <1>2, <1>6, <1>7, <1>9, <1>10

LEMMA Listed ==
  ASSUME NEW f, NEW n \in Nat, f = [i \in 1..n |-> f[i]]
  PROVE  /\ Len(f) = n /\ DOMAIN f = 1..n
         /\ \A S : (\A i \in 1..n : f[i] \in S) => f \in Seq(S)
<1>1. f \in [1..n -> {f[i] : i \in 1..n}]
  OBVIOUS
<1>2. ASSUME NEW S, \A i \in 1..n : f[i] \in S PROVE f \in Seq(S)
  <2>1. f \in [1..n -> S]
    BY <1>2
  <2> QED
    BY <2>1
<1>3. Len(f) = n /\ DOMAIN f = 1..n
  <2>1. PICK T : f \in [1..n -> T]
    BY <1>1
  <2> QED
    BY <2>1
<1> QED
  BY <1>2, <1>3

\* One term of several texts, or several terms of one text.
IsTerms(terms, n) ==
  /\ n \in Nat /\ terms = [i \in 1..n |-> terms[i]]
  /\ \A i \in 1..n : terms[i].texts \in Seq(Texts)
  /\ n # 1 => \A i \in 1..n : Len(terms[i].texts) = 1

LEMMA TextedIs ==
  ASSUME NEW terms, NEW n, IsTerms(terms, n)
  PROVE  /\ Texted(terms) \in Seq(Texts)
         /\ \A i \in 1..n : \A j \in 1..Len(terms[i].texts) :
              i - 1 + j \in 1..Len(Texted(terms)) /\ Texted(terms)[i - 1 + j] = terms[i].texts[j]
<1>1. n \in Nat /\ Len(terms) = n /\ DOMAIN terms = 1..n
  BY Listed DEF IsTerms
<1>2. CASE n = 1
  <2>1. Texted(terms) = terms[1].texts
    BY <1>1, <1>2 DEF Texted
  <2>2. terms[1].texts \in Seq(Texts)
    BY <1>2 DEF IsTerms
  <2> QED
    BY <1>2, <2>1, <2>2
<1>3. CASE n # 1
  <2> DEFINE f == [i \in 1..n |-> terms[i].texts[1]]
  <2>1. Texted(terms) = f
    BY <1>1, <1>3 DEF Texted
  <2>2. f = [i \in 1..n |-> f[i]]
    OBVIOUS
  <2>3. \A i \in 1..n : f[i] = terms[i].texts[1]
    OBVIOUS
  <2>4. \A i \in 1..n : Len(terms[i].texts) = 1 /\ terms[i].texts[1] \in Texts
    BY <1>3 DEF IsTerms
  <2> HIDE DEF f
  <2>5. f \in Seq(Texts) /\ Len(f) = n
    BY <1>1, <2>2, <2>3, <2>4, Listed
  <2> QED
    BY <1>1, <2>1, <2>3, <2>4, <2>5
<1> QED
  BY <1>2, <1>3

LEMMA OneTerm ==
  ASSUME NEW field, NEW op, NEW texts \in Seq(Texts)
  PROVE  IsTerms(<<Term(field, op, texts)>>, 1)
<1> DEFINE terms == <<Term(field, op, texts)>>
<1>1. terms = [i \in 1..1 |-> terms[i]] /\ terms[1] = Term(field, op, texts)
  OBVIOUS
<1>2. \A i \in 1..1 : i = 1
  OBVIOUS
<1> HIDE DEF terms
<1>3. \A i \in 1..1 : terms[i].texts \in Seq(Texts)
  BY <1>1, <1>2 DEF Term
<1>4. IsTerms(terms, 1)
  BY <1>1, <1>3 DEF IsTerms
<1> QED
  BY <1>4 DEF terms

LEMMA OneTextEach ==
  ASSUME NEW terms, NEW n \in Nat, terms = [i \in 1..n |-> terms[i]],
         \A i \in 1..n : \E t \in Texts : terms[i].texts = <<t>>
  PROVE  IsTerms(terms, n)
<1>1. \A t \in Texts : <<t>> \in Seq(Texts) /\ Len(<<t>>) = 1
  OBVIOUS
<1>2. \A i \in 1..n : terms[i].texts \in Seq(Texts) /\ Len(terms[i].texts) = 1
  BY <1>1
<1> QED
  BY <1>2 DEF IsTerms

LEMMA ConditionTerms ==
  ASSUME NEW c, IsCondition(c), NEW fuzzy \in BOOLEAN
  PROVE  \E n : IsTerms(Terms(c, fuzzy), n)
<1>1. CASE c.form = "ins"
  <2>1. SetToSeq(c.texts) \in Seq(Texts)
    BY <1>1, Enumerated DEF IsCondition
  <2>2. Terms(c, fuzzy) = <<Term(c.field, "in", SetToSeq(c.texts))>>
    BY <1>1 DEF Terms
  <2>3. IsTerms(Terms(c, fuzzy), 1)
    BY <2>1, <2>2, OneTerm
  <2> QED
    BY <2>3
<1>2. ASSUME c.form \in {"ors", "lks"} PROVE \E n : IsTerms(Terms(c, fuzzy), n)
  <2> DEFINE pairs == SetToSeq(c.pairs)
  <2>1. pairs \in Seq(c.pairs) /\ c.pairs \subseteq [field : STRING, text : Texts]
    BY <1>2, Enumerated DEF IsCondition
  <2> HIDE DEF pairs
  <2>2. PICK op : Terms(c, fuzzy) = [i \in DOMAIN pairs |-> Term(pairs[i].field, op, <<pairs[i].text>>)]
    BY <1>2 DEF Terms, pairs
  <2>3. Len(pairs) \in Nat /\ DOMAIN pairs = 1..Len(pairs) /\ \A i \in 1..Len(pairs) : pairs[i].text \in Texts
    BY <2>1
  <2>4. IsTerms(Terms(c, fuzzy), Len(pairs))
    <3> DEFINE terms == Terms(c, fuzzy)
    <3>1. terms = [i \in 1..Len(pairs) |-> terms[i]] /\ \A i \in 1..Len(pairs) : terms[i].texts = <<pairs[i].text>>
      BY <2>2, <2>3 DEF Term
    <3> HIDE DEF terms
    <3>2. IsTerms(terms, Len(pairs))
      BY <2>3, <3>1, OneTextEach
    <3> QED
      BY <3>2 DEF terms
  <2> QED
    BY <2>4
<1>3. CASE c.form = "compare"
  <2>1. Terms(c, fuzzy) = [i \in DOMAIN c.tests |-> Term(c.field, c.tests[i].op, <<c.tests[i].text>>)]
    BY <1>3 DEF Terms
  <2>2. /\ Len(c.tests) \in Nat /\ DOMAIN c.tests = 1..Len(c.tests)
        /\ \A i \in 1..Len(c.tests) : c.tests[i].text \in Texts
    <3> DEFINE tests == c.tests
    <3>1. PICK T : tests \in Seq(T) /\ \A x \in T : x.text \in Texts
      <4> DEFINE D == [op : {">", ">=", "<", "<=", "<>", "="}, text : Texts]
      <4>1. tests \in Seq(D)
        BY <1>3 DEF IsCondition
      <4>2. \A x \in D : x.text \in Texts
        OBVIOUS
      <4> HIDE DEF D, tests
      <4> QED
        BY <4>1, <4>2
    <3> HIDE DEF tests
    <3>2. Len(tests) \in Nat /\ DOMAIN tests = 1..Len(tests) /\ \A i \in 1..Len(tests) : tests[i] \in T
      BY <3>1
    <3> QED
      BY <3>1, <3>2 DEF tests
  <2>3. IsTerms(Terms(c, fuzzy), Len(c.tests))
    <3> DEFINE terms == Terms(c, fuzzy)
               n == Len(c.tests)
    <3>1. terms = [i \in 1..n |-> terms[i]] /\ \A i \in 1..n : terms[i].texts = <<c.tests[i].text>>
      BY <2>1, <2>2 DEF Term
    <3>2. n \in Nat /\ \A i \in 1..n : c.tests[i].text \in Texts
      BY <2>2
    <3> HIDE DEF terms, n
    <3>3. IsTerms(terms, n)
      BY <3>1, <3>2, OneTextEach
    <3> QED
      BY <3>3 DEF terms, n
  <2> QED
    BY <2>3
<1>4. CASE c.form = "plain"
  <2>1. c.text \in Texts
    BY <1>4 DEF IsCondition
  <2>2. PICK op : Terms(c, fuzzy) = <<Term(c.field, op, <<c.text>>)>>
    BY <1>4 DEF Terms
  <2>3. <<c.text>> \in Seq(Texts)
    BY <2>1
  <2>4. IsTerms(Terms(c, fuzzy), 1)
    BY <2>2, <2>3, OneTerm
  <2> QED
    BY <2>4
<1> QED
  BY <1>1, <1>2, <1>3, <1>4 DEF IsCondition

\* The clauses are those of the conditions, and each value stands at its place.
LEMMA WhereIs ==
  ASSUME NEW q, IsFiniteSet(q.conds), \A c \in q.conds : IsCondition(c), q.fuzzy \in BOOLEAN,
         NEW conds, conds = SetToSeq(q.conds)
  PROVE  /\ conds \in Seq(q.conds) /\ \A c \in q.conds : \E n \in DOMAIN conds : conds[n] = c
         /\ DOMAIN Where(q).clauses = DOMAIN conds
         /\ \A n \in DOMAIN conds :
              /\ Where(q).clauses[n].join = Joined(conds[n])
              /\ Where(q).clauses[n].terms = Terms(conds[n], q.fuzzy)
              /\ \A i \in DOMAIN Terms(conds[n], q.fuzzy) :
                   \A j \in DOMAIN Terms(conds[n], q.fuzzy)[i].texts :
                     Where(q).values[Where(q).clauses[n].places[i][j]] = Terms(conds[n], q.fuzzy)[i].texts[j]
<1> DEFINE terms == [n \in DOMAIN conds |-> Terms(conds[n], q.fuzzy)]
           len == Len(conds)
<1>1. conds \in Seq(q.conds) /\ \A c \in q.conds : \E n \in DOMAIN conds : conds[n] = c
  BY Enumerated
<1>2. len \in Nat /\ DOMAIN conds = 1..len /\ \A n \in 1..len : IsCondition(conds[n])
  BY <1>1
<1>3. \A n \in 1..len : terms[n] = Terms(conds[n], q.fuzzy)
  BY <1>2
<1>4. /\ Where(q).values = Bound(terms, len)
      /\ Where(q).clauses = [n \in 1..len |->
           [join |-> Joined(conds[n]), terms |-> terms[n],
            places |-> Places(terms[n], Len(Bound(terms, n - 1)))]]
  BY <1>2 DEF Where
<1> HIDE DEF terms, len
<1>5. ASSUME NEW n \in 1..len
      PROVE  /\ Where(q).clauses[n].join = Joined(conds[n])
             /\ Where(q).clauses[n].terms = terms[n]
             /\ Where(q).clauses[n].places = Places(terms[n], Len(Bound(terms, n - 1)))
  BY <1>4
<1>6. \A n \in 1..len : Texted(terms[n]) \in Seq(Texts)
  BY <1>2, <1>3, ConditionTerms, TextedIs
<1>7. ASSUME NEW n \in 1..len, NEW i \in DOMAIN terms[n], NEW j \in DOMAIN terms[n][i].texts
      PROVE  Where(q).values[Where(q).clauses[n].places[i][j]] = terms[n][i].texts[j]
  <2> DEFINE before == Len(Bound(terms, n - 1))
  <2>1. PICK m : IsTerms(terms[n], m)
    BY <1>2, <1>3, ConditionTerms
  <2>2. i \in 1..m /\ m \in Nat /\ terms[n][i].texts \in Seq(Texts)
    BY <2>1 DEF IsTerms
  <2>3. j \in 1..Len(terms[n][i].texts)
    BY <2>2
  <2>4. Texted(terms[n]) \in Seq(Texts) /\ i - 1 + j \in 1..Len(Texted(terms[n]))
        /\ Texted(terms[n])[i - 1 + j] = terms[n][i].texts[j]
    <3> DEFINE u == terms[n]
    <3> HIDE DEF u
    <3>1. IsTerms(u, m)
      BY <2>1 DEF u
    <3>2. /\ Texted(u) \in Seq(Texts)
          /\ \A i1 \in 1..m : \A j1 \in 1..Len(u[i1].texts) :
               i1 - 1 + j1 \in 1..Len(Texted(u)) /\ Texted(u)[i1 - 1 + j1] = u[i1].texts[j1]
      BY <3>1, TextedIs
    <3> QED
      BY <2>2, <2>3, <3>2 DEF u
  <2>5. /\ \A m1 \in 0..len : Bound(terms, m1) \in Seq(Texts)
        /\ LiesAt(Texted(terms[n]), Bound(terms, len), before)
    BY <1>2, <1>6, ValuesStay
  <2>6. before \in Nat
    <3>1. n - 1 \in 0..len
      BY <1>2
    <3> QED
      BY <2>5, <3>1
  <2> HIDE DEF before
  <2>7. Where(q).clauses[n].places[i][j] = before + i - 1 + j
    <3>1. Where(q).clauses[n].places = Places(terms[n], before)
      BY <1>5 DEF before
    <3> QED
      BY <3>1 DEF Places
  <2>8. before + i - 1 + j = before + (i - 1 + j)
    <3>1. i \in Nat /\ j \in Nat
      BY <2>2, <2>3
    <3> QED
      BY <2>6, <3>1
  <2>9. Where(q).values[before + (i - 1 + j)] = Texted(terms[n])[i - 1 + j]
    BY <1>4, <2>4, <2>5 DEF LiesAt
  <2> QED
    BY <2>4, <2>7, <2>8, <2>9
<1>8. DOMAIN Where(q).clauses = 1..len
  BY <1>4
<1>9. \A n \in DOMAIN conds : n \in 1..len /\ terms[n] = Terms(conds[n], q.fuzzy)
  BY <1>2, <1>3
<1>10. \A n \in DOMAIN conds :
         \A i \in DOMAIN Terms(conds[n], q.fuzzy) : \A j \in DOMAIN Terms(conds[n], q.fuzzy)[i].texts :
           Where(q).values[Where(q).clauses[n].places[i][j]] = Terms(conds[n], q.fuzzy)[i].texts[j]
  <2> SUFFICES ASSUME NEW n \in DOMAIN conds
               PROVE  \A i \in DOMAIN Terms(conds[n], q.fuzzy) :
                        \A j \in DOMAIN Terms(conds[n], q.fuzzy)[i].texts :
                          Where(q).values[Where(q).clauses[n].places[i][j]] = Terms(conds[n], q.fuzzy)[i].texts[j]
    OBVIOUS
  <2>1. n \in 1..len /\ Terms(conds[n], q.fuzzy) = terms[n]
    BY <1>9
  <2>2. \A i \in DOMAIN terms[n] : \A j \in DOMAIN terms[n][i].texts :
          Where(q).values[Where(q).clauses[n].places[i][j]] = terms[n][i].texts[j]
    BY <1>7, <2>1
  <2> QED
    BY <2>1, <2>2
<1>11. \A n \in DOMAIN conds : /\ Where(q).clauses[n].join = Joined(conds[n])
                              /\ Where(q).clauses[n].terms = Terms(conds[n], q.fuzzy)
  BY <1>5, <1>9
<1>12. DOMAIN Where(q).clauses = DOMAIN conds
  BY <1>2, <1>8
<1> QED
  BY <1>1, <1>10, <1>11, <1>12

\* What a term asks of a row, whether its values are bound or written out.
Asks(row, term, t) ==
  CASE term.op = "like" -> <<Cell(row, term.field).text, t>> \in Within
    [] term.op = "in"   -> SqlCompare(term.field, Cell(row, term.field), "=", Str(t))
    [] OTHER            -> SqlCompare(term.field, Cell(row, term.field), term.op, Str(t))

TermHolds(row, term) ==
  Cell(row, term.field) # Null /\ \E j \in DOMAIN term.texts : Asks(row, term, term.texts[j])

LEMMA HoldsIs ==
  ASSUME NEW s, NEW clause, NEW i, NEW row, s.parameterized \in BOOLEAN,
         \A j \in DOMAIN clause.terms[i].texts :
           s.where.values[clause.places[i][j]] = clause.terms[i].texts[j]
  PROVE  Holds(row, clause, i, s) <=> TermHolds(row, clause.terms[i])
<1> DEFINE text(j) == IF s.parameterized THEN s.where.values[clause.places[i][j]] ELSE clause.terms[i].texts[j]
<1>1. \A j \in DOMAIN clause.terms[i].texts : text(j) = clause.terms[i].texts[j]
  OBVIOUS
<1>2. Holds(row, clause, i, s) <=>
        Cell(row, clause.terms[i].field) # Null
        /\ \E j \in DOMAIN clause.terms[i].texts : Asks(row, clause.terms[i], text(j))
  BY DEF Holds, Asks
<1> HIDE DEF text
<1>3. (\E j \in DOMAIN clause.terms[i].texts : Asks(row, clause.terms[i], text(j)))
      <=> (\E j \in DOMAIN clause.terms[i].texts : Asks(row, clause.terms[i], clause.terms[i].texts[j]))
  BY <1>1
<1> QED
  BY <1>2, <1>3 DEF TermHolds

Operators == {">", ">=", "<", "<=", "<>", "="}

LEMMA ComparesAre ==
  ASSUME NEW a \in Int, NEW b \in Int
  PROVE  /\ Compare(a, ">", b) <=> a > b
         /\ Compare(a, ">=", b) <=> a >= b
         /\ Compare(a, "<", b) <=> a < b
         /\ Compare(a, "<=", b) <=> a <= b
         /\ Compare(a, "<>", b) <=> a # b
         /\ Compare(a, "=", b) <=> a = b
BY DEF Compare

LEMMA SignsDecide ==
  ASSUME NEW a \in Int, NEW b \in Int, NEW x \in Int, NEW y \in Int, Sign(a, b) = Sign(x, y),
         NEW op \in Operators
  PROVE  Compare(a, op, b) <=> Compare(x, op, y)
<1>1. (a < b <=> x < y) /\ (a > b <=> x > y)
  BY DEF Sign
<1>2. a = b <=> x = y
  BY <1>1
<1>3. op = ">" \/ op = ">=" \/ op = "<" \/ op = "<=" \/ op = "<>" \/ op = "="
  BY DEF Operators
<1>4. CASE op = ">"
  BY <1>1, <1>4, ComparesAre
<1>5. CASE op = ">="
  BY <1>1, <1>5, ComparesAre
<1>6. CASE op = "<"
  BY <1>1, <1>6, ComparesAre
<1>7. CASE op = "<="
  BY <1>1, <1>7, ComparesAre
<1>8. CASE op = "<>"
  BY <1>2, <1>8, ComparesAre
<1>9. CASE op = "="
  BY <1>2, <1>9, ComparesAre
<1> QED
  BY <1>3, <1>4, <1>5, <1>6, <1>7, <1>8, <1>9

LEMMA CellIs ==
  ASSUME NEW r \in TableRows, NEW f
  PROVE  /\ Cell(r, f) = Null <=> IsNil(Child(r, f))
         /\ ~IsNil(Child(r, f)) => Cell(r, f) = Child(r, f)
<1>1. IsNil(Null) /\ IsNil(Absent)
  BY NumbersAre
<1> QED
  BY <1>1 DEF Cell, Child

LEMMA IdCellIs ==
  ASSUME NEW r \in TableRows
  PROVE  \E t \in Texts : /\ Child(r, "id") = Str(t) /\ Cell(r, "id") = Str(t) /\ ~IsNil(Str(t))
<1>1. PICK t \in Texts : r["id"] = Str(t)
  BY DEF TableRows
<1>2. Child(r, "id") = Str(t)
  BY <1>1 DEF Child, TableRows
<1>3. ~IsNil(Str(t))
  BY DEF IsNil, Str
<1> QED
  BY <1>2, <1>3, CellIs

LEMMA NumberCellIs ==
  ASSUME NEW table \in Seq(TableRows), Numbers(table), NEW i \in DOMAIN table, ~IsNil(Child(table[i], "k"))
  PROVE  \E t \in Numerals : Child(table[i], "k") = Num(t) /\ Cell(table[i], "k") = Num(t) /\ NumberOf[t] \in Int
<1> DEFINE v == Child(table[i], "k")
<1>1. table[i] \in TableRows
  OBVIOUS
<1>2. v \in Cells /\ v.kind = "number"
  BY <1>1, ChildrenAre DEF Numbers, IsNil
<1>3. \A t \in Texts : Str(t).kind = "string"
  BY DEF Str
<1>4. Null.kind = "null" /\ Absent.kind = "absent"
  BY DEF Null, Absent
<1> HIDE DEF v
<1>5. PICK t \in Numerals : v = Num(t)
  BY <1>2, <1>3, <1>4 DEF Cells
<1>6. NumberOf[t] \in Int
  BY QueryAssumption DEF Numerals
<1> QED
  BY <1>1, <1>5, <1>6, CellIs DEF v

\* Where the two compare alike, they compare alike with every operator.
LEMMA ComparisonsAgree ==
  ASSUME NEW table \in Seq(TableRows), Numbers(table), NEW i \in DOMAIN table,
         NEW field, NEW t \in Texts, ComparesAlike(table, field, t), ~IsNil(Child(table[i], field))
  PROVE  \A op \in Operators : SqlCompare(field, Cell(table[i], field), op, Str(t))
                               <=> CompareByOperator(Child(table[i], field), op, Str(t))
<1>1. table[i] \in TableRows /\ t \in Int /\ Texts \subseteq Int
  BY QueryAssumption
<1>2. Str(t).text = t /\ Str(t).num = NumberOf[t] /\ Str(t).kind = "string" /\ ~IsNil(Str(t))
  BY DEF Str, IsNil
<1>3. NumberOf[t] = NotNumeric \/ NumberOf[t] \in Int
  BY QueryAssumption
<1>4. CASE field = "k" /\ NumberOf[t] # NotNumeric
  <2>1. PICK u \in Numerals : Child(table[i], "k") = Num(u) /\ Cell(table[i], "k") = Num(u) /\ NumberOf[u] \in Int
    BY <1>4, NumberCellIs
  <2>2. Num(u).num = NumberOf[u] /\ NumberOf[u] # NotNumeric
    BY <2>1, UseAssumption DEF Num
  <2>3. BothNumeric(Num(u), Str(t))
    BY <1>2, <1>4, <2>2 DEF BothNumeric
  <2>4. \A op : CompareByOperator(Num(u), op, Str(t)) = Compare(NumberOf[u], op, NumberOf[t])
    BY <1>2, <2>2, <2>3 DEF CompareByOperator
  <2>5. \A op : SqlCompare("k", Num(u), op, Str(t)) = Compare(NumberOf[u], op, NumberOf[t])
    BY <1>2, <2>2 DEF SqlCompare
  <2> QED
    BY <1>4, <2>1, <2>4, <2>5
<1>5. CASE field = "id" /\ CompareSortValues(table[i]["id"], Str(t)) = Sign(table[i]["id"].text, t)
  <2>1. PICK u \in Texts : Child(table[i], "id") = Str(u) /\ Cell(table[i], "id") = Str(u) /\ ~IsNil(Str(u))
    BY <1>1, IdCellIs
  <2>2. table[i]["id"] = Str(u)
    BY <1>1, <2>1 DEF Child, TableRows
  <2>3. Str(u).text = u /\ Str(u).num = NumberOf[u] /\ u \in Int
    BY <1>1 DEF Str
  <2>4. NumberOf[u] = NotNumeric \/ NumberOf[u] \in Int
    BY QueryAssumption
  <2>5. \A op : SqlCompare("id", Str(u), op, Str(t)) = Compare(u, op, t)
    BY <1>2, <2>3 DEF SqlCompare
  <2>6. CompareSortValues(Str(u), Str(t))
          = IF BothNumeric(Str(u), Str(t)) THEN Sign(NumberOf[u], NumberOf[t]) ELSE Sign(u, t)
    BY <1>2, <2>1, <2>3 DEF CompareSortValues
  <2>7. \A op : CompareByOperator(Str(u), op, Str(t))
                  = IF BothNumeric(Str(u), Str(t)) THEN Compare(NumberOf[u], op, NumberOf[t]) ELSE Compare(u, op, t)
    BY <1>2, <2>3 DEF CompareByOperator
  <2>8. CASE BothNumeric(Str(u), Str(t))
    <3>1. NumberOf[u] \in Int /\ NumberOf[t] \in Int
      BY <1>2, <1>3, <2>3, <2>4, <2>8 DEF BothNumeric
    <3>2. Sign(NumberOf[u], NumberOf[t]) = Sign(u, t)
      BY <1>5, <2>2, <2>3, <2>6, <2>8
    <3>3. \A op \in Operators : Compare(NumberOf[u], op, NumberOf[t]) <=> Compare(u, op, t)
      BY <1>1, <2>3, <3>1, <3>2, SignsDecide
    <3> QED
      BY <1>5, <2>1, <2>5, <2>7, <2>8, <3>3
  <2>9. CASE ~BothNumeric(Str(u), Str(t))
    BY <1>5, <2>1, <2>5, <2>7, <2>9
  <2> QED
    BY <2>8, <2>9
<1> QED
  BY <1>4, <1>5, <1>2 DEF ComparesAlike

LEMMA EqualsAgree ==
  ASSUME NEW table \in Seq(TableRows), Numbers(table), NEW i \in DOMAIN table,
         NEW field, NEW t \in Texts, ComparesAlike(table, field, t)
  PROVE  /\ ~IsNil(Child(table[i], field)) =>
              (SqlCompare(field, Cell(table[i], field), "=", Str(t)) <=> ValuesEqual(Child(table[i], field), Str(t)))
         /\ IsNil(Child(table[i], field)) => ~ValuesEqual(Child(table[i], field), Str(t))
<1> DEFINE v == Child(table[i], field)
<1>1. ~IsNil(Str(t))
  BY DEF Str, IsNil
<1>2. ASSUME ~IsNil(v)
      PROVE  CompareByOperator(v, "=", Str(t)) <=> ValuesEqual(v, Str(t))
  <2>1. \A a, b : Compare(a, "=", b) <=> a = b
    BY DEF Compare
  <2> HIDE DEF v
  <2>2. ValuesEqual(v, Str(t)) <=> IF BothNumeric(v, Str(t)) THEN v.num = Str(t).num ELSE v.text = Str(t).text
    BY <1>1, <1>2 DEF ValuesEqual
  <2>3. CASE BothNumeric(v, Str(t))
    BY <2>1, <2>2, <2>3 DEF CompareByOperator
  <2>4. CASE ~BothNumeric(v, Str(t))
    BY <2>1, <2>2, <2>4 DEF CompareByOperator
  <2> QED
    BY <2>3, <2>4
<1>3. ~IsNil(v) => (SqlCompare(field, Cell(table[i], field), "=", Str(t)) <=> CompareByOperator(v, "=", Str(t)))
  <2>1. "=" \in Operators
    BY DEF Operators
  <2> QED
    BY <2>1, ComparisonsAgree
<1> QED
  BY <1>1, <1>2, <1>3 DEF ValuesEqual

\* What the clause of a condition asks of a row.
ClauseAsks(row, c, fuzzy) ==
  IF Joined(c) = "or" THEN \E i \in DOMAIN Terms(c, fuzzy) : TermHolds(row, Terms(c, fuzzy)[i])
  ELSE \A i \in DOMAIN Terms(c, fuzzy) : TermHolds(row, Terms(c, fuzzy)[i])

LEMMA OneTextHolds ==
  ASSUME NEW row, NEW field, NEW op, NEW t
  PROVE  /\ op \in Operators =>
              (TermHolds(row, Term(field, op, <<t>>))
               <=> Cell(row, field) # Null /\ SqlCompare(field, Cell(row, field), op, Str(t)))
         /\ TermHolds(row, Term(field, "like", <<t>>))
            <=> Cell(row, field) # Null /\ <<Cell(row, field).text, t>> \in Within
<1> DEFINE term(o) == Term(field, o, <<t>>)
<1>1. \A o : term(o).field = field /\ term(o).op = o /\ term(o).texts = <<t>>
  BY DEF Term
<1> HIDE DEF term
<1>2. DOMAIN <<t>> = {1} /\ <<t>>[1] = t
  OBVIOUS
<1>3. \A o : TermHolds(row, term(o)) <=> Cell(row, field) # Null /\ Asks(row, term(o), t)
  <2> SUFFICES ASSUME NEW o PROVE TermHolds(row, term(o)) <=> Cell(row, field) # Null /\ Asks(row, term(o), t)
    OBVIOUS
  <2>1. (\E j \in DOMAIN term(o).texts : Asks(row, term(o), term(o).texts[j])) <=> Asks(row, term(o), t)
    BY <1>1, <1>2
  <2> QED
    BY <1>1, <2>1 DEF TermHolds
<1>4. op \in Operators => op # "like" /\ op # "in"
  BY DEF Operators
<1>5. op \in Operators => (Asks(row, term(op), t) <=> SqlCompare(field, Cell(row, field), op, Str(t)))
  BY <1>1, <1>4 DEF Asks
<1>6. Asks(row, term("like"), t) <=> <<Cell(row, field).text, t>> \in Within
  BY <1>1 DEF Asks
<1> QED
  BY <1>3, <1>5, <1>6 DEF term

LEMMA LikeAgrees ==
  ASSUME NEW row \in TableRows, NEW field, NEW t
  PROVE  TermHolds(row, Term(field, "like", <<t>>)) <=> ContainsValue(Child(row, field), Str(t))
<1>1. ~IsNil(Str(t)) /\ Str(t).text = t
  BY DEF Str, IsNil
<1>2. Cell(row, field) = Null <=> IsNil(Child(row, field))
  BY CellIs
<1>3. ~IsNil(Child(row, field)) => Cell(row, field) = Child(row, field)
  BY CellIs
<1> QED
  BY <1>1, <1>2, <1>3, OneTextHolds DEF ContainsValue

LEMMA EqualAgrees ==
  ASSUME NEW table \in Seq(TableRows), Numbers(table), NEW i \in DOMAIN table,
         NEW field, NEW t \in Texts, ComparesAlike(table, field, t)
  PROVE  TermHolds(table[i], Term(field, "=", <<t>>)) <=> ValuesEqual(Child(table[i], field), Str(t))
<1>1. table[i] \in TableRows /\ "=" \in Operators
  BY DEF Operators
<1>2. Cell(table[i], field) = Null <=> IsNil(Child(table[i], field))
  BY <1>1, CellIs
<1> QED
  BY <1>1, <1>2, EqualsAgree, OneTextHolds

LEMMA InsAgree ==
  ASSUME NEW table \in Seq(TableRows), Numbers(table), NEW i \in DOMAIN table,
         NEW c, IsCondition(c), c.form = "ins", NEW fuzzy \in BOOLEAN, PortableCondition(c, table, fuzzy)
  PROVE  ClauseAsks(table[i], c, fuzzy) <=> Matches(table[i], c, fuzzy)
<1> DEFINE v == Child(table[i], c.field)
           s == SetToSeq(c.texts)
<1>1. table[i] \in TableRows
  OBVIOUS
<1>2. c.texts \subseteq Texts /\ IsFiniteSet(c.texts) /\ \A t \in c.texts : ComparesAlike(table, c.field, t)
  BY DEF IsCondition, PortableCondition
<1>3. s \in Seq(c.texts) /\ \A t \in c.texts : \E j \in DOMAIN s : s[j] = t
  BY <1>2, Enumerated
<1>4. Terms(c, fuzzy) = <<Term(c.field, "in", s)>>
  BY DEF Terms
<1>5. Cell(table[i], c.field) = Null <=> IsNil(v)
  BY <1>1, CellIs
<1> HIDE DEF s
<1>6. ClauseAsks(table[i], c, fuzzy) <=> TermHolds(table[i], Term(c.field, "in", s))
  <2>1. Joined(c) # "or"
    BY DEF Joined
  <2>2. \A x : DOMAIN <<x>> = {1} /\ <<x>>[1] = x
    OBVIOUS
  <2> QED
    BY <1>4, <2>1, <2>2 DEF ClauseAsks
<1>7. TermHolds(table[i], Term(c.field, "in", s))
      <=> ~IsNil(v) /\ \E j \in DOMAIN s : SqlCompare(c.field, Cell(table[i], c.field), "=", Str(s[j]))
  BY <1>5 DEF TermHolds, Asks, Term
<1>8. \A j \in DOMAIN s : s[j] \in c.texts
  BY <1>3
<1>9. \A t \in c.texts :
        /\ ~IsNil(v) => (SqlCompare(c.field, Cell(table[i], c.field), "=", Str(t)) <=> ValuesEqual(v, Str(t)))
        /\ IsNil(v) => ~ValuesEqual(v, Str(t))
  BY <1>2, EqualsAgree
<1>10. Matches(table[i], c, fuzzy) <=> \E t \in c.texts : ValuesEqual(v, Str(t))
  BY DEF Matches
<1> HIDE DEF v
<1>11. CASE IsNil(v)
  BY <1>6, <1>7, <1>9, <1>10, <1>11
<1>12. CASE ~IsNil(v)
  BY <1>3, <1>6, <1>7, <1>8, <1>9, <1>10, <1>12
<1> QED
  BY <1>11, <1>12

LEMMA PairsAgree ==
  ASSUME NEW table \in Seq(TableRows), Numbers(table), NEW i \in DOMAIN table,
         NEW c, IsCondition(c), c.form \in {"ors", "lks"}, NEW fuzzy \in BOOLEAN,
         PortableCondition(c, table, fuzzy)
  PROVE  ClauseAsks(table[i], c, fuzzy) <=> Matches(table[i], c, fuzzy)
<1> DEFINE op == IF c.form = "ors" THEN "=" ELSE "like"
           s == SetToSeq(c.pairs)
           holds(p) == TermHolds(table[i], Term(p.field, op, <<p.text>>))
           asks(p) == IF c.form = "ors" THEN ValuesEqual(Child(table[i], p.field), Str(p.text))
                      ELSE ContainsValue(Child(table[i], p.field), Str(p.text))
<1>1. table[i] \in TableRows
  OBVIOUS
<1>2. c.pairs \subseteq [field : STRING, text : Texts] /\ IsFiniteSet(c.pairs)
  BY DEF IsCondition
<1>3. s \in Seq(c.pairs) /\ \A p \in c.pairs : \E j \in DOMAIN s : s[j] = p
  BY <1>2, Enumerated
<1>4. Terms(c, fuzzy) = [j \in DOMAIN s |-> Term(s[j].field, op, <<s[j].text>>)]
  BY DEF Terms
<1>5. \A p \in c.pairs : holds(p) <=> asks(p)
  <2> SUFFICES ASSUME NEW p \in c.pairs PROVE holds(p) <=> asks(p)
    OBVIOUS
  <2>1. CASE c.form = "ors"
    <3>1. p.text \in Texts /\ ComparesAlike(table, p.field, p.text)
      BY <1>2, <2>1 DEF PortableCondition
    <3> QED
      BY <2>1, <3>1, EqualAgrees
  <2>2. CASE c.form = "lks"
    BY <1>1, <2>2, LikeAgrees
  <2> QED
    BY <2>1, <2>2
<1>6. Matches(table[i], c, fuzzy) <=> \E p \in c.pairs : asks(p)
  BY DEF Matches
<1> HIDE DEF s, asks
<1>7. ClauseAsks(table[i], c, fuzzy) <=> \E j \in DOMAIN s : holds(s[j])
  <2>1. Joined(c) = "or"
    BY DEF Joined
  <2> HIDE DEF op
  <2> QED
    BY <1>4, <2>1 DEF ClauseAsks
<1> HIDE DEF holds
<1>8. \A j \in DOMAIN s : s[j] \in c.pairs
  BY <1>3
<1> QED
  BY <1>3, <1>5, <1>6, <1>7, <1>8

LEMMA BoundsAgree ==
  ASSUME NEW table \in Seq(TableRows), Numbers(table), NEW i \in DOMAIN table,
         NEW c, IsCondition(c), c.form = "compare", NEW fuzzy \in BOOLEAN,
         PortableCondition(c, table, fuzzy)
  PROVE  ClauseAsks(table[i], c, fuzzy) <=> Matches(table[i], c, fuzzy)
<1> DEFINE v == Child(table[i], c.field)
           D == DOMAIN c.tests
<1>1. table[i] \in TableRows
  OBVIOUS
<1>2. Terms(c, fuzzy) = [j \in D |-> Term(c.field, c.tests[j].op, <<c.tests[j].text>>)]
  BY DEF Terms
<1>3. ClauseAsks(table[i], c, fuzzy)
      <=> \A j \in D : TermHolds(table[i], Term(c.field, c.tests[j].op, <<c.tests[j].text>>))
  <2>1. Joined(c) # "or"
    BY DEF Joined
  <2> HIDE DEF D
  <2> QED
    BY <1>2, <2>1 DEF ClauseAsks
<1>4. Matches(table[i], c, fuzzy)
      <=> \A j \in D : CompareByOperator(v, c.tests[j].op, Str(c.tests[j].text))
  BY DEF Matches, InBounds, Passes
<1>5. \A j \in D : c.tests[j].op \in Operators /\ c.tests[j].text \in Texts
  <2> DEFINE tests == c.tests
             R == [op : Operators, text : Texts]
  <2>1. tests \in Seq(R)
    BY DEF IsCondition, Operators
  <2>2. \A x \in R : x.op \in Operators /\ x.text \in Texts
    OBVIOUS
  <2> HIDE DEF R, tests
  <2>3. \A j \in DOMAIN tests : tests[j] \in R
    BY <2>1, ElementsAre
  <2> QED
    BY <2>2, <2>3 DEF tests
<1>6. (c.field = "k" => ~HasNil(table)) /\ \A j \in D : ComparesAlike(table, c.field, c.tests[j].text)
  BY DEF PortableCondition
<1>7. ASSUME NEW j \in D
      PROVE  TermHolds(table[i], Term(c.field, c.tests[j].op, <<c.tests[j].text>>))
             <=> CompareByOperator(v, c.tests[j].op, Str(c.tests[j].text))
  <2>1. c.field = "k" \/ c.field = "id"
    BY <1>6 DEF ComparesAlike
  <2>2. ~IsNil(v)
    <3>1. CASE c.field = "k"
      BY <1>6, <3>1 DEF HasNil
    <3>2. CASE c.field = "id"
      BY <1>1, <3>2, IdCellIs
    <3> QED
      BY <2>1, <3>1, <3>2
  <2>3. Cell(table[i], c.field) # Null
    BY <1>1, <2>2, CellIs
  <2>4. SqlCompare(c.field, Cell(table[i], c.field), c.tests[j].op, Str(c.tests[j].text))
        <=> CompareByOperator(v, c.tests[j].op, Str(c.tests[j].text))
    BY <1>5, <1>6, <2>2, ComparisonsAgree
  <2> QED
    BY <1>5, <2>3, <2>4, OneTextHolds
<1> HIDE DEF D, v
<1> QED
  BY <1>3, <1>4, <1>7

LEMMA PlainAgrees ==
  ASSUME NEW table \in Seq(TableRows), Numbers(table), NEW i \in DOMAIN table,
         NEW c, IsCondition(c), c.form = "plain", NEW fuzzy \in BOOLEAN,
         PortableCondition(c, table, fuzzy)
  PROVE  ClauseAsks(table[i], c, fuzzy) <=> Matches(table[i], c, fuzzy)
<1> DEFINE op == IF fuzzy THEN "like" ELSE "="
<1>1. table[i] \in TableRows
  OBVIOUS
<1>2. Terms(c, fuzzy) = <<Term(c.field, op, <<c.text>>)>>
  BY DEF Terms
<1>3. ClauseAsks(table[i], c, fuzzy) <=> TermHolds(table[i], Term(c.field, op, <<c.text>>))
  <2>1. Joined(c) # "or"
    BY DEF Joined
  <2>2. \A x : DOMAIN <<x>> = {1} /\ <<x>>[1] = x
    OBVIOUS
  <2> HIDE DEF op
  <2> QED
    BY <1>2, <2>1, <2>2 DEF ClauseAsks
<1>4. CASE fuzzy
  <2>1. Matches(table[i], c, fuzzy) <=> ContainsValue(Child(table[i], c.field), Str(c.text))
    BY <1>4 DEF Matches
  <2> QED
    BY <1>1, <1>3, <1>4, <2>1, LikeAgrees
<1>5. CASE ~fuzzy
  <2>1. c.text \in Texts /\ c.text # NullText /\ ComparesAlike(table, c.field, c.text)
    BY <1>5 DEF PortableCondition, IsCondition
  <2>2. Matches(table[i], c, fuzzy) <=> ValuesEqual(Child(table[i], c.field), Str(c.text))
    BY <1>5, <2>1 DEF Matches
  <2> QED
    BY <1>3, <1>5, <2>1, <2>2, EqualAgrees
<1> QED
  BY <1>4, <1>5

\* A where clause selects the rows that the engine keeps.
LEMMA SelectedIs ==
  ASSUME NEW table \in Seq(TableRows), Numbers(table), NEW q, IsQuery(q),
         \A c \in q.conds : PortableCondition(c, table, q.fuzzy),
         NEW s, s.where = Where(q), s.parameterized \in BOOLEAN
  PROVE  Selected(table, s) = Matching(table, q)
<1> DEFINE conds == SetToSeq(q.conds)
<1>1. IsFiniteSet(q.conds) /\ (\A c \in q.conds : IsCondition(c)) /\ q.fuzzy \in BOOLEAN
  BY DEF IsQuery
<1>2. /\ conds \in Seq(q.conds) /\ \A c \in q.conds : \E n \in DOMAIN conds : conds[n] = c
      /\ DOMAIN Where(q).clauses = DOMAIN conds
      /\ \A n \in DOMAIN conds :
           /\ Where(q).clauses[n].join = Joined(conds[n])
           /\ Where(q).clauses[n].terms = Terms(conds[n], q.fuzzy)
           /\ \A i \in DOMAIN Terms(conds[n], q.fuzzy) :
                \A j \in DOMAIN Terms(conds[n], q.fuzzy)[i].texts :
                  Where(q).values[Where(q).clauses[n].places[i][j]] = Terms(conds[n], q.fuzzy)[i].texts[j]
  BY <1>1, WhereIs
<1> HIDE DEF conds
<1>3. ASSUME NEW n \in DOMAIN conds, NEW i \in DOMAIN table
      PROVE  ClauseHolds(table[i], s.where.clauses[n], s) <=> Matches(table[i], conds[n], q.fuzzy)
  <2> DEFINE clause == s.where.clauses[n]
             terms == Terms(conds[n], q.fuzzy)
  <2>1. clause.join = Joined(conds[n]) /\ clause.terms = terms
    BY <1>2
  <2>2. \A j \in DOMAIN terms : \A l \in DOMAIN terms[j].texts : s.where.values[clause.places[j][l]] = terms[j].texts[l]
    BY <1>2
  <2> HIDE DEF clause, terms
  <2>3. \A j \in DOMAIN clause.terms : Holds(table[i], clause, j, s) <=> TermHolds(table[i], terms[j])
    BY <2>1, <2>2, HoldsIs
  <2>4. ClauseHolds(table[i], clause, s) <=> ClauseAsks(table[i], conds[n], q.fuzzy)
    BY <2>1, <2>3 DEF ClauseHolds, ClauseAsks, terms
  <2>5. conds[n] \in q.conds
    BY <1>2
  <2>6. IsCondition(conds[n]) /\ PortableCondition(conds[n], table, q.fuzzy)
    BY <1>1, <2>5
  <2>7. conds[n].form \in {"ins", "ors", "lks", "compare", "plain"}
    BY <2>6 DEF IsCondition
  <2>8. ClauseAsks(table[i], conds[n], q.fuzzy) <=> Matches(table[i], conds[n], q.fuzzy)
    BY <1>1, <2>6, <2>7, InsAgree, PairsAgree, BoundsAgree, PlainAgrees
  <2> QED
    BY <2>4, <2>8 DEF clause
<1>4. ASSUME NEW i \in DOMAIN table
      PROVE  (\A n \in DOMAIN s.where.clauses : ClauseHolds(table[i], s.where.clauses[n], s)) <=> MatchesAll(table[i], q)
  <2>1. (\A n \in DOMAIN s.where.clauses : ClauseHolds(table[i], s.where.clauses[n], s))
        <=> \A n \in DOMAIN conds : Matches(table[i], conds[n], q.fuzzy)
    BY <1>2, <1>3
  <2>2. (\A n \in DOMAIN conds : Matches(table[i], conds[n], q.fuzzy))
        <=> \A c \in q.conds : Matches(table[i], c, q.fuzzy)
    <3>1. \A n \in DOMAIN conds : conds[n] \in q.conds
      BY <1>2
    <3> QED
      BY <1>2, <3>1
  <2> QED
    BY <2>1, <2>2 DEF MatchesAll
<1> QED
  BY <1>4 DEF Selected, Matching

-----------------------------------------------------------------------------
(* The select list: aggregates and groups.                                 *)

Present(table, at, column) == {i \in at : column \in {"*", "1"} \/ Cell(table[i], column) # Null}

LEMMA PresentIs ==
  ASSUME NEW table \in Seq(TableRows), NEW at, at \subseteq DOMAIN table
  PROVE  /\ \A column : Present(table, at, column) = Counted(table, at, column)
         /\ Numbers(table) =>
              /\ Present(table, at, "k") = {i \in at : Child(table[i], "k").num # NotNumeric}
              /\ \A i \in Present(table, at, "k") : table[i]["k"] = Child(table[i], "k")
<1>1. \A i \in at : table[i] \in TableRows /\ i \in DOMAIN table
  BY ElementsAre
<1>2. \A column : \A i \in at : Cell(table[i], column) = Null <=> IsNil(Child(table[i], column))
  BY <1>1, CellIs
<1>3. \A column : Present(table, at, column) = Counted(table, at, column)
  BY <1>2 DEF Present, Counted
<1>4. ASSUME Numbers(table), NEW i \in at
      PROVE  /\ IsNil(Child(table[i], "k")) => Child(table[i], "k").num = NotNumeric
             /\ ~IsNil(Child(table[i], "k")) => Child(table[i], "k").num # NotNumeric
  <2> DEFINE v == Child(table[i], "k")
  <2>1. v \in Cells
    BY <1>1, ChildrenAre
  <2> HIDE DEF v
  <2>2. IsNil(v) => v = Null \/ v = Absent
    BY <2>1 DEF Cells, IsNil, Str, Num
  <2>3. Null.num = NotNumeric /\ Absent.num = NotNumeric
    BY DEF Null, Absent
  <2>4. ~IsNil(Child(table[i], "k")) => \E t \in Numerals : v = Num(t)
    BY <1>1, <1>4, NumberCellIs DEF v
  <2>5. \A t \in Numerals : Num(t).num # NotNumeric
    BY DEF Numerals, Num
  <2> QED
    BY <2>2, <2>3, <2>4, <2>5 DEF v
<1>5. \A i \in at : ~IsNil(Child(table[i], "k")) => table[i]["k"] = Child(table[i], "k")
  BY NumbersAre DEF Child
<1>6. Present(table, at, "k") = {i \in at : ~IsNil(Child(table[i], "k"))}
  BY <1>2 DEF Present
<1> QED
  BY <1>3, <1>4, <1>5, <1>6

LEMMA AggregateAgrees ==
  ASSUME NEW table \in Seq(TableRows), Numbers(table), NEW at, at \subseteq DOMAIN table,
         NEW q, \A a \in DOMAIN q.sums : q.sums[a] = "k",
         NEW s, s.counts = q.counts, s.sums = q.sums, NEW a \in Aggregates(q)
  PROVE  RowFor(table, at, s)[a] = AggregateRow(table, at, q)[a]
<1> DEFINE present(column) == {i \in at : column \in {"*", "1"} \/ Cell(table[i], column) # Null}
           number(column) == [i \in DOMAIN table |-> IF i \in present(column) THEN table[i][column].num ELSE 0]
           sum(column) == IF present(column) = {} THEN Null
                          ELSE Computed(SumUpTo(number(column), Len(table)))
           shown(column) == IF at = {} THEN Null ELSE Cell(table[Min(at)], column)
<1>1. RowFor(table, at, s)
        = [f \in {"id", "k"} \cup DOMAIN s.counts \cup DOMAIN s.sums |->
             IF f \in DOMAIN s.sums THEN sum(s.sums[f])
             ELSE IF f \in DOMAIN s.counts THEN Computed(Cardinality(present(s.counts[f])))
             ELSE shown(f)]
  BY DEF RowFor
<1>2. \A column : present(column) = Counted(table, at, column)
  BY PresentIs DEF Present
<1>3. sum("k") = SumOf(table, at, "k")
  <2>1. present("k") = {i \in at : Child(table[i], "k").num # NotNumeric}
    BY PresentIs DEF Present
  <2>2. \A i \in present("k") : table[i]["k"] = Child(table[i], "k")
    BY PresentIs DEF Present
  <2>3. number("k")
          = [i \in DOMAIN table |-> IF i \in {j \in at : Child(table[j], "k").num # NotNumeric}
                                    THEN Child(table[i], "k").num ELSE 0]
    <3> HIDE DEF present
    <3> QED
      BY <2>1, <2>2
  <2> HIDE DEF present, number
  <2> QED
    BY <2>1, <2>3 DEF SumOf
<1>4. \A column : Computed(Cardinality(present(column))) = CountOf(table, at, column)
  BY <1>2 DEF CountOf, Counted
<1> HIDE DEF present, number, sum, shown
<1>5. a \in DOMAIN q.counts \cup DOMAIN q.sums
  BY DEF Aggregates
<1>6. AggregateRow(table, at, q)[a]
        = IF a \in DOMAIN q.sums THEN SumOf(table, at, q.sums[a]) ELSE CountOf(table, at, q.counts[a])
  BY DEF AggregateRow
<1>7. RowFor(table, at, s)[a]
        = IF a \in DOMAIN q.sums THEN sum(q.sums[a]) ELSE Computed(Cardinality(present(q.counts[a])))
  BY <1>1, <1>5
<1> QED
  BY <1>3, <1>4, <1>6, <1>7

\* The other columns of a row are those of its first row.
LEMMA ShownIs ==
  ASSUME NEW table, NEW at, NEW s, NEW f \in {"id", "k"}, f \notin DOMAIN s.sums, f \notin DOMAIN s.counts, at # {}
  PROVE  RowFor(table, at, s)[f] = Cell(table[Min(at)], f)
BY DEF RowFor

-----------------------------------------------------------------------------
(* The rows of the result: the groups, all the rows as one, or each row.   *)

LEMMA KindsAreOne ==
  ASSUME NEW table, ~ShowsAbsence(table), NEW i \in DOMAIN table, NEW j \in DOMAIN table,
         Child(table[i], "k").kind = "null", Child(table[j], "k").kind = "absent"
  PROVE  FALSE
<1> DEFINE kinds == {Child(table[l], "k").kind : l \in DOMAIN table} \cap {"null", "absent"}
<1>1. kinds = {"null"} \cup {"absent"} /\ "absent" \notin {"null"}
  OBVIOUS
<1>2. IsFiniteSet({"null"}) /\ Cardinality({"null"}) = 1
  BY FS_Singleton
<1>3. Cardinality({"null"} \cup {"absent"}) = 1 + 1
  BY <1>1, <1>2, FS_AddElement
<1>4. Cardinality(kinds) > 1
  BY <1>1, <1>3
<1> QED
  BY <1>4 DEF ShowsAbsence

LEMMA NilIs ==
  ASSUME NEW v \in Cells, IsNil(v)
  PROVE  v = IF v.kind = "null" THEN Null ELSE Absent
<1>1. \A t : Str(t).kind = "string" /\ Num(t).kind = "number"
  BY DEF Str, Num
<1>2. Null.kind = "null" /\ Absent.kind = "absent"
  BY DEF Null, Absent
<1> QED
  BY <1>1, <1>2 DEF Cells, IsNil

\* Two rows are of one group to the engine and to the server alike.
LEMMA KeysAreCells ==
  ASSUME NEW table \in Seq(TableRows), Numbers(table), ~ShowsAbsence(table),
         NEW q, q.group \in {"id", "k"}, NEW i \in DOMAIN table, NEW j \in DOMAIN table
  PROVE  KeyOf(table, i, q) = KeyOf(table, j, q) <=> Cell(table[i], q.group) = Cell(table[j], q.group)
<1> DEFINE v == Child(table[i], q.group)
           w == Child(table[j], q.group)
<1>1. table[i] \in TableRows /\ table[j] \in TableRows
  BY ElementsAre
<1>2. KeyOf(table, i, q) = GroupKey(v) /\ KeyOf(table, j, q) = GroupKey(w)
  BY DEF KeyOf
<1>3. v \in Cells /\ w \in Cells
  BY <1>1, ChildrenAre
<1>4. /\ Cell(table[i], q.group) = IF IsNil(v) THEN Null ELSE v
      /\ Cell(table[j], q.group) = IF IsNil(w) THEN Null ELSE w
  BY <1>1, CellIs
<1>5. /\ ~IsNil(v) => IF q.group = "id" THEN \E t \in Texts : v = Str(t) ELSE \E t \in Texts : v = Num(t)
      /\ ~IsNil(w) => IF q.group = "id" THEN \E t \in Texts : w = Str(t) ELSE \E t \in Texts : w = Num(t)
  BY <1>1, IdCellIs, NumberCellIs DEF Numerals
<1>6. IsNil(v) /\ IsNil(w) => v = w
  <2>1. CASE q.group = "id"
    BY <1>1, <2>1, IdCellIs
  <2>2. CASE q.group = "k"
    <3>1. IsNil(v) /\ IsNil(w) => v.kind = w.kind
      BY <2>2, KindsAreOne DEF IsNil
    <3> QED
      BY <1>3, <3>1, NilIs
  <2> QED
    BY <2>1, <2>2
<1>7. IsNil(Null)
  BY NumbersAre
<1> HIDE DEF v, w
<1>8. CASE IsNil(v) /\ IsNil(w)
  BY <1>2, <1>4, <1>6, <1>8
<1>9. CASE IsNil(v) /\ ~IsNil(w)
  <2>1. GroupKey(v) # GroupKey(w)
    <3>1. TypeRank[v.kind] \in {0, 1}
      BY <1>9 DEF IsNil, TypeRank
    <3>2. TypeRank[w.kind] \in {2, 3}
      BY <1>5, <1>9 DEF TypeRank, Str, Num
    <3> QED
      BY <3>1, <3>2 DEF GroupKey
  <2> QED
    BY <1>2, <1>4, <1>7, <1>9, <2>1
<1>10. CASE ~IsNil(v) /\ IsNil(w)
  <2>1. GroupKey(v) # GroupKey(w)
    <3>1. TypeRank[w.kind] \in {0, 1}
      BY <1>10 DEF IsNil, TypeRank
    <3>2. TypeRank[v.kind] \in {2, 3}
      BY <1>5, <1>10 DEF TypeRank, Str, Num
    <3> QED
      BY <3>1, <3>2 DEF GroupKey
  <2> QED
    BY <1>2, <1>4, <1>7, <1>10, <2>1
<1>11. CASE ~IsNil(v) /\ ~IsNil(w)
  <2>1. v.text = w.text <=> v = w
    BY <1>5, <1>11 DEF Str, Num
  <2>2. v.kind = w.kind
    BY <1>5, <1>11 DEF Str, Num
  <2>3. GroupKey(v) = GroupKey(w) <=> v = w
    BY <2>1, <2>2 DEF GroupKey
  <2> QED
    BY <1>2, <1>4, <1>11, <2>3
<1> QED
  BY <1>8, <1>9, <1>10, <1>11

LEMMA PartsAre ==
  ASSUME NEW table, NEW q, NEW s, s.group = q.group, s.counts = q.counts, s.sums = q.sums
  PROVE  /\ IsGrouped(q) => Parts(table, s) = {SameGroup(table, i, s) : i \in DOMAIN table}
         /\ ~IsGrouped(q) /\ HasAggregates(q) => Parts(table, s) = {DOMAIN table}
         /\ ~IsGrouped(q) /\ ~HasAggregates(q) => Parts(table, s) = {{i} : i \in DOMAIN table}
BY Zenon DEF Parts, IsGrouped, HasAggregates, Aggregates

LEMMA ShapesAre ==
  ASSUME NEW table, NEW q
  PROVE  /\ IsGrouped(q) => Shaped(table, q) = GroupedRows(FilterRows(table, q), q)
         /\ ~IsGrouped(q) /\ HasAggregates(q) =>
              Shaped(table, q) = <<AggregateRow(FilterRows(table, q), DOMAIN FilterRows(table, q), q)>>
         /\ ~IsGrouped(q) /\ ~HasAggregates(q) => Shaped(table, q) = FilterRows(table, q)
BY Zenon DEF Shaped, IsGrouped

LEMMA NamesAre ==
  ASSUME NEW q
  PROVE  /\ IsGrouped(q) => Names(q) = {q.group} \cup Aggregates(q)
         /\ ~IsGrouped(q) /\ HasAggregates(q) => Names(q) = Aggregates(q)
         /\ ~IsGrouped(q) /\ ~HasAggregates(q) => Names(q) = {"id", "k"}
BY Zenon DEF Names, IsGrouped

\* What the matches of a query must be.
PortableShape(table, q) ==
  /\ Numbers(table)
  /\ IsGrouped(q) => q.group \in {"id", "k"} /\ ~ShowsAbsence(table)
  /\ \A a \in DOMAIN q.sums : q.sums[a] = "k"
  /\ Aggregates(q) \cap {"id", "k"} = {}

\* A row of the engine is that of some rows to the server, name by name, and
\* it has no other names.
IsRowFor(row, table, at, q, s) ==
  DOMAIN row \subseteq Names(q) /\ \A f \in Names(q) :
    /\ RowFor(table, at, s)[f] = Cell(row, f)
    /\ f \in Aggregates(q) => Child(row, f) \in ComputedNumbers \cup {Null}
    /\ f \notin Aggregates(q) =>
         f \in {"id", "k"} /\ \E i \in DOMAIN table : Child(row, f) = Child(table[i], f)

LEMMA CellOfNumber ==
  ASSUME NEW row, NEW a, NEW v \in ComputedNumbers \cup {Null}, a \in DOMAIN row, row[a] = v
  PROVE  Child(row, a) = v /\ Cell(row, a) = v
BY NumbersAre DEF Child, Cell

LEMMA AggregatesShown ==
  ASSUME NEW table \in Seq(TableRows), NEW q, PortableShape(table, q), NEW s, s.counts = q.counts,
         s.sums = q.sums, NEW at, at \subseteq DOMAIN table, NEW row, NEW a \in Aggregates(q),
         a \in DOMAIN row, row[a] = AggregateRow(table, at, q)[a]
  PROVE  /\ RowFor(table, at, s)[a] = Cell(row, a)
         /\ Child(row, a) \in ComputedNumbers \cup {Null}
<1>1. AggregateRow(table, at, q)[a] \in ComputedNumbers \cup {Null}
  BY AggregatesAre
<1>2. RowFor(table, at, s)[a] = AggregateRow(table, at, q)[a]
  BY AggregateAgrees DEF PortableShape
<1> QED
  BY <1>1, <1>2, CellOfNumber

LEMMA OneRowShown ==
  ASSUME NEW table \in Seq(TableRows), NEW q, ~IsGrouped(q), ~HasAggregates(q),
         NEW s, s.counts = q.counts, s.sums = q.sums, NEW i \in DOMAIN table
  PROVE  IsRowFor(table[i], table, {i}, q, s)
<1>1. Names(q) = {"id", "k"} /\ Aggregates(q) = {}
  BY NamesAre DEF HasAggregates
<1>2. DOMAIN q.counts = {} /\ DOMAIN q.sums = {}
  BY <1>1 DEF Aggregates
<1>3. {i} \subseteq Nat /\ {i} # {}
  OBVIOUS
<1>4. Min({i}) = i
  BY <1>3, LeastOf
<1>5. \A f \in {"id", "k"} : RowFor(table, {i}, s)[f] = Cell(table[i], f)
  <2> SUFFICES ASSUME NEW f \in {"id", "k"} PROVE RowFor(table, {i}, s)[f] = Cell(table[i], f)
    OBVIOUS
  <2>1. f \notin DOMAIN s.sums /\ f \notin DOMAIN s.counts
    BY <1>2
  <2> DEFINE at == {i}
  <2>2. at # {} /\ table[Min(at)] = table[i]
    BY <1>3, <1>4
  <2> HIDE DEF at
  <2>3. RowFor(table, at, s)[f] = Cell(table[Min(at)], f)
    BY <2>1, <2>2, ShownIs
  <2>4. RowFor(table, at, s)[f] = Cell(table[i], f)
    BY <2>2, <2>3
  <2> QED
    BY <2>4 DEF at
<1>6. DOMAIN table[i] \subseteq {"id", "k"}
  <2>1. table[i] \in TableRows
    BY ElementsAre
  <2> QED
    BY <2>1 DEF TableRows
<1> QED
  BY <1>1, <1>5, <1>6 DEF IsRowFor

LEMMA AllRowsShown ==
  ASSUME NEW table \in Seq(TableRows), NEW q, ~IsGrouped(q), HasAggregates(q), PortableShape(table, q),
         NEW s, s.counts = q.counts, s.sums = q.sums
  PROVE  IsRowFor(AggregateRow(table, DOMAIN table, q), table, DOMAIN table, q, s)
<1>1. Names(q) = Aggregates(q)
  BY NamesAre
<1>2. DOMAIN AggregateRow(table, DOMAIN table, q) = Aggregates(q)
  BY AggregatesAre
<1> QED
  BY <1>1, <1>2, AggregatesShown DEF IsRowFor

LEMMA GroupShown ==
  ASSUME NEW table \in Seq(TableRows), NEW q, IsGrouped(q), PortableShape(table, q),
         NEW s, s.group = q.group, s.counts = q.counts, s.sums = q.sums, NEW i \in DOMAIN table
  PROVE  IsRowFor(GroupRow(table, SameGroup(table, i, s), q), table, SameGroup(table, i, s), q, s)
<1> DEFINE at == SameGroup(table, i, s)
           row == GroupRow(table, at, q)
           g == q.group
<1>1. DOMAIN table = 1..Len(table) /\ Len(table) \in Nat
  OBVIOUS
<1>2. at \subseteq 1..Len(table) /\ at \subseteq Nat /\ at # {} /\ at \subseteq DOMAIN table
  BY <1>1 DEF SameGroup
<1>3. \A j, l \in at : Cell(table[j], g) = Cell(table[l], g)
  BY DEF SameGroup
<1>4. Names(q) = {g} \cup Aggregates(q) /\ g \in {"id", "k"} /\ g \notin Aggregates(q)
  BY NamesAre DEF PortableShape
<1> HIDE DEF at
<1>5. Min(at) \in at /\ Max(at) \in at
  BY <1>1, <1>2, LeastOf, GreatestOf
<1>6. DOMAIN row = {g} \cup Aggregates(q)
  BY DEF GroupRow
<1>7. \A a \in Aggregates(q) : row[a] = AggregateRow(table, at, q)[a]
  BY DEF GroupRow
<1>8. row[g] = Child(table[Max(at)], g)
  BY <1>4 DEF GroupRow
<1> HIDE DEF row
<1>9. RowFor(table, at, s)[g] = Cell(table[Min(at)], g)
  <2>1. g \notin DOMAIN s.sums /\ g \notin DOMAIN s.counts
    BY <1>4 DEF Aggregates
  <2> QED
    BY <1>2, <1>4, <2>1, ShownIs
<1>10. table[Max(at)] \in TableRows
  BY <1>2, <1>5, ElementsAre
<1>11. Child(row, g) = Child(table[Max(at)], g)
  BY <1>6, <1>8 DEF Child
<1>12. Cell(row, g) = Cell(table[Max(at)], g)
  BY <1>8, <1>10, <1>11, CellIs DEF Cell
<1>13. RowFor(table, at, s)[g] = Cell(row, g)
  BY <1>3, <1>5, <1>9, <1>12
<1>14. ASSUME NEW a \in Aggregates(q)
       PROVE  RowFor(table, at, s)[a] = Cell(row, a) /\ Child(row, a) \in ComputedNumbers \cup {Null}
  <2>1. a \in DOMAIN row /\ row[a] = AggregateRow(table, at, q)[a] /\ at \subseteq DOMAIN table
    BY <1>2, <1>6, <1>7
  <2> QED
    BY <2>1, AggregatesShown
<1>15. IsRowFor(row, table, at, q, s)
  BY <1>2, <1>4, <1>5, <1>6, <1>11, <1>13, <1>14 DEF IsRowFor
<1> QED
  BY <1>15 DEF row, at

\* The rows of the engine are those of the server's parts, in some order.
AsParts(shaped, table, part, q, s) ==
  /\ Len(shaped) \in Nat /\ DOMAIN shaped = 1..Len(shaped)
  /\ part \in Bijection(1..Len(shaped), Parts(table, s))
  /\ Cardinality(Parts(table, s)) = Len(shaped)
  /\ \A n \in 1..Len(shaped) : IsRowFor(shaped[n], table, part[n], q, s)

LEMMA BijectionCounts ==
  ASSUME NEW n \in Nat, NEW S, NEW p \in Bijection(1..n, S)
  PROVE  Cardinality(S) = n
<1>1. IsFiniteSet(1..n) /\ Cardinality(1..n) = n
  BY FS_Interval
<1> QED
  BY <1>1, FS_Bijection DEF ExistsBijection

LEMMA GroupsAreParts ==
  ASSUME NEW table \in Seq(TableRows), NEW q, IsGrouped(q), PortableShape(table, q),
         NEW s, s.group = q.group, s.counts = q.counts, s.sums = q.sums
  PROVE  \E part : AsParts(GroupedRows(table, q), table, part, q, s)
<1> DEFINE keys == Keys(table, q)
           m == Cardinality(keys)
           ordered == InKeyOrder(keys)
           at(n) == Members(table, ordered[n], q)
           part == [n \in 1..m |-> at(n)]
           groups == GroupedRows(table, q)
           parts == Parts(table, s)
<1>1. \A i \in DOMAIN table : table[i] \in TableRows
  BY ElementsAre
<1>2. \A i \in DOMAIN table : Child(table[i], q.group) \in SortValues
  BY <1>1, ChildrenAre
<1>3. /\ m \in Nat /\ ordered \in Bijection(1..m, keys)
      /\ groups = [n \in 1..m |-> GroupRow(table, at(n), q)]
  BY <1>2, GroupsAre
<1>4. \A i, j \in DOMAIN table : KeyOf(table, i, q) = KeyOf(table, j, q) <=> j \in SameGroup(table, i, s)
  <2>1. \A i, j \in DOMAIN table :
          KeyOf(table, i, q) = KeyOf(table, j, q) <=> Cell(table[i], q.group) = Cell(table[j], q.group)
    BY KeysAreCells DEF PortableShape
  <2> QED
    BY <2>1 DEF SameGroup
<1>5. \A i \in DOMAIN table : Members(table, KeyOf(table, i, q), q) = SameGroup(table, i, s)
  BY <1>4 DEF Members, SameGroup
<1>6. parts = {SameGroup(table, i, s) : i \in DOMAIN table}
  BY PartsAre
<1>7. keys = {KeyOf(table, i, q) : i \in DOMAIN table}
  BY DEF Keys
<1>8. /\ ordered \in [1..m -> keys]
      /\ \A a, b \in 1..m : ordered[a] = ordered[b] => a = b
      /\ \A k \in keys : \E n \in 1..m : ordered[n] = k
  BY <1>3 DEF Bijection, Injection, Surjection, IsInjective
<1> HIDE DEF keys, m, ordered, groups, parts
<1>9. \A n \in 1..m : \E i \in DOMAIN table :
        /\ ordered[n] = KeyOf(table, i, q) /\ i \in at(n) /\ at(n) = SameGroup(table, i, s)
  BY <1>5, <1>7, <1>8 DEF Members
<1>10. part \in [1..m -> parts]
  BY <1>6, <1>9
<1>11. ASSUME NEW a \in 1..m, NEW b \in 1..m, at(a) = at(b)
       PROVE  a = b
  <2>1. PICK i \in DOMAIN table : ordered[a] = KeyOf(table, i, q) /\ i \in at(a)
    BY <1>9
  <2>2. ordered[b] = KeyOf(table, i, q)
    BY <1>11, <2>1 DEF Members
  <2> QED
    BY <1>8, <2>1, <2>2
<1>12. ASSUME NEW x \in parts
       PROVE  \E n \in 1..m : at(n) = x
  <2>1. PICK i \in DOMAIN table : x = SameGroup(table, i, s)
    BY <1>6
  <2>2. PICK n \in 1..m : ordered[n] = KeyOf(table, i, q)
    BY <1>7, <1>8
  <2> QED
    BY <1>5, <2>1, <2>2
<1>13. part \in Bijection(1..m, parts)
  <2> DEFINE p == part
  <2>1. \A n \in 1..m : p[n] = at(n)
    OBVIOUS
  <2>2. p \in [1..m -> parts]
    BY <1>10
  <2> HIDE DEF p, at
  <2>3. p \in Injection(1..m, parts)
    BY <1>11, <2>1, <2>2 DEF Injection, IsInjective
  <2>4. p \in Surjection(1..m, parts)
    BY <1>12, <2>1, <2>2 DEF Surjection
  <2> QED
    BY <2>3, <2>4 DEF Bijection, p
<1>14. Len(groups) = m /\ DOMAIN groups = 1..m /\ \A n \in 1..m : groups[n] = GroupRow(table, at(n), q)
  <2>1. groups = [n \in 1..m |-> groups[n]]
    BY <1>3
  <2>2. \A n \in 1..m : groups[n] = GroupRow(table, at(n), q)
    BY <1>3
  <2> QED
    BY <1>3, <2>1, <2>2, Listed
<1>15. \A n \in 1..m : IsRowFor(groups[n], table, part[n], q, s)
  <2> SUFFICES ASSUME NEW n \in 1..m PROVE IsRowFor(groups[n], table, part[n], q, s)
    OBVIOUS
  <2>1. PICK i \in DOMAIN table : at(n) = SameGroup(table, i, s)
    BY <1>9
  <2>2. groups[n] = GroupRow(table, SameGroup(table, i, s), q) /\ part[n] = SameGroup(table, i, s)
    BY <1>14, <2>1
  <2> QED
    BY <2>2, GroupShown
<1> HIDE DEF part
<1>16. Cardinality(parts) = m
  BY <1>3, <1>13, BijectionCounts
<1>17. AsParts(groups, table, part, q, s)
  BY <1>3, <1>13, <1>14, <1>15, <1>16 DEF AsParts, parts
<1> QED
  BY <1>17 DEF groups

LEMMA ShapedAsParts ==
  ASSUME NEW table \in Seq(TableRows), NEW q, PortableShape(FilterRows(table, q), q),
         NEW s, s.group = q.group, s.counts = q.counts, s.sums = q.sums
  PROVE  \E part : AsParts(Shaped(table, q), FilterRows(table, q), part, q, s)
<1> DEFINE M == FilterRows(table, q)
<1>1. M \in Seq(TableRows)
  BY FilterRowsAre
<1> HIDE DEF M
<1>2. Len(M) \in Nat /\ DOMAIN M = 1..Len(M)
  BY <1>1
<1>3. CASE IsGrouped(q)
  <2>1. Shaped(table, q) = GroupedRows(M, q)
    BY <1>3, ShapesAre DEF M
  <2> QED
    BY <1>1, <1>3, <2>1, GroupsAreParts DEF M
<1>4. CASE ~IsGrouped(q) /\ HasAggregates(q)
  <2> DEFINE row == AggregateRow(M, DOMAIN M, q)
             part == [n \in 1..1 |-> DOMAIN M]
  <2>1. Shaped(table, q) = <<row>> /\ Parts(M, s) = {DOMAIN M}
    BY <1>4, ShapesAre, PartsAre DEF M
  <2>2. IsRowFor(row, M, DOMAIN M, q, s)
    BY <1>1, <1>4, AllRowsShown DEF M
  <2>3. part \in Bijection(1..1, {DOMAIN M}) /\ part[1] = DOMAIN M
    BY DEF Bijection, Injection, Surjection, IsInjective
  <2>4. Cardinality({DOMAIN M}) = 1
    BY FS_Singleton
  <2> HIDE DEF row, part
  <2>5. Len(<<row>>) = 1 /\ DOMAIN <<row>> = 1..1 /\ <<row>>[1] = row
    OBVIOUS
  <2>6. AsParts(<<row>>, M, part, q, s)
    BY <2>1, <2>2, <2>3, <2>4, <2>5 DEF AsParts
  <2> QED
    BY <2>1, <2>6 DEF M
<1>5. CASE ~IsGrouped(q) /\ ~HasAggregates(q)
  <2> DEFINE part == [n \in 1..Len(M) |-> {n}]
             parts == {{i} : i \in 1..Len(M)}
  <2>1. Shaped(table, q) = M /\ Parts(M, s) = parts
    BY <1>2, <1>5, ShapesAre, PartsAre DEF M
  <2>2. part \in Bijection(1..Len(M), parts)
    BY DEF Bijection, Injection, Surjection, IsInjective
  <2>3. \A n \in 1..Len(M) : IsRowFor(M[n], M, part[n], q, s)
    BY <1>1, <1>2, <1>5, OneRowShown
  <2> HIDE DEF part, parts
  <2>4. Cardinality(parts) = Len(M)
    BY <1>2, <2>2, BijectionCounts
  <2>5. AsParts(M, M, part, q, s)
    BY <1>2, <2>1, <2>2, <2>3, <2>4 DEF AsParts
  <2> QED
    BY <2>1, <2>5 DEF M
<1> QED
  BY <1>3, <1>4, <1>5

-----------------------------------------------------------------------------
(* The order of the rows.                                                  *)

AsCell(v) == IF IsNil(v) THEN Null ELSE v

LEMMA CellOfChild ==
  ASSUME NEW row, NEW f
  PROVE  Cell(row, f) = AsCell(Child(row, f))
BY NumbersAre DEF Cell, AsCell, Child

\* Two values that the server and the engine can compare.
OrdersAlike(v, w, f) ==
  ~IsNil(v) /\ ~IsNil(w) =>
    IF f = "id" THEN CompareSortValues(v, w) = Sign(v.text, w.text) ELSE BothNumeric(v, w)

LEMMA ServerOrders ==
  ASSUME NEW v, NEW w, NEW f, OrdersAlike(v, w, f)
  PROVE  SqlOrder(AsCell(v), AsCell(w), 1, f) = CompareSortValues(v, w)
<1>1. IsNil(Null)
  BY NumbersAre
<1>2. CASE IsNil(v) /\ IsNil(w)
  BY <1>2 DEF SqlOrder, AsCell, CompareSortValues
<1>3. CASE IsNil(v) /\ ~IsNil(w)
  BY <1>1, <1>3 DEF SqlOrder, AsCell, CompareSortValues
<1>4. CASE ~IsNil(v) /\ IsNil(w)
  BY <1>1, <1>4 DEF SqlOrder, AsCell, CompareSortValues
<1>5. CASE ~IsNil(v) /\ ~IsNil(w)
  <2>1. AsCell(v) = v /\ AsCell(w) = w /\ v # Null /\ w # Null
    BY <1>1, <1>5 DEF AsCell
  <2>2. SqlOrder(v, w, 1, f) = IF f = "id" THEN Sign(v.text, w.text) ELSE Sign(v.num, w.num)
    BY <2>1 DEF SqlOrder
  <2>3. CompareSortValues(v, w) = IF BothNumeric(v, w) THEN Sign(v.num, w.num) ELSE Sign(v.text, w.text)
    BY <1>5 DEF CompareSortValues
  <2> QED
    BY <1>5, <2>1, <2>2, <2>3 DEF OrdersAlike
<1> QED
  BY <1>2, <1>3, <1>4, <1>5

\* The values of a column of the rows to sort.
IsColumn(v, table, q, f) ==
  \/ f \in Aggregates(q) /\ v \in ComputedNumbers \cup {Null}
  \/ f \in {"id", "k"} /\ \E i \in DOMAIN table : v = Child(table[i], f)

LEMMA ColumnsOrderAlike ==
  ASSUME NEW table \in Seq(TableRows), NEW q, PortableShape(table, q), IdsOrderAsTexts(table), NEW f,
         NEW v, NEW w, IsColumn(v, table, q, f), IsColumn(w, table, q, f)
  PROVE  v \in SortValues /\ OrdersAlike(v, w, f) /\ (f # "id" => Alike(v, w)) /\ (f = "id" => ~IsNil(v))
<1>1. \A i \in DOMAIN table : table[i] \in TableRows
  BY ElementsAre
<1>2. f \in Aggregates(q) => f \notin {"id", "k"}
  BY DEF PortableShape
<1>3. CASE f \in Aggregates(q)
  <2>1. v \in ComputedNumbers \cup {Null} /\ w \in ComputedNumbers \cup {Null} /\ f # "id"
    BY <1>2, <1>3 DEF IsColumn
  <2>2. (IsNil(v) \/ v.num # NotNumeric) /\ (IsNil(w) \/ w.num # NotNumeric) /\ v \in SortValues
    BY <2>1, NumbersAre
  <2> QED
    BY <2>1, <2>2 DEF OrdersAlike, BothNumeric, Alike
<1>4. CASE f = "k"
  <2>1. PICK i \in DOMAIN table, j \in DOMAIN table : v = Child(table[i], "k") /\ w = Child(table[j], "k")
    BY <1>2, <1>4 DEF IsColumn
  <2>2. \A t \in Numerals : Num(t).num # NotNumeric
    BY DEF Num, Numerals
  <2>3. (IsNil(v) \/ v.num # NotNumeric) /\ (IsNil(w) \/ w.num # NotNumeric)
    BY <2>1, <2>2, NumberCellIs DEF PortableShape
  <2>4. v \in SortValues
    BY <1>1, <2>1, ChildrenAre
  <2> QED
    BY <1>4, <2>3, <2>4 DEF OrdersAlike, BothNumeric, Alike
<1>5. CASE f = "id"
  <2>1. PICK i \in DOMAIN table, j \in DOMAIN table : v = Child(table[i], "id") /\ w = Child(table[j], "id")
    BY <1>2, <1>5 DEF IsColumn
  <2>2. v = table[i]["id"] /\ w = table[j]["id"]
    BY <1>1, <2>1 DEF TableRows, Child
  <2>3. CompareSortValues(v, w) = Sign(v.text, w.text)
    BY <2>1, <2>2 DEF IdsOrderAsTexts
  <2>4. v \in SortValues /\ ~IsNil(v)
    BY <1>1, <2>1, ChildrenAre, IdCellIs
  <2> QED
    BY <1>5, <2>3, <2>4 DEF OrdersAlike
<1> QED
  BY <1>3, <1>4, <1>5 DEF IsColumn

LEMMA ColumnsAreRanked ==
  ASSUME NEW table \in Seq(TableRows), NEW q, PortableShape(table, q), IdsOrderAsTexts(table), NEW f,
         NEW S, \A r \in S : IsColumn(Child(r, f), table, q, f)
  PROVE  Ranked(S, f)
<1> DEFINE V == ColumnValues(S, f)
<1>1. \A v \in V : IsColumn(v, table, q, f)
  BY DEF ColumnValues
<1>2. \A v, w \in V : v \in SortValues /\ OrdersAlike(v, w, f) /\ (f # "id" => Alike(v, w)) /\ (f = "id" => ~IsNil(v))
  BY <1>1, ColumnsOrderAlike
<1>3. CASE f # "id"
  BY <1>2, <1>3, OrderlyIsRanked DEF Orderly
<1>4. CASE f = "id"
  <2>1. \A v, w \in V : CompareSortValues(v, w) = Sign(v.text, w.text)
    BY <1>2, <1>4 DEF OrdersAlike
  <2>2. \A v \in V : v.text \in Int
    BY <1>2 DEF SortValues
  <2> HIDE DEF V
  <2> SUFFICES ASSUME NEW u \in V, NEW v \in V, NEW w \in V
               PROVE  /\ CompareSortValues(u, v) \in {-1, 0, 1}
                      /\ CompareSortValues(v, u) = -CompareSortValues(u, v)
                      /\ CompareSortValues(u, v) <= 0 /\ CompareSortValues(v, w) <= 0 =>
                           /\ CompareSortValues(u, w) <= 0
                           /\ CompareSortValues(u, v) < 0 \/ CompareSortValues(v, w) < 0 =>
                                CompareSortValues(u, w) < 0
    BY DEF Ranked, V
  <2>3. u.text \in Int /\ v.text \in Int /\ w.text \in Int
    BY <2>2
  <2>4. \A a, b, c \in Int :
          /\ Sign(a, b) \in {-1, 0, 1} /\ Sign(b, a) = -Sign(a, b)
          /\ Sign(a, b) <= 0 /\ Sign(b, c) <= 0 =>
               Sign(a, c) <= 0 /\ (Sign(a, b) < 0 \/ Sign(b, c) < 0 => Sign(a, c) < 0)
    BY DEF Sign
  <2> QED
    BY <2>1, <2>3, <2>4
<1> QED
  BY <1>3, <1>4

\* Rows the engine does not put the other way round are in the server's order.
LEMMA OrderedForServer ==
  ASSUME NEW clauses \in Seq([field : STRING, direction : {-1, 1}]), NEW s, s.order = clauses,
         NEW left, NEW right, NEW l, NEW r,
         \A i \in DOMAIN clauses :
           /\ By(left, right, clauses[i]) \in {-1, 0, 1}
           /\ By(right, left, clauses[i]) = -By(left, right, clauses[i])
           /\ By(left, right, clauses[i])
                = clauses[i].direction * SqlOrder(l[clauses[i].field], r[clauses[i].field], 1, clauses[i].field),
         ~Before(right, left, clauses)
  PROVE  InSqlOrder(l, r, s, 1)
<1> DEFINE b(i) == By(left, right, clauses[i])
<1>1. DOMAIN clauses = 1..Len(clauses) /\ Len(clauses) \in Nat
  OBVIOUS
<1>2. InSqlOrder(l, r, s, 1) <=> \A i \in DOMAIN clauses : b(i) > 0 => \E j \in 1..(i - 1) : b(j) < 0
  <2>1. InSqlOrder(l, r, s, 1) <=>
          \A i \in DOMAIN clauses :
            clauses[i].direction * SqlOrder(l[clauses[i].field], r[clauses[i].field], 1, clauses[i].field) > 0
            => \E j \in 1..(i - 1) :
                 clauses[j].direction * SqlOrder(l[clauses[j].field], r[clauses[j].field], 1, clauses[j].field) < 0
    BY DEF InSqlOrder
  <2>2. \A i \in DOMAIN clauses : \A j \in 1..(i - 1) : j \in DOMAIN clauses
    BY <1>1
  <2> QED
    BY <2>1, <2>2
<1>3. \A i \in DOMAIN clauses : b(i) \in {-1, 0, 1} /\ By(right, left, clauses[i]) = -b(i)
  OBVIOUS
<1>4. \A i \in DOMAIN clauses : ~(-b(i) < 0 /\ \A j \in 1..(i - 1) : -b(j) = 0)
  <2>1. \A i \in DOMAIN clauses : ~(/\ By(right, left, clauses[i]) < 0
                                    /\ \A j \in 1..(i - 1) : By(right, left, clauses[j]) = 0)
    BY BeforeIs
  <2>2. \A i \in DOMAIN clauses : \A j \in 1..(i - 1) : j \in DOMAIN clauses
    BY <1>1
  <2> QED
    BY <1>3, <2>1, <2>2
<1> HIDE DEF b
<1>5. ASSUME NEW i \in DOMAIN clauses, b(i) > 0, ~ \E j \in 1..(i - 1) : b(j) < 0
      PROVE  FALSE
  <2> DEFINE T == {j \in 1..i : b(j) # 0}
  <2>1. i \in T /\ T \subseteq Nat
    BY <1>1, <1>5
  <2>2. Min(T) \in T /\ \A y \in T : Min(T) <= y
    BY <2>1, LeastOf
  <2>3. PICK n \in 1..i : b(n) # 0 /\ \A j \in 1..i : b(j) # 0 => n <= j
    BY <2>2
  <2>4. n \in DOMAIN clauses /\ \A j \in 1..(n - 1) : j \in 1..i /\ j \in DOMAIN clauses
    BY <1>1, <2>3
  <2>5. \A j \in 1..(n - 1) : b(j) = 0
    BY <2>3, <2>4
  <2>6. b(n) > 0
    BY <1>3, <1>5, <2>3, <2>4
  <2> QED
    BY <1>3, <1>4, <2>4, <2>5, <2>6
<1> QED
  BY <1>2, <1>5

-----------------------------------------------------------------------------
(* The rows a server may deliver.                                          *)

ShownBy(s, row) == [f \in s.columns \cup DOMAIN s.counts \cup DOMAIN s.sums |-> row[f]]

CutBy(s, a) == IF s.limited THEN Slice(a, s.offset, s.offset + s.size) ELSE a

LEMMA DeliveredIs ==
  ASSUME NEW table, NEW s, NEW M, M = RowsAt(table, Selected(table, s)), NEW n \in Nat,
         NEW p \in Bijection(1..n, Parts(M, s)), Cardinality(Parts(M, s)) = n,
         \A i, j \in 1..n : i < j => InSqlOrder(RowFor(M, p[i], s), RowFor(M, p[j], s), s, 1)
  PROVE  CutBy(s, [i \in 1..n |-> ShownBy(s, RowFor(M, p[i], s))]) \in Delivered(table, s)
<1> DEFINE parts == Parts(M, s)
           arranged(nulls) ==
             {a \in {[i \in DOMAIN b |-> RowFor(M, b[i], s)] : b \in Bijection(1..Cardinality(parts), parts)} :
                \A i, j \in DOMAIN a : i < j => InSqlOrder(a[i], a[j], s, nulls)}
           a == [i \in DOMAIN p |-> RowFor(M, p[i], s)]
<1>1. Delivered(table, s)
        = {CutBy(s, [i \in DOMAIN x |-> ShownBy(s, x[i])]) : x \in arranged(-1) \cup arranged(1)}
  BY DEF Delivered, CutBy, Slice, ShownBy
<1>2. DOMAIN p = 1..n
  BY DEF Bijection, Injection
<1>3. a \in {[i \in DOMAIN b |-> RowFor(M, b[i], s)] : b \in Bijection(1..Cardinality(parts), parts)}
  OBVIOUS
<1>4. DOMAIN a = 1..n /\ \A i \in 1..n : a[i] = RowFor(M, p[i], s)
  BY <1>2
<1> HIDE DEF a
<1>5. a \in arranged(1)
  BY <1>3, <1>4
<1>6. CutBy(s, [i \in DOMAIN a |-> ShownBy(s, a[i])]) \in Delivered(table, s)
  <2> HIDE DEF arranged
  <2> QED
    BY <1>1, <1>5
<1>7. [i \in DOMAIN a |-> ShownBy(s, a[i])] = [i \in 1..n |-> ShownBy(s, RowFor(M, p[i], s))]
  BY <1>4
<1> QED
  BY <1>6, <1>7

LEMMA StatementIs ==
  ASSUME NEW q, NEW parameterized, NEW s, s = GenSql(q, parameterized)
  PROVE  /\ s.parameterized = parameterized /\ s.where = Where(q) /\ s.columns = Columns(q)
         /\ s.counts = q.counts /\ s.sums = q.sums /\ s.group = q.group /\ s.order = q.sort
         /\ s.limited = (q.page > 0) /\ s.offset = Wrap((q.page - 1) * q.size) /\ s.size = q.size
BY DEF GenSql

LEMMA CountStatementIs ==
  ASSUME NEW q, NEW parameterized, NEW s, s = CountSql(q, parameterized)
  PROVE  s.parameterized = parameterized /\ s.where = Where(q) /\ s.group = q.group
BY DEF CountSql

\* Rearranged rows are those of rearranged parts.
LEMMA PartsRearranged ==
  ASSUME NEW n \in Nat, NEW S, NEW part \in Bijection(1..n, S), NEW p \in Bijection(1..n, 1..n)
  PROVE  /\ [i \in 1..n |-> part[p[i]]] \in Bijection(1..n, S)
         /\ \A i \in 1..n : p[i] \in 1..n
<1> DEFINE c == [i \in 1..n |-> part[p[i]]]
<1>1. /\ part \in [1..n -> S] /\ \A a, b \in 1..n : part[a] = part[b] => a = b
      /\ \A x \in S : \E i \in 1..n : part[i] = x
  BY DEF Bijection, Injection, Surjection, IsInjective
<1>2. /\ p \in [1..n -> 1..n] /\ \A a, b \in 1..n : p[a] = p[b] => a = b
      /\ \A x \in 1..n : \E i \in 1..n : p[i] = x
  BY DEF Bijection, Injection, Surjection, IsInjective
<1>3. \A i \in 1..n : c[i] = part[p[i]] /\ p[i] \in 1..n
  BY <1>2
<1>4. c \in [1..n -> S]
  BY <1>1, <1>2
<1> HIDE DEF c
<1>5. \A a, b \in 1..n : c[a] = c[b] => a = b
  BY <1>1, <1>2, <1>3
<1>6. ASSUME NEW x \in S PROVE \E i \in 1..n : c[i] = x
  <2>1. PICK j \in 1..n : part[j] = x
    BY <1>1
  <2>2. PICK i \in 1..n : p[i] = j
    BY <1>2
  <2> QED
    BY <1>3, <2>1, <2>2
<1>7. c \in Bijection(1..n, S)
  BY <1>4, <1>5, <1>6 DEF Bijection, Injection, Surjection, IsInjective
<1> QED
  BY <1>3, <1>7 DEF c

\* The answer of the engine: some sorted rows, projected and cut.
IsAnswer(a, data, q) ==
  IF q.page > 0 THEN a = MakeQueryResult(Slice(data, Start(q), q.page * Size(q)), Len(data), q.page, Size(q))
  ELSE a = MakeQueryResult(data, Len(data), 0, Size(q))

ProjectedFrom(data, result, q) ==
  /\ \E T : data \in Seq(T)
  /\ Len(data) = Len(result)
  /\ \A i \in 1..Len(result) : data[i] = Projected(result[i], q)

LEMMA AnswerIs ==
  ASSUME NEW table \in Seq(TableRows), NEW q, IsQuery(q), PageFits(q), PageOnly(q) => q.fields = {},
         NEW a \in QueryTableRows(table, q), a.status # "paramerr"
  PROVE  \E result \in Sorted(Shaped(table, q), q.sort) :
           \E data : ProjectedFrom(data, result, q) /\ IsAnswer(a, data, q)
<1> DEFINE S == ToSet(Shaped(table, q))
<1>1. /\ q.page \in Int /\ q.size \in Int
      /\ IF PageOnly(q) THEN a = FastAnswer(table, q) ELSE a \in GeneralAnswers(table, q)
  BY WellFormedAnswersAre
<1>2. Shaped(table, q) \in Seq(S)
  BY ShapedIs
<1>3. CASE PageOnly(q)
  <2> DEFINE all == FilterRows(table, q)
  <2>1. Shaped(table, q) = all /\ q.sort = <<>> /\ q.page > 0
    BY <1>3 DEF PageOnly, Shaped
  <2>2. all \in Sorted(Shaped(table, q), q.sort)
    BY <2>1 DEF Sorted
  <2>3. Start(q) \in Nat /\ q.page * Size(q) = Start(q) + Size(q)
    BY <1>1, <2>1, PageIs
  <2>4. a = MakeQueryResult(Slice(all, Start(q), Start(q) + Size(q)), Len(all), q.page, Size(q))
    BY <1>1, <1>3, <2>3 DEF FastAnswer, Slice
  <2>5. IsAnswer(a, all, q)
    BY <2>1, <2>3, <2>4 DEF IsAnswer
  <2>6. ProjectedFrom(all, all, q)
    <3>1. all \in Seq(S)
      BY <1>2, <2>1
    <3>2. q.fields = {}
      BY <1>3
    <3> HIDE DEF all
    <3> QED
      BY <3>1, <3>2 DEF ProjectedFrom, Projected
  <2> HIDE DEF all
  <2> QED
    BY <2>2, <2>5, <2>6
<1>4. CASE ~PageOnly(q)
  <2>1. PICK result \in Sorted(Shaped(table, q), q.sort) : IsAnswer(a, ProjectFields(result, q), q)
    BY <1>1, <1>4, GeneralAnswersAre DEF IsAnswer
  <2>2. result \in Seq(S)
    BY <1>2, SortedIs
  <2>3. ProjectedFrom(ProjectFields(result, q), result, q)
    <3>1. ProjectFields(result, q) \in Seq({Projected(r, q) : r \in S})
      BY <2>2, ProjectionIs
    <3>2. /\ Len(ProjectFields(result, q)) = Len(result)
          /\ \A i \in 1..Len(result) : ProjectFields(result, q)[i] = Projected(result[i], q)
      BY <2>2, ProjectionIs
    <3> QED
      BY <3>1, <3>2 DEF ProjectedFrom
  <2> QED
    BY <2>1, <2>3
<1> QED
  BY <1>3, <1>4

LEMMA ColumnsAre ==
  ASSUME NEW q, ~HasAggregates(q) => q.fields \subseteq Names(q)
  PROVE  /\ Columns(q) \cup Aggregates(q) \subseteq Names(q)
         /\ q.fields # {} => Columns(q) \subseteq q.fields \cup {q.group}
         /\ q.fields = {} \/ HasAggregates(q) => Columns(q) \cup Aggregates(q) = Names(q)
         /\ q.fields # {} /\ ~HasAggregates(q) => Columns(q) = q.fields
<1>1. /\ IsGrouped(q) => {q.group} \ {""} = {q.group}
      /\ ~IsGrouped(q) => {q.group} \ {""} = {}
  BY Zenon DEF IsGrouped
<1> DEFINE groups == {q.group} \ {""}
<1>2. Columns(q) = IF HasAggregates(q) \/ (IsGrouped(q) /\ q.fields = {}) THEN groups
                   ELSE IF q.fields = {} THEN {"id", "k"} ELSE q.fields
  BY Zenon DEF Columns, IsGrouped
<1>3. /\ IsGrouped(q) => groups = {q.group}
      /\ ~IsGrouped(q) => groups = {}
  BY <1>1
<1> HIDE DEF groups
<1>4. q.fields # {} => Columns(q) \subseteq q.fields \cup {q.group}
  BY <1>2, <1>3
<1>5. ~HasAggregates(q) => Aggregates(q) = {}
  BY DEF HasAggregates
<1>6. CASE IsGrouped(q)
  <2>1. Names(q) = {q.group} \cup Aggregates(q)
    BY <1>6, NamesAre
  <2> QED
    BY <1>2, <1>3, <1>4, <1>6, <2>1
<1>7. CASE ~IsGrouped(q) /\ HasAggregates(q)
  <2>1. Names(q) = Aggregates(q)
    BY <1>7, NamesAre
  <2> QED
    BY <1>2, <1>3, <1>4, <1>7, <2>1
<1>8. CASE ~IsGrouped(q) /\ ~HasAggregates(q)
  <2>1. Names(q) = {"id", "k"}
    BY <1>8, NamesAre
  <2> QED
    BY <1>2, <1>4, <1>5, <1>8, <2>1
<1> QED
  BY <1>6, <1>7, <1>8

\* A projected row of the engine has no column that is not selected.
LEMMA NothingBeside ==
  ASSUME NEW q, ~HasAggregates(q) => q.fields \subseteq Names(q), NEW row, DOMAIN row \subseteq Names(q)
  PROVE  DOMAIN Projected(row, q) \subseteq Columns(q) \cup Aggregates(q)
<1>1. CASE q.fields = {} \/ HasAggregates(q)
  <2>1. DOMAIN Projected(row, q) \subseteq DOMAIN row
    BY DEF Projected
  <2> QED
    BY <1>1, <2>1, ColumnsAre
<1>2. CASE q.fields # {} /\ ~HasAggregates(q)
  <2>1. Columns(q) = q.fields /\ Aggregates(q) = {} /\ q.fields \subseteq Names(q)
    BY <1>2, ColumnsAre DEF HasAggregates
  <2>2. DOMAIN Projected(row, q) = DOMAIN row \cap (q.fields \cup {q.group} \cup Aggregates(q))
    BY <1>2 DEF Projected
  <2>3. CASE IsGrouped(q)
    <3>1. Names(q) = {q.group}
      BY <2>1, <2>3, NamesAre
    <3> QED
      BY <1>2, <2>1, <2>2, <3>1
  <2>4. CASE ~IsGrouped(q)
    <3>1. Names(q) = {"id", "k"} /\ q.group = ""
      BY <1>2, <2>4, NamesAre DEF IsGrouped
    <3> QED
      BY <2>1, <2>2, <3>1
  <2> QED
    BY <2>3, <2>4
<1> QED
  BY <1>1, <1>2

\* A row of the engine, projected, is what the select list shows.
LEMMA ShownAlike ==
  ASSUME NEW q, ~HasAggregates(q) => q.fields \subseteq Names(q), NEW table, NEW at,
         NEW s, s.columns = Columns(q), s.counts = q.counts, s.sums = q.sums,
         NEW row, IsRowFor(row, table, at, q, s), NEW given, given = Projected(row, q)
  PROVE  AsSqlRow(given, q) = ShownBy(s, RowFor(table, at, s))
<1> DEFINE C == Columns(q) \cup DOMAIN q.counts \cup DOMAIN q.sums
<1>1. C = Columns(q) \cup Aggregates(q)
  BY DEF Aggregates
<1>2. C \subseteq Names(q) /\ (q.fields # {} => C \subseteq q.fields \cup {q.group} \cup Aggregates(q))
  BY <1>1, ColumnsAre
<1>3. ASSUME NEW f \in C PROVE Cell(given, f) = RowFor(table, at, s)[f]
  <2>1. Child(given, f) = Child(row, f)
    BY <1>2 DEF Projected, Child
  <2>2. Cell(given, f) = Cell(row, f)
    BY <2>1, CellOfChild
  <2> QED
    BY <1>2, <2>2 DEF IsRowFor
<1>4. AsSqlRow(given, q) = [f \in C |-> Cell(given, f)]
  <2>1. DOMAIN given \subseteq C
    BY <1>1, NothingBeside DEF IsRowFor
  <2>2. Columns(q) \cup DOMAIN q.counts \cup DOMAIN q.sums \cup DOMAIN given = C
    BY <2>1
  <2> HIDE DEF C
  <2> QED
    BY <2>2 DEF AsSqlRow
<1>5. ShownBy(s, RowFor(table, at, s)) = [f \in C |-> RowFor(table, at, s)[f]]
  BY DEF ShownBy
<1> HIDE DEF C
<1> QED
  BY <1>3, <1>4, <1>5

LEMMA PortableIs ==
  ASSUME NEW q, NEW table, NEW strict, Portable(q, table, strict)
  PROVE  /\ Numbers(table)
         /\ \A c \in q.conds : PortableCondition(c, table, q.fuzzy)
         /\ OnlyId(q) => q.wellFormed /\ \A c \in q.conds : c.form = "plain"
         /\ PageOnly(q) => q.fields = {}
         /\ q.page > 0 => q.size > 0 /\ q.page * q.size <= MaxInt
         /\ IsGrouped(q) => q.group \in {"id", "k"} /\ ~ShowsAbsence(table) /\ (strict => q.page <= 0)
         /\ HasAggregates(q) /\ ~IsGrouped(q) => q.page <= 0
         /\ ~HasAggregates(q) => q.fields \subseteq Names(q)
         /\ \A a \in DOMAIN q.sums : q.sums[a] = "k" /\ a \notin {"id", "k"}
         /\ \A a \in DOMAIN q.counts : a \notin {"id", "k"}
         /\ q.sort # <<>> => IdsOrderAsTexts(table) /\ \A i \in DOMAIN q.sort : q.sort[i].field \in Names(q)
<1>1. /\ Numbers(table)
      /\ \A c \in q.conds : PortableCondition(c, table, q.fuzzy)
      /\ q.page > 0 => q.size > 0 /\ q.page * q.size <= MaxInt
      /\ IsGrouped(q) => q.group \in {"id", "k"} /\ ~ShowsAbsence(table) /\ (strict => q.page <= 0)
      /\ HasAggregates(q) /\ ~IsGrouped(q) => q.page <= 0
      /\ ~HasAggregates(q) => q.fields \subseteq Names(q)
  BY Zenon DEF Portable, IsGrouped
<1>2. /\ \A a \in DOMAIN q.sums : q.sums[a] = "k" /\ a \notin DOMAIN q.counts \cup {"id", "k"}
      /\ \A a \in DOMAIN q.counts : a \notin {"id", "k"}
      /\ q.sort # <<>> => IdsOrderAsTexts(table) /\ \A i \in DOMAIN q.sort : q.sort[i].field \in Names(q)
  BY Zenon DEF Portable
<1>3. \A a \in DOMAIN q.sums : q.sums[a] = "k" /\ a \notin {"id", "k"}
  BY <1>2
<1>4. OnlyId(q) => q.wellFormed /\ \A c \in q.conds : c.form = "plain"
  BY Zenon DEF Portable
<1>5. PageOnly(q) => q.fields = {}
  BY Zenon DEF Portable
<1> QED
  BY <1>1, <1>2, <1>3, <1>4, <1>5

\* What a table must be, its matches are.
LEMMA MatchesArePortable ==
  ASSUME NEW table \in Seq(TableRows), NEW q, NEW strict, Portable(q, table, strict)
  PROVE  /\ PortableShape(FilterRows(table, q), q)
         /\ q.sort # <<>> => IdsOrderAsTexts(FilterRows(table, q))
<1> DEFINE M == FilterRows(table, q)
           kinds(t) == {Child(t[i], "k").kind : i \in DOMAIN t} \cap {"null", "absent"}
<1>1. \A i \in DOMAIN M : \E l \in DOMAIN table : M[i] = table[l]
  <2>1. M \in Seq(ToSet(table))
    BY FilterRowsAre
  <2>2. \A i \in DOMAIN M : M[i] \in ToSet(table)
    BY <2>1, ElementsAre
  <2> QED
    BY <2>2 DEF ToSet
<1> HIDE DEF M
<1>2. Numbers(M)
  BY <1>1, PortableIs DEF Numbers
<1>3. ~ShowsAbsence(table) => ~ShowsAbsence(M)
  <2>1. IsFiniteSet({"null"} \cup {"absent"})
    BY FS_Singleton, FS_AddElement
  <2>2. kinds(table) \subseteq {"null"} \cup {"absent"} /\ kinds(M) \subseteq kinds(table)
    BY <1>1
  <2>3. \A t : ShowsAbsence(t) <=> Cardinality(kinds(t)) > 1
    BY DEF ShowsAbsence
  <2> HIDE DEF kinds
  <2>4. IsFiniteSet(kinds(table))
    BY <2>1, <2>2, FS_Subset
  <2>5. IsFiniteSet(kinds(M)) /\ Cardinality(kinds(M)) <= Cardinality(kinds(table))
    BY <2>2, <2>4, FS_Subset
  <2>6. Cardinality(kinds(M)) \in Nat /\ Cardinality(kinds(table)) \in Nat
    BY <2>4, <2>5, FS_CardinalityType
  <2> QED
    BY <2>3, <2>5, <2>6
<1>4. Aggregates(q) \cap {"id", "k"} = {}
  BY PortableIs DEF Aggregates
<1>5. PortableShape(M, q)
  BY <1>2, <1>3, <1>4, PortableIs DEF PortableShape
<1>6. q.sort # <<>> => IdsOrderAsTexts(M)
  <2>1. q.sort # <<>> => IdsOrderAsTexts(table)
    BY PortableIs
  <2> QED
    BY <1>1, <2>1 DEF IdsOrderAsTexts
<1> QED
  BY <1>5, <1>6 DEF M

SortClauses == Seq([field : STRING, direction : {-1, 1}])

LEMMA ByForServer ==
  ASSUME NEW table \in Seq(TableRows), NEW q, PortableShape(table, q), IdsOrderAsTexts(table),
         NEW s, NEW left, NEW right, NEW at, NEW under, IsRowFor(left, table, at, q, s),
         IsRowFor(right, table, under, q, s), NEW clause, clause.field \in Names(q)
  PROVE  By(left, right, clause)
           = clause.direction * SqlOrder(RowFor(table, at, s)[clause.field], RowFor(table, under, s)[clause.field],
                                         1, clause.field)
<1> DEFINE f == clause.field
           v == Child(left, f)
           w == Child(right, f)
<1>1. RowFor(table, at, s)[f] = AsCell(v) /\ RowFor(table, under, s)[f] = AsCell(w)
  BY CellOfChild DEF IsRowFor
<1>2. IsColumn(v, table, q, f) /\ IsColumn(w, table, q, f)
  BY DEF IsRowFor, IsColumn
<1> HIDE DEF v, w, f
<1>3. SqlOrder(AsCell(v), AsCell(w), 1, f) = CompareSortValues(v, w)
  BY <1>2, ColumnsOrderAlike, ServerOrders
<1> QED
  BY <1>1, <1>3 DEF By, v, w, f

LEMMA InServerOrder ==
  ASSUME NEW table \in Seq(TableRows), NEW q, PortableShape(table, q), q.sort \in SortClauses,
         q.sort # <<>> => IdsOrderAsTexts(table) /\ \A i \in DOMAIN q.sort : q.sort[i].field \in Names(q),
         NEW s, s.order = q.sort, NEW shaped, NEW part, AsParts(shaped, table, part, q, s),
         shaped \in Seq(ToSet(shaped)), NEW result \in Sorted(shaped, q.sort),
         NEW p \in Bijection(1..Len(shaped), 1..Len(shaped)),
         result = [i \in 1..Len(shaped) |-> shaped[p[i]]],
         NEW i \in 1..Len(shaped), NEW j \in 1..Len(shaped), i < j
  PROVE  InSqlOrder(RowFor(table, part[p[i]], s), RowFor(table, part[p[j]], s), s, 1)
<1> DEFINE S == ToSet(shaped)
           n == Len(shaped)
<1>1. n \in Nat /\ DOMAIN shaped = 1..n /\ \A l \in 1..n : p[l] \in 1..n /\ shaped[l] \in S
  BY DEF AsParts, Bijection, Injection, ToSet
<1>2. CASE q.sort = <<>>
  <2>1. DOMAIN s.order = {}
    BY <1>2
  <2> QED
    BY <2>1 DEF InSqlOrder
<1>3. CASE q.sort # <<>>
  <2>1. \A l \in 1..n : IsRowFor(shaped[l], table, part[l], q, s)
    BY DEF AsParts
  <2>2. \A r \in S : \E l \in 1..n : r = shaped[l]
    BY <1>1 DEF ToSet
  <2>3. ASSUME NEW c \in DOMAIN q.sort
        PROVE  Ranked(S, q.sort[c].field)
    <3>1. \A r \in S : IsColumn(Child(r, q.sort[c].field), table, q, q.sort[c].field)
      <4> SUFFICES ASSUME NEW r \in S PROVE IsColumn(Child(r, q.sort[c].field), table, q, q.sort[c].field)
        OBVIOUS
      <4> DEFINE f == q.sort[c].field
      <4>1. f \in Names(q)
        BY <1>3
      <4>2. PICK l \in 1..n : IsRowFor(r, table, part[l], q, s)
        BY <2>1, <2>2
      <4> HIDE DEF f
      <4>3. IsColumn(Child(r, f), table, q, f)
        BY <4>1, <4>2 DEF IsRowFor, IsColumn
      <4> QED
        BY <4>3 DEF f
    <3> QED
      BY <1>3, <3>1, ColumnsAreRanked
  <2>4. StrictWeakOrder(S, q.sort)
    BY <2>3, RankedRowsAreWeaklyOrdered DEF SortClauses
  <2>5. \A a, b \in DOMAIN result : a < b => ~Before(result[b], result[a], q.sort)
    BY <1>3, <2>4, SortedIs
  <2> DEFINE left == shaped[p[i]]
             right == shaped[p[j]]
  <2>6. ~Before(right, left, q.sort)
    BY <2>5
  <2>7. left \in S /\ right \in S /\ IsRowFor(left, table, part[p[i]], q, s) /\ IsRowFor(right, table, part[p[j]], q, s)
    BY <1>1, <2>1
  <2> HIDE DEF left, right, S
  <2>8. ASSUME NEW c \in DOMAIN q.sort
        PROVE  /\ By(left, right, q.sort[c]) \in {-1, 0, 1}
               /\ By(right, left, q.sort[c]) = -By(left, right, q.sort[c])
               /\ By(left, right, q.sort[c])
                    = q.sort[c].direction
                      * SqlOrder(RowFor(table, part[p[i]], s)[q.sort[c].field],
                                 RowFor(table, part[p[j]], s)[q.sort[c].field], 1, q.sort[c].field)
    <3>1. q.sort[c] \in [field : STRING, direction : {-1, 1}]
      BY ElementsAre DEF SortClauses
    <3>2. By(left, right, q.sort[c]) \in {-1, 0, 1} /\ By(right, left, q.sort[c]) = -By(left, right, q.sort[c])
      BY <2>3, <2>7, <3>1, ClauseOrders
    <3>3. q.sort[c].field \in Names(q) /\ IdsOrderAsTexts(table)
      BY <1>3
    <3> QED
      BY <2>7, <3>2, <3>3, ByForServer
  <2> QED
    BY <2>6, <2>8, OrderedForServer DEF SortClauses
<1> QED
  BY <1>2, <1>3

-----------------------------------------------------------------------------
(* The answer.                                                             *)

LEMMA PortablePageFits ==
  ASSUME NEW q, IsQuery(q), NEW table, NEW strict, Portable(q, table, strict)
  PROVE  /\ q.page \in Int /\ q.size \in Int /\ PageFits(q)
         /\ q.page > 0 => Size(q) = q.size /\ q.size > 0
<1>1. q.page \in Int /\ q.size \in Int
  BY DEF IsQuery
<1>2. q.page > 0 => q.size > 0 /\ q.page * q.size <= MaxInt
  BY PortableIs
<1>3. q.page > 0 => Size(q) = q.size
  BY <1>1, <1>2 DEF Size
<1>4. CASE q.page > 0
  <2>1. Size(q) = q.size /\ q.page * q.size <= MaxInt
    BY <1>2, <1>3, <1>4
  <2>2. PageFits(q)
    BY <2>1, Zenon DEF PageFits
  <2> QED
    BY <1>1, <1>2, <1>3, <2>2
<1>5. CASE ~(q.page > 0)
  <2> DEFINE z == Size(q)
             n == q.page
  <2>1. z \in Nat /\ n \in Int /\ n <= 0
    BY <1>1, <1>5 DEF Size
  <2> HIDE DEF z, n
  <2>2. n * z <= 0 * z
    BY <2>1, ProductsGrow
  <2>3. n * z \in Int /\ 0 * z = 0
    BY <2>1
  <2>4. n * z <= MaxInt
    BY <2>2, <2>3, QueryAssumption
  <2> QED
    BY <1>5, <1>1, <2>4 DEF PageFits, n, z
<1> QED
  BY <1>1, <1>2, <1>3, <1>4, <1>5

LEMMA RowsSelected ==
  ASSUME NEW table \in Seq(TableRows), NEW q, IsQuery(q), NEW strict, Portable(q, table, strict),
         NEW s, s.where = Where(q), s.parameterized \in BOOLEAN
  PROVE  /\ Selected(table, s) = Matching(table, q)
         /\ RowsAt(table, Selected(table, s)) = FilterRows(table, q)
<1>1. Selected(table, s) = Matching(table, q)
  BY PortableIs, SelectedIs
<1> QED
  BY <1>1 DEF FilterRows

\* The rows of an answer of the engine, read as SQL rows, are delivered.
LEMMA DataDelivered ==
  ASSUME NEW table \in Seq(TableRows), NEW q, IsQuery(q), NEW strict, Portable(q, table, strict),
         NEW parameterized \in BOOLEAN, NEW result \in Sorted(Shaped(table, q), q.sort),
         NEW data, ProjectedFrom(data, result, q), NEW s, s = GenSql(q, parameterized)
  PROVE  /\ Len(data) \in Nat /\ DOMAIN data = 1..Len(data) /\ Len(data) = Len(Shaped(table, q))
         /\ CutBy(s, [i \in 1..Len(data) |-> AsSqlRow(data[i], q)]) \in Delivered(table, s)
<1> DEFINE M == FilterRows(table, q)
           shaped == Shaped(table, q)
           n == Len(shaped)
<1>1. /\ s.where = Where(q) /\ s.parameterized \in BOOLEAN /\ s.columns = Columns(q)
      /\ s.counts = q.counts /\ s.sums = q.sums /\ s.group = q.group /\ s.order = q.sort
  BY StatementIs
<1>2. M = RowsAt(table, Selected(table, s))
  BY <1>1, RowsSelected
<1>3. M \in Seq(TableRows)
  BY FilterRowsAre
<1>4. PortableShape(M, q) /\ (q.sort # <<>> => IdsOrderAsTexts(M))
  BY MatchesArePortable
<1>5. PICK part : AsParts(shaped, M, part, q, s)
  BY <1>1, <1>4, ShapedAsParts
<1>6. shaped \in Seq(ToSet(shaped))
  BY ShapedIs
<1>7. /\ n \in Nat /\ DOMAIN shaped = 1..n /\ part \in Bijection(1..n, Parts(M, s))
      /\ Cardinality(Parts(M, s)) = n /\ \A l \in 1..n : IsRowFor(shaped[l], M, part[l], q, s)
  BY <1>5 DEF AsParts
<1>8. PICK p \in Bijection(1..n, 1..n) : result = [i \in 1..n |-> shaped[p[i]]]
  BY <1>6, <1>7, SortedIs
<1>9. Len(result) = n
  BY <1>6, SortedIs
<1>10. Len(data) = n /\ DOMAIN data = 1..n /\ \A i \in 1..n : data[i] = Projected(result[i], q)
  <2>1. PICK T : data \in Seq(T)
    BY DEF ProjectedFrom
  <2>2. DOMAIN data = 1..Len(data)
    BY <2>1
  <2> QED
    BY <1>9, <2>2 DEF ProjectedFrom
<1>11. q.sort \in SortClauses
  BY DEF IsQuery, SortClauses
<1>12. q.sort # <<>> => \A i \in DOMAIN q.sort : q.sort[i].field \in Names(q)
  BY PortableIs
<1>13. ~HasAggregates(q) => q.fields \subseteq Names(q)
  BY PortableIs
<1> HIDE DEF M, shaped, n
<1> DEFINE P == [i \in 1..n |-> part[p[i]]]
<1>14. P \in Bijection(1..n, Parts(M, s)) /\ \A i \in 1..n : p[i] \in 1..n
  BY <1>7, <1>8, PartsRearranged
<1>15. \A i, j \in 1..n : i < j => InSqlOrder(RowFor(M, part[p[i]], s), RowFor(M, part[p[j]], s), s, 1)
  BY <1>1, <1>3, <1>4, <1>5, <1>6, <1>8, <1>11, <1>12, InServerOrder DEF n, shaped
<1>16. \A i \in 1..n : P[i] = part[p[i]]
  OBVIOUS
<1> HIDE DEF P
<1>17. CutBy(s, [i \in 1..n |-> ShownBy(s, RowFor(M, P[i], s))]) \in Delivered(table, s)
  BY <1>2, <1>7, <1>14, <1>15, <1>16, DeliveredIs
<1>18. \A i \in 1..n : AsSqlRow(data[i], q) = ShownBy(s, RowFor(M, P[i], s))
  <2> SUFFICES ASSUME NEW i \in 1..n PROVE AsSqlRow(data[i], q) = ShownBy(s, RowFor(M, P[i], s))
    OBVIOUS
  <2>1. result[i] = shaped[p[i]] /\ P[i] = part[p[i]] /\ p[i] \in 1..n
    BY <1>8, <1>14, <1>16
  <2>2. IsRowFor(result[i], M, P[i], q, s)
    BY <1>7, <2>1
  <2> QED
    BY <1>1, <1>10, <1>13, <2>2, ShownAlike
<1>19. [i \in 1..n |-> AsSqlRow(data[i], q)] = [i \in 1..n |-> ShownBy(s, RowFor(M, P[i], s))]
  BY <1>18
<1> QED
  BY <1>7, <1>10, <1>17, <1>19 DEF n, shaped

LEMMA CountGivenIs ==
  ASSUME NEW table, NEW s, NEW q, s.group = q.group, NEW strict \in BOOLEAN
  PROVE  /\ ~IsGrouped(q) => CountGiven(table, s, strict) = Cardinality(Selected(table, s))
         /\ IsGrouped(q) /\ ~strict =>
              CountGiven(table, s, strict) = Cardinality(Parts(RowsAt(table, Selected(table, s)), s))
         /\ IsGrouped(q) => \A t : Parts(t, s) = {SameGroup(t, i, s) : i \in DOMAIN t}
BY Zenon DEF CountGiven, IsGrouped, Parts

\* The count statement counts the rows of the whole answer.
LEMMA CountsWhole ==
  ASSUME NEW table \in Seq(TableRows), NEW q, IsQuery(q), NEW strict \in BOOLEAN, Portable(q, table, strict),
         NEW parameterized \in BOOLEAN, q.page > 0
  PROVE  CountGiven(table, CountSql(q, parameterized), strict) = Len(Shaped(table, q))
<1> DEFINE M == FilterRows(table, q)
           s == GenSql(q, parameterized)
           c == CountSql(q, parameterized)
<1>1. /\ s.group = q.group /\ s.counts = q.counts /\ s.sums = q.sums
  BY StatementIs
<1>2. c.where = Where(q) /\ c.parameterized \in BOOLEAN /\ c.group = q.group
  BY CountStatementIs
<1> HIDE DEF s, c
<1>3. Selected(table, c) = Matching(table, q) /\ RowsAt(table, Selected(table, c)) = M
  BY <1>2, RowsSelected
<1>4. q.page \in Int
  BY DEF IsQuery
<1>5. CASE IsGrouped(q)
  <2>1. ~strict
    BY <1>4, <1>5, PortableIs
  <2>2. CountGiven(table, c, strict) = Cardinality(Parts(M, c))
    BY <1>2, <1>3, <1>5, <2>1, CountGivenIs
  <2>3. Parts(M, c) = {SameGroup(M, i, c) : i \in DOMAIN M} /\ Parts(M, s) = {SameGroup(M, i, s) : i \in DOMAIN M}
    BY <1>1, <1>2, <1>5, CountGivenIs
  <2>4. \A i : SameGroup(M, i, c) = SameGroup(M, i, s)
    BY <1>1, <1>2 DEF SameGroup
  <2>5. Parts(M, c) = Parts(M, s)
    BY <2>3, <2>4
  <2>6. PICK part : AsParts(Shaped(table, q), M, part, q, s)
    BY <1>1, MatchesArePortable, ShapedAsParts
  <2> QED
    BY <2>2, <2>5, <2>6 DEF AsParts, c
<1>6. CASE ~IsGrouped(q)
  <2>1. ~HasAggregates(q)
    BY <1>4, <1>6, PortableIs
  <2>2. Shaped(table, q) = M
    BY <1>6, <2>1, ShapesAre
  <2>3. CountGiven(table, c, strict) = Cardinality(Matching(table, q))
    BY <1>2, <1>3, <1>6, CountGivenIs
  <2>4. Len(M) = Rank(Matching(table, q), Len(table))
    BY RowsAtAre DEF FilterRows
  <2>5. Matching(table, q) \cap 1..Len(table) = Matching(table, q)
    BY MatchingIs
  <2> QED
    BY <2>2, <2>3, <2>4, <2>5 DEF Rank, c
<1> QED
  BY <1>5, <1>6 DEF c

\* Rows of an answer as a SQL backend shows them.
AsSqlRows(data, q) == [i \in DOMAIN data |-> AsSqlRow(data[i], q)]

\* What a SQL backend would have answered.
AsSqlAnswer(r, q) ==
  IF r.status # "success" THEN [status |-> r.status]
  ELSE [r EXCEPT !.data = [i \in DOMAIN r.data |-> AsSqlRow(r.data[i], q)]]

LEMMA SuccessIs ==
  ASSUME NEW q, NEW data, data # <<>>, NEW records, NEW page, NEW size,
         NEW r, r = MakeQueryResult(data, records, page, size)
  PROVE  AsSqlAnswer(r, q)
           = [status |-> "success", data |-> AsSqlRows(data, q),
              records |-> records, pages |-> Pages(records, page, size)]
<1>1. r = [status |-> "success", data |-> data, records |-> records, pages |-> Pages(records, page, size)]
  BY DEF MakeQueryResult
<1> QED
  BY <1>1 DEF AsSqlAnswer, AsSqlRows

LEMMA EmptyIs ==
  ASSUME NEW q, NEW records, NEW page, NEW size, NEW r, r = MakeQueryResult(<<>>, records, page, size)
  PROVE  AsSqlAnswer(r, q) = [status |-> "empty"]
<1>1. r.status = "empty"
  BY DEF MakeQueryResult
<1> QED
  BY <1>1 DEF AsSqlAnswer

LEMMA SelectIs ==
  ASSUME NEW table, NEW q, q.wellFormed, NEW parameterized, NEW strict,
         NEW data \in Delivered(table, GenSql(q, parameterized))
  PROVE  (IF data = <<>> THEN [status |-> "empty"]
          ELSE [status |-> "success", data |-> data,
                records |-> Records(table, q, parameterized, strict, data),
                pages |-> SqlPages(Records(table, q, parameterized, strict, data), q)])
         \in SqlSelect(table, q, parameterized, strict)
BY DEF SqlSelect

\* A page of the rows as a SQL backend shows them.
LEMMA SliceAsShown ==
  ASSUME NEW T, NEW data \in Seq(T), NEW U, NEW shown \in Seq(U), Len(shown) = Len(data), NEW q,
         \A i \in 1..Len(data) : shown[i] = AsSqlRow(data[i], q), NEW a \in Nat, NEW b \in Nat
  PROVE  Slice(shown, a, b) = AsSqlRows(Slice(data, a, b), q)
<1> DEFINE Taken(u, V) ==
             /\ Slice(u, a, b) \in Seq(V)
             /\ \A i \in DOMAIN Slice(u, a, b) : i \in Nat /\ a + i \in 1..Len(u) /\ Slice(u, a, b)[i] = u[a + i]
<1>1. Taken(data, T) /\ Taken(shown, U)
  <2>1. ASSUME NEW V, NEW u \in Seq(V) PROVE Taken(u, V)
    <3>1. Slice(u, a, b) \in Seq(V)
      BY SliceIs
    <3>2. \A i \in DOMAIN Slice(u, a, b) : i \in Nat /\ a + i \in 1..Len(u) /\ Slice(u, a, b)[i] = u[a + i]
      BY SliceTakes
    <3> QED
      BY <3>1, <3>2
  <2> HIDE DEF Taken
  <2> QED
    BY <2>1
<1>2. ASSUME NEW V, NEW u \in Seq(V), Len(u) = Len(data)
      PROVE  Len(Slice(u, a, b))
               = IF a + 1 <= Lesser(b, Len(data)) THEN Lesser(b, Len(data)) - (a + 1) + 1 ELSE 0
  <2> DEFINE end == Lesser(b, Len(u))
  <2>1. end \in Nat /\ end <= Len(u)
    BY DEF Lesser
  <2>2. \A i \in (a + 1)..end : u[i] \in V
    BY <2>1, ElementsAre
  <2> HIDE DEF end
  <2>3. Len(SubSeq(u, a + 1, end)) = IF a + 1 <= end THEN end - (a + 1) + 1 ELSE 0
    BY <2>1, <2>2, SubSeqProperties
  <2> QED
    BY <1>2, <2>3 DEF Slice, end
<1>3. Len(Slice(data, a, b)) = Len(Slice(shown, a, b))
  BY <1>2
<1> DEFINE D == Slice(data, a, b)
           R == Slice(shown, a, b)
<1>4. /\ DOMAIN R = 1..Len(R) /\ R = [i \in DOMAIN R |-> R[i]]
      /\ DOMAIN D = 1..Len(D) /\ Len(D) = Len(R)
  BY <1>1, <1>3
<1>5. \A i \in DOMAIN D : a + i \in 1..Len(data) /\ D[i] = data[a + i]
  BY <1>1
<1>6. \A i \in DOMAIN R : R[i] = shown[a + i]
  BY <1>1
<1> HIDE DEF D, R
<1>7. \A i \in DOMAIN R : R[i] = AsSqlRow(D[i], q)
  BY <1>4, <1>5, <1>6
<1>8. R = [i \in DOMAIN D |-> AsSqlRow(D[i], q)]
  BY <1>4, <1>7
<1> QED
  BY <1>8 DEF D, R, AsSqlRows

\* Of a page, or of all rows.
LEMMA ServerMayAnswer ==
  ASSUME NEW table \in Seq(TableRows), NEW q, IsQuery(q), NEW strict \in BOOLEAN, Portable(q, table, strict),
         NEW parameterized \in BOOLEAN, NEW a \in QueryTableRows(table, q), q.wellFormed, a.status # "paramerr"
  PROVE  AsSqlAnswer(a, q) \in SqlSelect(table, q, parameterized, strict)
<1> DEFINE s == GenSql(q, parameterized)
<1>1. /\ q.page \in Int /\ q.size \in Int /\ PageFits(q)
      /\ q.page > 0 => Size(q) = q.size /\ q.size > 0
  BY PortablePageFits
<1>2. PICK result, data : /\ result \in Sorted(Shaped(table, q), q.sort)
                            /\ ProjectedFrom(data, result, q) /\ IsAnswer(a, data, q)
  BY <1>1, PortableIs, AnswerIs
<1> DEFINE n == Len(data)
           rows_ == [i \in 1..n |-> AsSqlRow(data[i], q)]
           given == IF q.page > 0 THEN Slice(data, Start(q), q.page * Size(q)) ELSE data
           sent == AsSqlRows(given, q)
<1>3. n \in Nat /\ DOMAIN data = 1..n /\ n = Len(Shaped(table, q)) /\ CutBy(s, rows_) \in Delivered(table, s)
  BY <1>2, DataDelivered
<1>4. s.limited = (q.page > 0) /\ s.offset = Wrap((q.page - 1) * q.size) /\ s.size = q.size
  BY StatementIs
<1>5. PICK T : data \in Seq(T)
  BY <1>2 DEF ProjectedFrom
<1>6. rows_ \in Seq({AsSqlRow(data[i], q) : i \in 1..n}) /\ Len(rows_) = n
  <2>1. rows_ = [i \in 1..n |-> rows_[i]] /\ \A i \in 1..n : rows_[i] \in {AsSqlRow(data[i1], q) : i1 \in 1..n}
    OBVIOUS
  <2> HIDE DEF rows_
  <2> QED
    BY <1>3, <2>1, Listed
<1>7. \A i \in 1..n : rows_[i] = AsSqlRow(data[i], q)
  OBVIOUS
<1> HIDE DEF rows_, s
<1>8. CutBy(s, rows_) = sent
  <2>1. CASE q.page > 0
    <3> DEFINE from == Start(q)
               to == q.page * Size(q)
    <3>1. from \in Nat /\ to \in Nat /\ s.offset = from /\ s.offset + s.size = to /\ s.limited
      <4>1. Start(q) \in Nat /\ to = Start(q) + Size(q) /\ Size(q) \in Nat
        BY <1>1, <2>1, PageIs
      <4>2. s.offset = from /\ s.size = Size(q)
        BY <1>1, <1>4, <2>1 DEF Start
      <4>3. s.limited
        BY <1>4, <2>1, Zenon
      <4> HIDE DEF to
      <4>4. from \in Nat /\ from + Size(q) \in Nat
        BY <4>1
      <4> QED
        BY <4>1, <4>2, <4>3, <4>4
    <3> HIDE DEF from, to
    <3>2. Slice(rows_, from, to) = AsSqlRows(Slice(data, from, to), q)
      <4> HIDE DEF n
      <4>1. PICK U : rows_ \in Seq(U)
        BY <1>6
      <4>2. Len(rows_) = Len(data) /\ \A i \in 1..Len(data) : rows_[i] = AsSqlRow(data[i], q)
        BY <1>6, <1>7 DEF n
      <4> QED
        BY <1>5, <3>1, <4>1, <4>2, SliceAsShown
    <3>3. CutBy(s, rows_) = Slice(rows_, from, to)
      BY <3>1 DEF CutBy
    <3>4. given = Slice(data, from, to)
      BY <2>1 DEF from, to
    <3> HIDE DEF given
    <3> QED
      BY <3>2, <3>3, <3>4
  <2>2. CASE ~(q.page > 0)
    <3>1. CutBy(s, rows_) = rows_
      BY <1>4, <2>2 DEF CutBy
    <3>2. given = data
      BY <2>2
    <3> QED
      BY <1>3, <3>1, <3>2 DEF rows_, AsSqlRows
  <2> QED
    BY <2>1, <2>2
<1> DEFINE page == IF q.page > 0 THEN q.page ELSE 0
           records == Records(table, q, parameterized, strict, sent)
<1>9. a = MakeQueryResult(given, n, page, Size(q))
  BY <1>2 DEF IsAnswer
<1>10. \E U : given \in Seq(U)
  <2>1. CASE q.page > 0
    <3>1. Start(q) \in Nat /\ q.page * Size(q) = Start(q) + Size(q) /\ Size(q) \in Nat
      BY <1>1, <2>1, PageIs
    <3>2. Start(q) + Size(q) \in Nat
      BY <3>1
    <3>3. Slice(data, Start(q), Start(q) + Size(q)) \in Seq(T)
      BY <1>5, <3>1, <3>2, SliceIs
    <3> QED
      BY <2>1, <3>1, <3>3
  <2>2. CASE ~(q.page > 0)
    BY <1>5, <2>2
  <2> QED
    BY <2>1, <2>2
<1> HIDE DEF given
<1>11. given = <<>> <=> sent = <<>>
  <2>1. DOMAIN given = 1..Len(given) /\ Len(given) \in Nat
    BY <1>10
  <2>2. (given = <<>> <=> DOMAIN given = {}) /\ DOMAIN sent = DOMAIN given
    BY <1>10 DEF AsSqlRows
  <2> QED
    BY <2>2
<1>12. sent # <<>> => records = n
  <2>1. CASE q.page > 0
    <3>1. CountGiven(table, CountSql(q, parameterized), strict) = n
      BY <1>3, <2>1, CountsWhole
    <3> HIDE DEF sent
    <3> QED
      BY <1>1, <1>3, <2>1, <3>1 DEF Records
  <2>2. CASE ~(q.page > 0)
    <3>1. records = Len(sent)
      <4> HIDE DEF sent
      <4> QED
        BY <2>2 DEF Records
    <3>2. given = data
      BY <2>2 DEF given
    <3>3. sent = rows_
      BY <1>3, <3>2 DEF rows_, AsSqlRows
    <3> QED
      BY <1>6, <3>1, <3>3
  <2> QED
    BY <2>1, <2>2
<1>13. SqlPages(n, q) = Pages(n, page, Size(q))
  <2>1. CASE q.page > 0
    BY <1>1, <2>1 DEF SqlPages, Pages
  <2>2. CASE ~(q.page > 0)
    BY <2>2 DEF SqlPages, Pages
  <2> QED
    BY <2>1, <2>2
<1>14. (IF sent = <<>> THEN [status |-> "empty"]
        ELSE [status |-> "success", data |-> sent, records |-> records, pages |-> SqlPages(records, q)])
       \in SqlSelect(table, q, parameterized, strict)
  <2>1. sent \in Delivered(table, GenSql(q, parameterized))
    BY <1>3, <1>8 DEF s
  <2> HIDE DEF sent
  <2> QED
    BY <2>1, SelectIs
<1>15. CASE given = <<>>
  <2>1. AsSqlAnswer(a, q) = [status |-> "empty"]
    BY <1>9, <1>15, EmptyIs
  <2> QED
    BY <1>11, <1>14, <1>15, <2>1
<1>16. CASE given # <<>>
  <2>1. AsSqlAnswer(a, q) = [status |-> "success", data |-> sent, records |-> n, pages |-> Pages(n, page, Size(q))]
    <3> HIDE DEF page, n
    <3>1. AsSqlAnswer(MakeQueryResult(given, n, page, Size(q)), q)
            = [status |-> "success", data |-> AsSqlRows(given, q), records |-> n,
               pages |-> Pages(n, page, Size(q))]
      BY ONLY <1>16, SuccessIs
    <3> QED
      BY <1>9, <3>1
  <2> HIDE DEF sent, records, page
  <2> QED
    BY <1>11, <1>12, <1>13, <1>14, <1>16, <2>1
<1> QED
  BY <1>15, <1>16

\* The lookup of one id finds the rows that a scan for it finds.
LEMMA LookupIsScan ==
  ASSUME NEW table \in Seq(TableRows), NEW q, IsQuery(q), NEW strict, Portable(q, table, strict), OnlyId(q)
  PROVE  FastSelect(table, q) \in QueryTableRows(table, q)
<1>1. PICK c : q.conds = {c} /\ c.field = "id"
  BY DEF OnlyId
<1>2. /\ ~q.fuzzy /\ q.sort = <<>> /\ ~IsGrouped(q) /\ ~HasAggregates(q) /\ q.page = 0 /\ q.size = 0
      /\ IsCondition(c)
  BY <1>1, Zenon DEF OnlyId, IsGrouped, IsQuery
<1>3. q.wellFormed /\ c.form = "plain" /\ Numbers(table) /\ PortableCondition(c, table, q.fuzzy)
  BY <1>1, PortableIs
<1>4. c.text \in Texts /\ c.text # NullText /\ ComparesAlike(table, "id", c.text)
  BY <1>1, <1>2, <1>3 DEF IsCondition, PortableCondition
<1>5. ASSUME NEW i \in DOMAIN table
      PROVE  MatchesAll(table[i], q) <=> table[i]["id"].text = c.text
  <2>1. table[i] \in TableRows
    BY ElementsAre
  <2>2. PICK u \in Texts : Child(table[i], "id") = Str(u) /\ Cell(table[i], "id") = Str(u) /\ ~IsNil(Str(u))
    BY <2>1, IdCellIs
  <2>3. table[i]["id"] = Str(u)
    BY <2>1, <2>2 DEF Child, TableRows
  <2>4. Str(u).text = u /\ Str(c.text).text = c.text
    BY DEF Str
  <2>5. SqlCompare("id", Str(u), "=", Str(c.text)) <=> u = c.text
    BY <2>4 DEF SqlCompare, Compare
  <2>6. ValuesEqual(Child(table[i], "id"), Str(c.text)) <=> u = c.text
    BY <1>3, <1>4, <2>2, <2>5, EqualsAgree
  <2>7. MatchesAll(table[i], q) <=> Matches(table[i], c, q.fuzzy)
    BY <1>1 DEF MatchesAll
  <2>8. Matches(table[i], c, q.fuzzy) <=> ValuesEqual(Child(table[i], "id"), Str(c.text))
    BY <1>1, <1>2, <1>3, <1>4 DEF Matches
  <2> QED
    BY <2>3, <2>4, <2>6, <2>7, <2>8
<1> DEFINE at == {i \in DOMAIN table : \E d \in q.conds : d.form = "plain" /\ d.text = table[i]["id"].text}
           found == ProjectFields(FilterRows(table, q), q)
<1>6. at = Matching(table, q)
  BY <1>1, <1>3, <1>5 DEF Matching
<1> HIDE DEF at
<1>7. FastSelect(table, q) = MakeQueryResult(found, Len(found), 0, 20)
  BY <1>6 DEF FastSelect, FilterRows, at
<1>8. Shaped(table, q) = FilterRows(table, q) /\ FilterRows(table, q) \in Sorted(Shaped(table, q), q.sort)
  BY <1>2, ShapesAre DEF Sorted
<1>9. Size(q) = 20 /\ ~(q.page > 0)
  BY <1>2 DEF Size
<1>10. MakeQueryResult(found, Len(found), 0, Size(q)) \in GeneralAnswers(table, q)
  <2> HIDE DEF found
  <2> QED
    BY <1>8, <1>9 DEF GeneralAnswers, found
<1>11. QueryTableRows(table, q) = GeneralAnswers(table, q)
  BY <1>3, <1>9 DEF QueryTableRows, PageOnly
<1> QED
  BY <1>7, <1>9, <1>10, <1>11

\* An answer to a well formed query is one that makeQueryResult makes.
LEMMA ResultsAre ==
  ASSUME NEW table, NEW q, q.wellFormed, NEW a \in QueryTableRows(table, q)
  PROVE  \E data, records, page, size : a = MakeQueryResult(data, records, page, size)
<1>1. CASE PageOnly(q)
  BY <1>1 DEF QueryTableRows, FastAnswer
<1>2. CASE ~PageOnly(q)
  BY <1>2 DEF QueryTableRows, GeneralAnswers
<1> QED
  BY <1>1, <1>2

\* Reading the rows as SQL rows leaves the status.
LEMMA StatusStays ==
  ASSUME NEW q, NEW a, NEW data, NEW records, NEW page, NEW size, a = MakeQueryResult(data, records, page, size)
  PROVE  a.status \in {"empty", "success"} /\ AsSqlAnswer(a, q).status = a.status
<1>1. CASE data = <<>>
  BY <1>1, EmptyIs DEF MakeQueryResult
<1>2. CASE data # <<>>
  BY <1>2, SuccessIs DEF MakeQueryResult
<1> QED
  BY <1>1, <1>2

\* "Behavior contract": whatever the table and the query, what the JSON engine
\* answers a SQL backend may answer too, where the two are meant to agree.
THEOREM BackendsAgree == Spec => []SqlAnswersLikeJson
<1>1. QueryInv => SqlAnswersLikeJson
  <2> SUFFICES ASSUME QueryInv, answer # NoQuery, NEW parameterized \in BOOLEAN, NEW strict \in BOOLEAN,
                      Portable(answer.query, rows, strict)
               PROVE  \E b \in SqlSelect(rows, answer.query, parameterized, strict) :
                        /\ b.status = answer.result.status
                        /\ answer.result.status = "success" => b = AsSqlAnswer(answer.result, answer.query)
    BY DEF SqlAnswersLikeJson, AsSqlAnswer
  <2> DEFINE q == answer.query
             a == answer.result
  <2>1. /\ config \in Configs /\ rows \in Seq(TableRows)
        /\ q \in config.asks /\ a \in Select(rows, q)
    BY DEF QueryInv, TypeInv, AnswerInv
  <2>2. IsQuery(q) /\ q.wellFormed \in BOOLEAN
    BY <2>1, UseAssumption DEF IsQuery
  <2>3. Portable(q, rows, strict)
    OBVIOUS
  <2> HIDE DEF q, a
  <2>4. a \in QueryTableRows(rows, q)
    BY <2>1, <2>2, <2>3, LookupIsScan DEF Select
  <2>5. CASE ~q.wellFormed
    <3>1. a = [status |-> "paramerr"]
      BY <2>4, <2>5 DEF QueryTableRows
    <3>2. SqlSelect(rows, q, parameterized, strict) = {[status |-> "paramerr"]}
      BY <2>5 DEF SqlSelect
    <3> QED
      BY <3>1, <3>2 DEF a, q
  <2>6. CASE q.wellFormed
    <3>1. a.status \in {"empty", "success"} /\ AsSqlAnswer(a, q).status = a.status
      BY <2>4, <2>6, ResultsAre, StatusStays
    <3>2. AsSqlAnswer(a, q) \in SqlSelect(rows, q, parameterized, strict)
      BY <2>1, <2>2, <2>3, <2>4, <2>6, <3>1, ServerMayAnswer
    <3> QED
      BY <3>1, <3>2 DEF a, q
  <2> QED
    BY <2>2, <2>5, <2>6
<1> QED
  BY <1>1, AnswersFitTheirRows, PTL
=============================================================================
