-------------------------- MODULE JsonTable_proofs --------------------------
(***************************************************************************)
(* The id index of the JSON tables leads to the right rows, for any names, *)
(* ids, values and files, and for transactions of any length.              *)
(***************************************************************************)
EXTENDS JsonTable, WellFoundedInduction, SequenceTheorems, TLAPS

Entries == UNION {[D -> Nat] : D \in SUBSET Keys}
NamesIn(st) == {st[i].table : i \in DOMAIN st}

\* Every key of the entry leads to a row of that key ...
Sound(rows, e) ==
  \A k \in DOMAIN e : e[k] \in DOMAIN rows /\ KeyOf(rows[e[k]]) = k

\* ... and every row with a key is led to, so that no key has two rows.
Full(rows, e) ==
  \A i \in DOMAIN rows : KeyOf(rows[i]) # NoId =>
    KeyOf(rows[i]) \in DOMAIN e /\ e[KeyOf(rows[i])] = i

Exact == KeysAreUnique(given)

Follows(rows, e) == e \in Entries /\ Sound(rows, e) /\ (Exact => Full(rows, e))

StoreOK(st) == st \in Seq(TableObject) /\ TablesAreUnique(st)

IndexOK(st, ix) ==
  /\ ix = [n \in NamesIn(st) |-> ix[n]]
  /\ \A i \in DOMAIN st : Follows(st[i].rows, ix[st[i].table])

(***************************************************************************)
(* The properties speak of the store and its index; the invariant adds the *)
(* saved copies, which a rollback puts back.  Full is asked for only where *)
(* the file held no id twice: a delete hides the second row of such an id. *)
(***************************************************************************)
TableInv ==
  TablesAreUnique(given) =>
    /\ StoreOK(store) /\ IndexOK(store, index)
    /\ open => StoreOK(saved[1]) /\ IndexOK(saved[1], saved[2])

-----------------------------------------------------------------------------
(* Least and greatest positions, which SelectInSeq and SelectLastInSeq are. *)

LEMMA LeastOf ==
  ASSUME NEW S, S \subseteq Nat, S # {}
  PROVE  Min(S) \in S /\ \A y \in S : Min(S) <= y
<1> DEFINE R == OpToRel(<, Nat)
<1>1. R = {ss \in Nat \X Nat : ss[1] < ss[2]}
  BY DEF OpToRel
<1>2. IsWellFoundedOn(R, Nat)
  BY NatLessThanWellFounded
<1> HIDE DEF R
<1>3. PICK x \in S : \A y \in S : <<y, x>> \notin R
  BY <1>2, WFMin
<1>4. ASSUME NEW y \in S
      PROVE  x <= y
  <2>1. x \in Nat /\ y \in Nat /\ <<y, x>> \notin R
    BY <1>3
  <2>2. ~(y < x)
    BY <1>1, <2>1
  <2> QED
    BY <2>1, <2>2
<1>5. \E z \in S : \A y \in S : z <= y
  BY <1>4
<1> QED
  BY <1>5 DEF Min

LEMMA GreatestOf ==
  ASSUME NEW S, NEW n \in Nat, S \subseteq 1..n, S # {}
  PROVE  Max(S) \in S /\ \A y \in S : Max(S) >= y
<1> DEFINE T == {z \in Nat : n - z \in S}
<1>1. PICK y \in S : TRUE
  OBVIOUS
<1>2. y \in 1..n /\ n - y \in Nat /\ n - (n - y) = y
  OBVIOUS
<1>3. n - y \in T
  BY <1>2
<1>4. PICK z \in T : \A w \in T : z <= w
  BY <1>3, LeastOf
<1>5. ASSUME NEW w \in S
      PROVE  n - z >= w
  <2>1. w \in 1..n /\ n - w \in Nat /\ n - (n - w) = w
    OBVIOUS
  <2>2. n - w \in T
    BY <2>1
  <2>3. z \in Nat /\ z <= n - w
    BY <1>4, <2>2
  <2> QED
    BY <2>1, <2>3
<1>6. n - z \in S
  BY <1>4
<1> QED
  BY <1>5, <1>6 DEF Max

LEMMA FindSpec ==
  ASSUME NEW st \in Seq(TableObject), NEW n
  PROVE  /\ Find(st, n) \in 0..Len(st)
         /\ Find(st, n) > 0 => st[Find(st, n)].table = n
         /\ Find(st, n) = 0 => \A i \in DOMAIN st : st[i].table # n
<1> DEFINE I == {i \in 1..Len(st) : st[i].table = n}
<1>0. Len(st) \in Nat /\ DOMAIN st = 1..Len(st)
  BY LenProperties
<1>1. Find(st, n) = IF I # {} THEN Min(I) ELSE 0
  BY DEF Find, SelectInSeq
<1>2. CASE I = {}
  BY <1>0, <1>1, <1>2
<1>3. CASE I # {}
  <2>1. I \subseteq Nat
    BY <1>0
  <2>2. Min(I) \in I
    BY <1>3, <2>1, LeastOf
  <2> QED
    BY <1>0, <1>1, <1>3, <2>2
<1> QED
  BY <1>2, <1>3

\* Where no two tables have one name, the table found is the one of that name.
LEMMA FindUnique ==
  ASSUME NEW st, StoreOK(st), NEW i \in DOMAIN st
  PROVE  Find(st, st[i].table) = i
<1>1. st \in Seq(TableObject) /\ DOMAIN st = 1..Len(st) /\ Len(st) \in Nat
  BY LenProperties DEF StoreOK
<1>2. Find(st, st[i].table) \in DOMAIN st /\ st[Find(st, st[i].table)].table = st[i].table
  BY <1>1, FindSpec
<1> QED
  BY <1>2 DEF StoreOK, TablesAreUnique

LEMMA LastRowSpec ==
  ASSUME NEW rows \in Seq(Row), NEW k \in KeysOf(rows)
  PROVE  LastRow(rows, k) \in DOMAIN rows /\ KeyOf(rows[LastRow(rows, k)]) = k
<1> DEFINE I == {i \in 1..Len(rows) : KeyOf(rows[i]) = k}
<1>0. Len(rows) \in Nat /\ DOMAIN rows = 1..Len(rows)
  BY LenProperties
<1>1. LastRow(rows, k) = IF I # {} THEN Max(I) ELSE 0
  BY DEF LastRow, SelectLastInSeq
<1>2. I # {} /\ I \subseteq 1..Len(rows)
  BY <1>0 DEF KeysOf
<1>3. Max(I) \in I
  BY <1>0, <1>2, GreatestOf
<1> QED
  BY <1>0, <1>1, <1>2, <1>3

-----------------------------------------------------------------------------
(* The rows of one table and their entry.                                  *)

LEMMA KeyFacts ==
  /\ NoId \notin Keys /\ Keys \subseteq Spellings
  /\ \A k \in Keys : Trim[k] = k
  /\ \A s \in Spellings : Trim[s] \in Keys
  /\ \A r \in Row : KeyOf(r) \in Keys \cup {NoId}
  /\ \A r \in Row : r.id # NoId => KeyOf(r) \in Keys
  BY TableAssumption DEF Keys, KeyOf, Row

LEMMA EntryWith ==
  ASSUME NEW e \in Entries, NEW k \in Keys, NEW i \in Nat
  PROVE  With(e, k, i) \in Entries
<1>1. PICK D \in SUBSET Keys : e \in [D -> Nat]
  BY DEF Entries
<1>2. With(e, k, i) \in [D \cup {k} -> Nat]
  BY <1>1 DEF With
<1>3. D \cup {k} \in SUBSET Keys
  OBVIOUS
<1> QED
  BY <1>2, <1>3 DEF Entries

LEMMA EntryWithout ==
  ASSUME NEW e \in Entries, NEW k
  PROVE  /\ Without(e, k) \in Entries
         /\ DOMAIN Without(e, k) = DOMAIN e \ {k}
         /\ \A j \in DOMAIN e \ {k} : Without(e, k)[j] = e[j]
<1>1. PICK D \in SUBSET Keys : e \in [D -> Nat]
  BY DEF Entries
<1>2. Without(e, k) = [j \in D \ {k} |-> e[j]]
  BY <1>1 DEF Without, Restrict
<1>3. Without(e, k) \in [D \ {k} -> Nat]
  BY <1>1, <1>2
<1>4. D \ {k} \in SUBSET Keys
  OBVIOUS
<1>5. Without(e, k) \in Entries
  BY <1>3, <1>4 DEF Entries
<1> QED
  BY <1>1, <1>2, <1>5

LEMMA NothingFollows == <<>> \in Seq(Row) /\ <<>> \in Entries /\ Follows(<<>>, <<>>)
<1>1. <<>> \in Seq(Row) /\ DOMAIN <<>> = {}
  BY EmptySeq
<1>2. <<>> = [k \in {} |-> 0]
  BY <1>1
<1>3. <<>> \in Entries
  BY <1>2 DEF Entries
<1> QED
  BY <1>1, <1>3 DEF Follows, Sound, Full

LEMMA AppendFollows ==
  ASSUME NEW rows \in Seq(Row), NEW e, Follows(rows, e), NEW row \in Row,
         KeyOf(row) # NoId, KeyOf(row) \notin DOMAIN e
  PROVE  /\ Append(rows, row) \in Seq(Row)
         /\ Follows(Append(rows, row), With(e, KeyOf(row), Len(rows) + 1))
<1> DEFINE n == Len(rows)
           k == KeyOf(row)
           new == Append(rows, row)
           f == With(e, k, n + 1)
<1>1. /\ n \in Nat /\ DOMAIN rows = 1..n
      /\ new \in Seq(Row) /\ DOMAIN new = 1..(n + 1)
      /\ \A i \in 1..n : new[i] = rows[i]
      /\ new[n + 1] = row
  BY LenProperties, AppendProperties
<1>2. k \in Keys
  BY KeyFacts
<1>3. f \in Entries
  BY <1>1, <1>2, EntryWith DEF Follows
<1>4. DOMAIN f = DOMAIN e \cup {k} /\ f[k] = n + 1 /\ \A j \in DOMAIN e : f[j] = e[j]
  BY DEF With
<1>5. Sound(new, f)
  <2> SUFFICES ASSUME NEW j \in DOMAIN f
               PROVE  f[j] \in DOMAIN new /\ KeyOf(new[f[j]]) = j
    BY DEF Sound
  <2>1. CASE j = k
    BY <1>1, <1>4, <2>1
  <2>2. CASE j \in DOMAIN e
    <3>1. e[j] \in 1..n /\ KeyOf(rows[e[j]]) = j
      BY <1>1, <2>2 DEF Follows, Sound
    <3>2. e[j] \in 1..(n + 1)
      BY <1>1, <3>1
    <3> QED
      BY <1>1, <1>4, <2>2, <3>1, <3>2
  <2> QED
    BY <1>4, <2>1, <2>2
<1>6. Exact => Full(new, f)
  <2> SUFFICES ASSUME Full(rows, e), NEW i \in DOMAIN new, KeyOf(new[i]) # NoId
               PROVE  KeyOf(new[i]) \in DOMAIN f /\ f[KeyOf(new[i])] = i
    BY DEF Follows, Full
  <2>1. CASE i = n + 1
    BY <1>1, <1>4, <2>1
  <2>2. CASE i # n + 1
    <3>1. i \in 1..n
      BY <1>1, <2>2
    <3> QED
      BY <1>1, <1>4, <3>1 DEF Full
  <2> QED
    BY <2>1, <2>2
<1> QED
  BY <1>1, <1>3, <1>5, <1>6 DEF Follows

LEMMA ReplaceFollows ==
  ASSUME NEW rows \in Seq(Row), NEW e, Follows(rows, e), NEW row \in Row,
         NEW i \in DOMAIN rows, KeyOf(row) = KeyOf(rows[i])
  PROVE  /\ ReplaceAt(rows, i, row) \in Seq(Row)
         /\ Follows(ReplaceAt(rows, i, row), e)
<1> DEFINE new == ReplaceAt(rows, i, row)
<1>1. /\ new \in Seq(Row) /\ DOMAIN new = DOMAIN rows
      /\ \A j \in DOMAIN rows : new[j] = IF j = i THEN row ELSE rows[j]
  BY ExceptSeq DEF ReplaceAt
<1>2. \A j \in DOMAIN rows : KeyOf(new[j]) = KeyOf(rows[j])
  BY <1>1
<1> QED
  BY <1>1, <1>2 DEF Follows, Sound, Full

\* What is left after a swap-pop: the last row stands in the hole.
LEMMA SwapPopRows ==
  ASSUME NEW rows \in Seq(Row), NEW i \in DOMAIN rows
  PROVE  /\ SwapPop(rows, i) \in Seq(Row)
         /\ DOMAIN SwapPop(rows, i) = 1..(Len(rows) - 1)
         /\ \A j \in 1..(Len(rows) - 1) :
              SwapPop(rows, i)[j] = IF j = i THEN rows[Len(rows)] ELSE rows[j]
<1> DEFINE n == Len(rows)
           new == SwapPop(rows, i)
<1>1. n \in Nat /\ DOMAIN rows = 1..n /\ i \in 1..n
  BY LenProperties
<1>2. rows[n] \in Row /\ Last(rows) = rows[n]
  BY <1>1, ElementOfSeq DEF Last
<1>3. /\ ReplaceAt(rows, i, rows[n]) \in Seq(Row)
      /\ Len(ReplaceAt(rows, i, rows[n])) = n
      /\ \A j \in 1..n : ReplaceAt(rows, i, rows[n])[j] = IF j = i THEN rows[n] ELSE rows[j]
  BY <1>1, <1>2, ExceptSeq DEF ReplaceAt
<1>4. new = SubSeq(ReplaceAt(rows, i, rows[n]), 1, n - 1)
  BY <1>2, <1>3 DEF SwapPop, Front
<1>5. n - 1 \in 0..n /\ 1..(n - 1) \subseteq 1..n
  BY <1>1
<1>6. /\ new \in Seq(Row) /\ Len(new) = n - 1
      /\ \A j \in 1..(n - 1) : new[j] = ReplaceAt(rows, i, rows[n])[j]
  BY <1>1, <1>3, <1>4, <1>5, SubSeqProperties
<1> QED
  BY <1>3, <1>5, <1>6, LenProperties

\* A delete: the last row fills the hole, and the entry follows it.
LEMMA SwapPopFollows ==
  ASSUME NEW rows \in Seq(Row), NEW e, Follows(rows, e), NEW id \in DOMAIN e,
         NEW f, f = IF e[id] # Len(rows) /\ KeyOf(Last(rows)) # NoId
                    THEN With(e, KeyOf(Last(rows)), e[id]) ELSE e
  PROVE  /\ SwapPop(rows, e[id]) \in Seq(Row)
         /\ Follows(SwapPop(rows, e[id]), Without(f, id))
<1> DEFINE n == Len(rows)
           i == e[id]
           m == KeyOf(rows[n])
           new == SwapPop(rows, i)
           g == Without(f, id)
<1>1. n \in Nat /\ DOMAIN rows = 1..n /\ i \in 1..n /\ KeyOf(rows[i]) = id
  BY LenProperties DEF Follows, Sound
<1>2. rows[n] \in Row /\ Last(rows) = rows[n]
  BY <1>1, ElementOfSeq DEF Last
<1>4. /\ new \in Seq(Row) /\ DOMAIN new = 1..(n - 1)
      /\ \A j \in 1..(n - 1) : new[j] = IF j = i THEN rows[n] ELSE rows[j]
  BY <1>1, SwapPopRows
<1>5. e \in Entries /\ DOMAIN e \subseteq Keys /\ m \in Keys \cup {NoId} /\ NoId \notin Keys
  BY <1>2, KeyFacts DEF Follows, Entries
<1>6. f \in Entries
  BY <1>1, <1>2, <1>5, EntryWith
<1>7. g \in Entries /\ DOMAIN g = DOMAIN f \ {id} /\ \A k \in DOMAIN g : g[k] = f[k]
  BY ZenonT(40), <1>6, EntryWithout
<1>8. ASSUME NEW k \in DOMAIN e, k # id, k # m
      PROVE  k \in DOMAIN g /\ g[k] = e[k]
  BY <1>2, <1>7, <1>8 DEF With
<1>9. ASSUME m # NoId, i # n
      PROVE  DOMAIN f = DOMAIN e \cup {m} /\ f[m] = i
  BY <1>2, <1>9 DEF With
<1>10. DOMAIN f \subseteq DOMAIN e \cup {m} /\ (m \in DOMAIN f => m \in DOMAIN e \/ i # n)
  BY <1>2 DEF With
<1>11. Sound(new, g)
  <2> SUFFICES ASSUME NEW k \in DOMAIN g
               PROVE  g[k] \in DOMAIN new /\ KeyOf(new[g[k]]) = k
    BY DEF Sound
  <2>1. k # id /\ k \in DOMAIN e \cup {m} /\ k # NoId
    BY <1>5, <1>6, <1>7, <1>10 DEF Entries
  <2>2. CASE k # m
    <3>1. g[k] = e[k] /\ e[k] \in 1..n /\ KeyOf(rows[e[k]]) = k
      BY <1>1, <1>8, <2>1, <2>2 DEF Follows, Sound
    <3>2. e[k] # i /\ e[k] # n
      BY <1>1, <2>1, <2>2, <3>1
    <3>3. e[k] \in 1..(n - 1)
      BY <1>1, <3>1, <3>2
    <3> QED
      BY <1>4, <3>1, <3>2, <3>3
  <2>3. CASE k = m
    <3>1. i # n
      BY <1>1, <2>1, <2>3
    <3>2. g[k] = i
      BY <1>7, <1>9, <2>1, <2>3, <3>1
    <3>3. i \in 1..(n - 1)
      BY <1>1, <3>1
    <3> QED
      BY <1>4, <2>3, <3>2, <3>3
  <2> QED
    BY <2>2, <2>3
<1>12. Exact => Full(new, g)
  <2> SUFFICES ASSUME Full(rows, e), NEW j \in DOMAIN new, KeyOf(new[j]) # NoId
               PROVE  KeyOf(new[j]) \in DOMAIN g /\ g[KeyOf(new[j])] = j
    BY DEF Follows, Full
  <2>0. j \in 1..(n - 1) /\ j \in 1..n /\ j # n /\ n \in 1..n
    BY <1>1, <1>4
  <2>1. m # NoId => e[m] = n
    BY <1>1, <2>0 DEF Full
  <2>2. CASE j = i
    <3>1. new[j] = rows[n] /\ m # NoId /\ i # n
      BY <1>4, <2>0, <2>2
    <3>2. m # id
      BY <2>1, <3>1
    <3> QED
      BY <1>7, <1>9, <2>2, <3>1, <3>2
  <2>3. CASE j # i
    <3> DEFINE k == KeyOf(rows[j])
    <3>1. new[j] = rows[j] /\ k # NoId
      BY <1>4, <2>0, <2>3
    <3>2. k \in DOMAIN e /\ e[k] = j
      BY <1>1, <2>0, <3>1 DEF Full
    <3>3. k # id /\ k # m
      BY <2>0, <2>1, <2>3, <3>1, <3>2
    <3> QED
      BY <1>8, <3>1, <3>2, <3>3
  <2> QED
    BY <2>2, <2>3
<1> QED
  BY <1>4, <1>7, <1>11, <1>12 DEF Follows

-----------------------------------------------------------------------------
(* The tables of a store and the whole index.                              *)

\* The index fits all tables but n, whose entry is about to be written.
FitsButFor(st, ix, n) ==
  /\ NamesIn(st) = DOMAIN ix \cup {n}
  /\ \A i \in DOMAIN st : st[i].table # n => Follows(st[i].rows, ix[st[i].table])

LEMMA StoreFacts ==
  ASSUME NEW st, StoreOK(st)
  PROVE  /\ Len(st) \in Nat /\ DOMAIN st = 1..Len(st)
         /\ \A i \in DOMAIN st : /\ st[i] \in TableObject /\ st[i].table \in Names
                                 /\ st[i].rows \in Seq(Row)
<1>1. st \in Seq(TableObject)
  BY DEF StoreOK
<1>2. Len(st) \in Nat /\ DOMAIN st = 1..Len(st)
  BY <1>1, LenProperties
<1>3. \A i \in DOMAIN st : st[i] \in TableObject
  BY <1>1, <1>2, ElementOfSeq
<1> QED
  BY <1>2, <1>3 DEF TableObject

LEMMA RebuildFits ==
  ASSUME NEW st, StoreOK(st), Exact => KeysAreUnique(st)
  PROVE  IndexOK(st, Rebuild(st))
<1> SUFFICES ASSUME NEW t \in DOMAIN st
             PROVE  Follows(st[t].rows, Rebuild(st)[st[t].table])
  BY DEF IndexOK, Rebuild, NamesIn
<1> DEFINE n == st[t].table
           rows == st[t].rows
           e == Rebuild(st)[n]
<1>0. /\ Len(st) \in Nat /\ DOMAIN st = 1..Len(st)
      /\ rows \in Seq(Row) /\ Len(rows) \in Nat /\ DOMAIN rows = 1..Len(rows)
  BY StoreFacts, LenProperties
<1>1. {j \in DOMAIN st : st[j].table = n} = {t}
  BY DEF StoreOK, TablesAreUnique
<1>2. UNION {KeysOf(st[i].rows) : i \in {j \in DOMAIN st : st[j].table = n}} = KeysOf(rows)
  BY <1>1
<1>3. ASSUME NEW k \in KeysOf(rows)
      PROVE  SelectLastInSeq(st, LAMBDA x : x.table = n /\ k \in KeysOf(x.rows)) = t
  <2> DEFINE I == {i \in 1..Len(st) : st[i].table = n /\ k \in KeysOf(st[i].rows)}
  <2>1. I = {t}
    BY <1>0, <1>1, <1>3
  <2>2. Max(I) \in I
    BY <1>0, <2>1, GreatestOf
  <2>3. SelectLastInSeq(st, LAMBDA x : x.table = n /\ k \in KeysOf(x.rows))
          = IF I # {} THEN Max(I) ELSE 0
    BY DEF SelectLastInSeq
  <2> QED
    BY <2>1, <2>2, <2>3
<1>4. n \in NamesIn(st)
  BY DEF NamesIn
<1>5. e = [k \in KeysOf(rows) |->
             LET i == SelectLastInSeq(st, LAMBDA x : x.table = n /\ k \in KeysOf(x.rows))
             IN LastRow(st[i].rows, k)]
  BY <1>2, <1>4 DEF Rebuild, NamesIn
<1>6. DOMAIN e = KeysOf(rows) /\ \A k \in KeysOf(rows) : e[k] = LastRow(rows, k)
  BY <1>3, <1>5
<1>7. \A k \in KeysOf(rows) : LastRow(rows, k) \in DOMAIN rows /\ KeyOf(rows[LastRow(rows, k)]) = k
  BY <1>0, LastRowSpec
<1>8. KeysOf(rows) \subseteq Keys
  <2>1. \A i \in DOMAIN rows : KeyOf(rows[i]) \in Keys \cup {NoId}
    BY <1>0, ElementOfSeq, KeyFacts
  <2> QED
    BY <2>1 DEF KeysOf
<1>9. e \in Entries
  <2>1. e \in [KeysOf(rows) -> Nat]
    <3>1. e = [k \in KeysOf(rows) |-> e[k]]
      BY <1>5, <1>6
    <3>2. \A k \in KeysOf(rows) : e[k] \in Nat
      BY <1>0, <1>6, <1>7
    <3> HIDE DEF e
    <3> QED
      BY <3>1, <3>2
  <2> QED
    BY <1>8, <2>1 DEF Entries
<1>10. Sound(rows, e)
  BY <1>6, <1>7 DEF Sound
<1>11. ASSUME Exact
       PROVE  Full(rows, e)
  <2> SUFFICES ASSUME NEW i \in DOMAIN rows, KeyOf(rows[i]) # NoId
               PROVE  KeyOf(rows[i]) \in DOMAIN e /\ e[KeyOf(rows[i])] = i
    BY DEF Full
  <2>1. KeyOf(rows[i]) \in KeysOf(rows)
    BY DEF KeysOf
  <2>2. e[KeyOf(rows[i])] \in DOMAIN rows
        /\ KeyOf(rows[e[KeyOf(rows[i])]]) = KeyOf(rows[i])
    BY <1>6, <1>7, <2>1
  <2>3. KeysAreUnique(st)
    BY <1>11
  <2> QED
    BY <1>6, <2>1, <2>2, <2>3 DEF KeysAreUnique
<1> QED
  BY <1>9, <1>10, <1>11 DEF Follows

\* Where the given file held no key twice, the index says that no table does.
LEMMA FittedIsUnique ==
  ASSUME NEW st, StoreOK(st), NEW ix, IndexOK(st, ix), Exact
  PROVE  KeysAreUnique(st)
<1> SUFFICES ASSUME NEW t \in DOMAIN st, NEW i \in DOMAIN st[t].rows, NEW j \in DOMAIN st[t].rows,
                    i # j, KeyOf(st[t].rows[i]) = KeyOf(st[t].rows[j])
             PROVE  KeyOf(st[t].rows[i]) = NoId
  BY DEF KeysAreUnique, StoreOK
<1>1. Full(st[t].rows, ix[st[t].table])
  BY DEF IndexOK, Follows
<1> QED
  BY <1>1 DEF Full

\* and that there is one index only that fits.
LEMMA FittedIsRebuilt ==
  ASSUME NEW st, StoreOK(st), NEW ix, IndexOK(st, ix), Exact
  PROVE  ix = Rebuild(st)
<1>1. IndexOK(st, Rebuild(st))
  BY FittedIsUnique, RebuildFits
<1>2. ASSUME NEW t \in DOMAIN st
      PROVE  ix[st[t].table] = Rebuild(st)[st[t].table]
  <2> DEFINE rows == st[t].rows
             e == ix[st[t].table]
             f == Rebuild(st)[st[t].table]
  <2>1. e \in Entries /\ Sound(rows, e) /\ Full(rows, e)
    BY DEF IndexOK, Follows
  <2>2. f \in Entries /\ Sound(rows, f) /\ Full(rows, f)
    BY <1>1 DEF IndexOK, Follows
  <2>3. NoId \notin DOMAIN e /\ NoId \notin DOMAIN f
    BY <2>1, <2>2, KeyFacts DEF Entries
  <2>4. \A k \in DOMAIN e : k \in DOMAIN f /\ f[k] = e[k]
    BY <2>1, <2>2, <2>3 DEF Sound, Full
  <2>5. \A k \in DOMAIN f : k \in DOMAIN e
    BY <2>1, <2>2, <2>3 DEF Sound, Full
  <2>6. PICK D \in SUBSET Keys : e \in [D -> Nat]
    BY <2>1 DEF Entries
  <2>7. PICK E \in SUBSET Keys : f \in [E -> Nat]
    BY <2>2 DEF Entries
  <2>8. D = E /\ \A k \in D : f[k] = e[k]
    BY <2>4, <2>5, <2>6, <2>7
  <2> QED
    BY <2>6, <2>7, <2>8
<1>3. \A n \in NamesIn(st) : ix[n] = Rebuild(st)[n]
  BY <1>2 DEF NamesIn
<1>4. /\ ix = [n \in NamesIn(st) |-> ix[n]]
      /\ Rebuild(st) = [n \in NamesIn(st) |-> Rebuild(st)[n]]
  BY <1>1 DEF IndexOK
<1>5. [n \in NamesIn(st) |-> ix[n]] = [n \in NamesIn(st) |-> Rebuild(st)[n]]
  BY <1>3
<1> QED
  BY <1>4, <1>5

\* Writing the rows and the entry of one table.
LEMMA TableWritten ==
  ASSUME NEW st, StoreOK(st), NEW ix, NEW n, FitsButFor(st, ix, n),
         NEW rows \in Seq(Row), NEW e, Follows(rows, e)
  PROVE  /\ StoreOK(WithRows(st, n, rows))
         /\ IndexOK(WithRows(st, n, rows), With(ix, n, e))
<1> DEFINE new == WithRows(st, n, rows)
           f == Find(st, n)
<1>1. PICK t \in DOMAIN st : st[t].table = n
  BY DEF FitsButFor, NamesIn
<1>2. f = t
  BY <1>1, FindUnique
<1>3. /\ Len(st) \in Nat /\ DOMAIN st = 1..Len(st)
      /\ \A i \in DOMAIN st : /\ st[i] \in TableObject /\ st[i].table \in Names
                              /\ st[i].rows \in Seq(Row)
  BY StoreFacts
<1>4. new = [st EXCEPT ![t] = [st[t] EXCEPT !.rows = rows]]
  BY <1>2 DEF WithRows
<1>5. /\ [st[t] EXCEPT !.rows = rows] \in TableObject
      /\ [st[t] EXCEPT !.rows = rows].table = n
      /\ [st[t] EXCEPT !.rows = rows].rows = rows
  BY <1>1, <1>3 DEF TableObject
<1>6. /\ new \in Seq(TableObject) /\ DOMAIN new = DOMAIN st
      /\ new[t].table = n /\ new[t].rows = rows
      /\ \A i \in DOMAIN st : i # t => new[i] = st[i]
  BY <1>3, <1>4, <1>5, ExceptSeq DEF StoreOK
<1>7. \A i \in DOMAIN st : new[i].table = st[i].table
  BY <1>1, <1>6
<1>8. StoreOK(new)
  BY <1>6, <1>7 DEF StoreOK, TablesAreUnique
<1>9. NamesIn(new) = DOMAIN ix \cup {n}
  BY <1>6, <1>7 DEF NamesIn, FitsButFor
<1>10. ASSUME NEW i \in DOMAIN new
       PROVE  Follows(new[i].rows, With(ix, n, e)[new[i].table])
  <2>1. CASE i = t
    BY <1>6, <2>1 DEF With
  <2>2. CASE i # t
    <3>1. st[i].table # n /\ st[i].table \in DOMAIN ix
      BY <1>1, <1>6, <2>2 DEF StoreOK, TablesAreUnique, FitsButFor, NamesIn
    <3> QED
      BY <1>6, <2>2, <3>1 DEF With, FitsButFor
  <2> QED
    BY <2>1, <2>2
<1>11. With(ix, n, e) = [m \in NamesIn(new) |-> With(ix, n, e)[m]]
  BY <1>9 DEF With
<1> QED
  BY <1>8, <1>10, <1>11 DEF IndexOK

\* Writing the entry alone.
LEMMA EntryWritten ==
  ASSUME NEW st, StoreOK(st), NEW ix, NEW n, FitsButFor(st, ix, n),
         NEW e, Follows(Rows(st, n), e)
  PROVE  IndexOK(st, With(ix, n, e))
<1>1. With(ix, n, e) = [m \in NamesIn(st) |-> With(ix, n, e)[m]]
  BY DEF With, FitsButFor
<1>2. ASSUME NEW i \in DOMAIN st
      PROVE  Follows(st[i].rows, With(ix, n, e)[st[i].table])
  <2>1. CASE st[i].table = n
    <3>1. Rows(st, n) = st[i].rows
      BY <2>1, FindUnique DEF Rows
    <3> QED
      BY <2>1, <3>1 DEF With
  <2>2. CASE st[i].table # n
    <3>1. st[i].table \in DOMAIN ix
      BY <2>2 DEF FitsButFor, NamesIn
    <3> QED
      BY <2>2, <3>1 DEF With, FitsButFor
  <2> QED
    BY <2>1, <2>2
<1> QED
  BY <1>1, <1>2 DEF IndexOK

LEMMA FoundTable ==
  ASSUME NEW st, StoreOK(st), NEW ix, IndexOK(st, ix), NEW n, Find(st, n) > 0
  PROVE  /\ n \in DOMAIN ix
         /\ FitsButFor(st, ix, n)
         /\ Rows(st, n) \in Seq(Row)
         /\ Follows(Rows(st, n), ix[n])
<1>1. DOMAIN st = 1..Len(st) /\ Len(st) \in Nat /\ \A i \in DOMAIN st : st[i].rows \in Seq(Row)
  BY StoreFacts
<1>2. Find(st, n) \in DOMAIN st /\ st[Find(st, n)].table = n
  BY <1>1, FindSpec DEF StoreOK
<1>3. DOMAIN ix = NamesIn(st)
  BY DEF IndexOK
<1> QED
  BY <1>1, <1>2, <1>3 DEF IndexOK, FitsButFor, NamesIn, Rows

\* ensureTable(): the new table is empty, and has no entry yet.
LEMMA Ensured ==
  ASSUME NEW st, StoreOK(st), NEW ix, IndexOK(st, ix), NEW n \in Names,
         NEW e, e = IF n \in DOMAIN ix THEN ix[n] ELSE <<>>
  PROVE  /\ StoreOK(EnsureTable(st, n))
         /\ FitsButFor(EnsureTable(st, n), ix, n)
         /\ Rows(EnsureTable(st, n), n) \in Seq(Row)
         /\ Follows(Rows(EnsureTable(st, n), n), e)
<1> DEFINE new == EnsureTable(st, n)
           t == [table |-> n, rows |-> <<>>]
           l == Len(st)
<1>1. DOMAIN st = 1..l /\ l \in Nat
  BY StoreFacts
<1>2. CASE Find(st, n) > 0
  BY <1>2, FoundTable DEF EnsureTable
<1>3. CASE ~(Find(st, n) > 0)
  <2>1. \A i \in DOMAIN st : st[i].table # n
    BY <1>1, <1>3, FindSpec DEF StoreOK
  <2>2. t \in TableObject
    BY NothingFollows DEF TableObject
  <2>3. /\ new = Append(st, t)
        /\ new \in Seq(TableObject) /\ DOMAIN new = 1..(l + 1)
        /\ \A i \in 1..l : new[i] = st[i]
        /\ new[l + 1] = t
    BY <1>1, <1>3, <2>2, AppendProperties, LenProperties DEF EnsureTable, StoreOK
  <2>4. /\ DOMAIN new = DOMAIN st \cup {l + 1} /\ l + 1 \notin DOMAIN st
        /\ \A i \in DOMAIN st : new[i] = st[i]
    BY <1>1, <2>3
  <2>5. StoreOK(new)
    BY <2>1, <2>3, <2>4 DEF StoreOK, TablesAreUnique
  <2>6. DOMAIN ix = NamesIn(st) /\ n \notin DOMAIN ix
    BY <2>1 DEF IndexOK, NamesIn
  <2>7. NamesIn(new) = DOMAIN ix \cup {n}
    <3>1. NamesIn(new) = NamesIn(st) \cup {new[l + 1].table}
      BY <2>4 DEF NamesIn
    <3> QED
      BY <2>3, <2>6, <3>1
  <2>8. FitsButFor(new, ix, n)
    BY <2>3, <2>4, <2>7 DEF FitsButFor, IndexOK
  <2>9. Rows(new, n) = <<>>
    <3>1. Find(new, new[l + 1].table) = l + 1
      BY <2>4, <2>5, FindUnique
    <3> QED
      BY <2>3, <3>1 DEF Rows
  <2> QED
    BY <2>5, <2>6, <2>8, <2>9, NothingFollows
<1> QED
  BY <1>2, <1>3

\* The positions that RemoveAt() leaves.
Before(f, j) == IF j < f THEN j ELSE j + 1

LEMMA RemoveAtSpec ==
  ASSUME NEW S, NEW s \in Seq(S), NEW f \in 1..Len(s)
  PROVE  /\ RemoveAt(s, f) \in Seq(S)
         /\ DOMAIN RemoveAt(s, f) = 1..(Len(s) - 1)
         /\ \A j \in 1..(Len(s) - 1) : RemoveAt(s, f)[j] = s[Before(f, j)]
<1> DEFINE l == Len(s)
           a == SubSeq(s, 1, f - 1)
           b == SubSeq(s, f + 1, l)
<1>1. l \in Nat /\ f \in 1..l /\ DOMAIN s = 1..l /\ \A j \in 1..l : s[j] \in S
  BY LenProperties, ElementOfSeq
<1>2. a \in Seq(S) /\ Len(a) = f - 1 /\ \A j \in 1..(f - 1) : a[j] = s[j]
  <2>1. f - 1 \in Int /\ \A j \in 1..(f - 1) : s[j] \in S
    BY <1>1
  <2>2. /\ a \in Seq(S)
        /\ Len(a) = (IF 1 <= f - 1 THEN (f - 1) - 1 + 1 ELSE 0)
        /\ \A j \in 1..((f - 1) - 1 + 1) : a[j] = s[1 + j - 1]
    BY <2>1, SubSeqProperties
  <2>3. ASSUME NEW j \in 1..(f - 1)
        PROVE  a[j] = s[j]
    <3>1. j \in 1..((f - 1) - 1 + 1) /\ 1 + j - 1 = j
      BY <1>1
    <3> QED
      BY <2>2, <3>1
  <2>4. Len(a) = f - 1
    BY <1>1, <2>2
  <2> QED
    BY <2>2, <2>3, <2>4
<1>3. b \in Seq(S) /\ Len(b) = l - f /\ \A j \in 1..(l - f) : b[j] = s[f + j]
  <2>1. f + 1 \in Int /\ l \in Int /\ \A j \in (f + 1)..l : s[j] \in S
    BY <1>1
  <2>2. /\ b \in Seq(S)
        /\ Len(b) = (IF f + 1 <= l THEN l - (f + 1) + 1 ELSE 0)
        /\ \A j \in 1..(l - (f + 1) + 1) : b[j] = s[(f + 1) + j - 1]
    BY <2>1, SubSeqProperties
  <2>3. ASSUME NEW j \in 1..(l - f)
        PROVE  b[j] = s[f + j]
    <3>1. j \in 1..(l - (f + 1) + 1) /\ (f + 1) + j - 1 = f + j
      BY <1>1
    <3> QED
      BY <2>2, <3>1
  <2>4. Len(b) = l - f
    <3>1. l \in Nat /\ f \in Nat /\ f <= l
      BY <1>1
    <3> HIDE DEF l, a, b
    <3>2. CASE f = l
      <4>1. ~(f + 1 <= l) /\ l - f = 0
        BY <3>1, <3>2
      <4> QED
        BY <2>2, <4>1
    <3>3. CASE f < l
      <4>1. f + 1 <= l /\ l - (f + 1) + 1 = l - f
        BY <3>1, <3>3
      <4> QED
        BY <2>2, <4>1
    <3> QED
      BY <3>1, <3>2, <3>3
  <2> QED
    BY <2>2, <2>3, <2>4
<1> HIDE DEF a, b
<1>4. /\ a \o b \in Seq(S) /\ Len(a \o b) = l - 1
      /\ \A j \in 1..(l - 1) : (a \o b)[j] = (IF j <= f - 1 THEN a[j] ELSE b[j - (f - 1)])
  <2>1. Len(a) + Len(b) = l - 1
    BY <1>1, <1>2, <1>3
  <2>2. /\ a \o b \in Seq(S) /\ Len(a \o b) = Len(a) + Len(b)
        /\ \A j \in 1..(Len(a) + Len(b)) :
             (a \o b)[j] = (IF j <= Len(a) THEN a[j] ELSE b[j - Len(a)])
    BY <1>2, <1>3, ConcatProperties
  <2> QED
    BY <1>2, <2>1, <2>2
<1>5. DOMAIN (a \o b) = 1..(l - 1)
  BY <1>4, LenProperties
<1>6. ASSUME NEW j \in 1..(l - 1)
      PROVE  (a \o b)[j] = s[Before(f, j)]
  <2>1. CASE j < f
    <3>1. j \in 1..(f - 1)
      BY <1>1, <2>1
    <3> QED
      BY <1>2, <1>4, <2>1, <3>1 DEF Before
  <2>2. CASE ~(j < f)
    <3>1. j - (f - 1) \in 1..(l - f) /\ f + (j - (f - 1)) = j + 1 /\ ~(j <= f - 1)
      BY <1>1, <2>2
    <3>2. b[j - (f - 1)] = s[j + 1]
      BY <1>3, <3>1
    <3> QED
      BY <1>4, <2>2, <3>1, <3>2 DEF Before
  <2> QED
    BY <2>1, <2>2
<1> QED
  BY <1>4, <1>5, <1>6 DEF RemoveAt, a, b

LEMMA Dropped ==
  ASSUME NEW st, StoreOK(st), NEW ix, IndexOK(st, ix), NEW n, Find(st, n) > 0
  PROVE  /\ StoreOK(RemoveAt(st, Find(st, n)))
         /\ IndexOK(RemoveAt(st, Find(st, n)), Without(ix, n))
<1> DEFINE f == Find(st, n)
           l == Len(st)
           new == RemoveAt(st, f)
           old(j) == Before(f, j)
<1>1. l \in Nat /\ DOMAIN st = 1..l /\ st \in Seq(TableObject)
  BY StoreFacts DEF StoreOK
<1>2. f \in 1..l /\ st[f].table = n
  BY <1>1, FindSpec
<1>4. /\ new \in Seq(TableObject) /\ DOMAIN new = 1..(l - 1)
      /\ \A j \in 1..(l - 1) : new[j] = st[old(j)]
  BY <1>1, <1>2, RemoveAtSpec
<1>5. \A j \in 1..(l - 1) : old(j) \in 1..l \ {f}
  BY <1>1, <1>2 DEF Before
<1>6. \A i, j \in 1..(l - 1) : i # j => old(i) # old(j)
  BY <1>1, <1>2 DEF Before
<1>7. \A i \in 1..l \ {f} : \E j \in 1..(l - 1) : old(j) = i
  <2> SUFFICES ASSUME NEW i \in 1..l \ {f}
               PROVE  \E j \in 1..(l - 1) : old(j) = i
    OBVIOUS
  <2>1. CASE i < f
    <3>1. i \in 1..(l - 1) /\ old(i) = i
      BY <1>1, <1>2, <2>1 DEF Before
    <3> QED
      BY <3>1
  <2>2. CASE i > f
    <3>1. i - 1 \in 1..(l - 1) /\ old(i - 1) = i
      BY <1>1, <1>2, <2>2 DEF Before
    <3> QED
      BY <3>1
  <2> QED
    BY <1>1, <1>2, <2>1, <2>2
<1> HIDE DEF old, new, f
<1>8. StoreOK(new)
  BY <1>1, <1>4, <1>5, <1>6 DEF StoreOK, TablesAreUnique
<1>9. NamesIn(new) = NamesIn(st) \ {n}
  <2>1. \A j \in DOMAIN new : new[j].table \in NamesIn(st) \ {n}
    BY SMTT(30), <1>1, <1>2, <1>4, <1>5 DEF NamesIn, StoreOK, TablesAreUnique
  <2>2. \A i \in DOMAIN st : st[i].table # n => st[i].table \in NamesIn(new)
    BY ZenonT(40), <1>1, <1>2, <1>4, <1>7 DEF NamesIn
  <2> QED
    BY <2>1, <2>2 DEF NamesIn
<1>10. DOMAIN ix = NamesIn(st)
  BY DEF IndexOK
<1>11. /\ Without(ix, n) = [m \in NamesIn(new) |-> Without(ix, n)[m]]
       /\ \A m \in NamesIn(new) : Without(ix, n)[m] = ix[m]
  BY <1>9, <1>10 DEF Without, Restrict
<1>12. ASSUME NEW j \in DOMAIN new
       PROVE  Follows(new[j].rows, Without(ix, n)[new[j].table])
  <2>1. old(j) \in DOMAIN st /\ new[j] = st[old(j)]
    BY <1>1, <1>4, <1>5
  <2>2. Without(ix, n)[new[j].table] = ix[st[old(j)].table]
    BY <1>11, <2>1 DEF NamesIn
  <2> QED
    BY <2>1, <2>2 DEF IndexOK
<1> QED
  BY <1>8, <1>11, <1>12 DEF IndexOK, f, new

-----------------------------------------------------------------------------
(* The steps of a transaction.                                             *)

LEMMA InitTableInv == Init => TableInv
<1> SUFFICES ASSUME Init, TablesAreUnique(given)
             PROVE  StoreOK(store) /\ IndexOK(store, index) /\ ~open
  BY DEF TableInv
<1>1. StoreOK(store)
  BY TableAssumption DEF Init, StoreOK
<1> QED
  BY <1>1, RebuildFits DEF Init, Exact

\* A step that leaves the store and its index fitting keeps the invariant.
LEMMA FittingStep ==
  ASSUME TableInv, TablesAreUnique(given), given' = given,
         NEW st, NEW ix, Step(st, ix), StoreOK(st), IndexOK(st, ix)
  PROVE  TableInv'
  BY DEF TableInv, Step, StoreOK, IndexOK, Follows, Exact

LEMMA UpsertKeeps ==
  ASSUME TableInv, TablesAreUnique(given), given' = given,
         NEW n \in Names, NEW s \in Spellings, NEW v \in Values, Upsert(n, [id |-> s, val |-> v])
  PROVE  TableInv'
<1> DEFINE row == [id |-> s, val |-> v]
           st == EnsureTable(store, n)
           rows == Rows(st, n)
           e == EntryOf(n)
           k == KeyOf(row)
<1>1. /\ StoreOK(st) /\ FitsButFor(st, index, n)
      /\ rows \in Seq(Row) /\ Follows(rows, e)
  BY Ensured DEF TableInv, EntryOf
<1>2. row \in Row /\ k \in Keys /\ k # NoId
  <2>1. row \in Row /\ row.id \in Spellings
    BY DEF Row
  <2>2. row.id # NoId /\ k = Trim[s]
    BY TableAssumption, <2>1 DEF KeyOf
  <2>3. k \in Keys
    BY <2>2 DEF Keys
  <2> QED
    BY <2>1, <2>3, KeyFacts
<1>3. CASE k \in DOMAIN e
  <2> DEFINE new == SetElement(rows, e[k], row)
  <2>1. e[k] \in DOMAIN rows /\ KeyOf(rows[e[k]]) = k
    BY <1>1, <1>3 DEF Follows, Sound
  <2>2. new \in Seq(Row) /\ Follows(new, e)
    BY <1>1, <1>2, <2>1, ReplaceFollows DEF SetElement
  <2>3. StoreOK(WithRows(st, n, new)) /\ IndexOK(WithRows(st, n, new), With(index, n, e))
    BY <1>1, <2>2, TableWritten
  <2>4. Step(WithRows(st, n, new), With(index, n, e))
    BY <1>3 DEF Upsert
  <2> QED
    BY <2>3, <2>4, FittingStep
<1>4. CASE k \notin DOMAIN e
  <2> DEFINE new == Append(rows, row)
             f == With(e, k, Len(rows) + 1)
  <2>1. new \in Seq(Row) /\ Follows(new, f)
    BY <1>1, <1>2, <1>4, AppendFollows
  <2>2. StoreOK(WithRows(st, n, new)) /\ IndexOK(WithRows(st, n, new), With(index, n, f))
    BY <1>1, <2>1, TableWritten
  <2>3. Step(WithRows(st, n, new), With(index, n, f))
    BY <1>4 DEF Upsert
  <2> QED
    BY <2>2, <2>3, FittingStep
<1> QED
  BY <1>3, <1>4

LEMMA UpdateKeeps ==
  ASSUME TableInv, TablesAreUnique(given), given' = given,
         NEW n \in Names, NEW id \in Spellings, NEW v \in Values, Update(n, id, v)
  PROVE  TableInv'
<1> DEFINE row == [id |-> id, val |-> v]
           rows == Rows(store, n)
           e == EntryOf(n)
           new == SetElement(rows, Position(n, id), row)
<1>1. /\ StoreOK(store) /\ FitsButFor(store, index, n)
      /\ rows \in Seq(Row) /\ Follows(rows, e)
  BY FoundTable DEF Update, TableInv, EntryOf
<1>2. new \in Seq(Row) /\ Follows(new, e)
  <2>1. CASE id \in DOMAIN e
    <3>1. e[id] \in DOMAIN rows /\ KeyOf(rows[e[id]]) = id /\ id \in Keys
      BY <1>1, <2>1 DEF Follows, Sound, Entries
    <3>2. row \in Row /\ KeyOf(row) = id
      BY <3>1, KeyFacts DEF Row, KeyOf
    <3>3. new = ReplaceAt(rows, e[id], row)
      BY <2>1, <3>1 DEF SetElement, Position
    <3> QED
      BY <1>1, <3>1, <3>2, <3>3, ReplaceFollows
  <2>2. CASE id \notin DOMAIN e
    <3>1. 0 \notin DOMAIN rows
      BY <1>1, LenProperties
    <3>2. new = rows
      BY <2>2, <3>1 DEF SetElement, Position
    <3> QED
      BY <1>1, <3>2
  <2> QED
    BY <2>1, <2>2
<1>3. StoreOK(WithRows(store, n, new)) /\ IndexOK(WithRows(store, n, new), With(index, n, e))
  BY <1>1, <1>2, TableWritten
<1>4. Step(WithRows(store, n, new), With(index, n, e))
  BY DEF Update
<1> QED
  BY <1>3, <1>4, FittingStep

LEMMA DeleteKeeps ==
  ASSUME TableInv, TablesAreUnique(given), given' = given,
         NEW n \in Names, NEW id \in Spellings, Delete(n, id)
  PROVE  TableInv'
<1> DEFINE rows == Rows(store, n)
           e == EntryOf(n)
           i == Position(n, id)
           m == KeyOf(Last(rows))
           f == IF i # Len(rows) /\ m # NoId THEN With(e, m, i) ELSE e
<1>1. /\ StoreOK(store) /\ FitsButFor(store, index, n)
      /\ rows \in Seq(Row) /\ Follows(rows, e)
  BY FoundTable DEF Delete, TableInv, EntryOf
<1>2. CASE id \in DOMAIN e
  <2>1. i = e[id] /\ i \in DOMAIN rows
    BY <1>1, <1>2 DEF Position, Follows, Sound
  <2>2. SwapPop(rows, i) \in Seq(Row) /\ Follows(SwapPop(rows, i), Without(f, id))
    BY <1>1, <1>2, <2>1, SwapPopFollows
  <2>3. /\ StoreOK(WithRows(store, n, SwapPop(rows, i)))
        /\ IndexOK(WithRows(store, n, SwapPop(rows, i)), With(index, n, Without(f, id)))
    BY <1>1, <2>2, TableWritten
  <2>4. Step(WithRows(store, n, SwapPop(rows, i)), With(index, n, Without(f, id)))
    BY <2>1 DEF Delete
  <2> QED
    BY <2>3, <2>4, FittingStep
<1>3. CASE id \notin DOMAIN e
  <2>1. i = 0 /\ i \notin DOMAIN rows
    BY <1>1, <1>3, LenProperties DEF Position
  <2>2. Follows(rows, Without(e, id))
    <3>1. e \in Entries
      BY <1>1 DEF Follows
    <3> DEFINE w == Without(e, id)
    <3>2. w \in Entries /\ DOMAIN w = DOMAIN e /\ \A x \in DOMAIN w : w[x] = e[x]
      BY <1>3, <3>1, EntryWithout
    <3> HIDE DEF w, e, i, m, f, rows
    <3>3. Sound(rows, w)
      BY <1>1, <3>2 DEF Follows, Sound
    <3>4. Exact => Full(rows, w)
      BY <1>1, <3>2 DEF Follows, Full
    <3> QED
      BY <3>2, <3>3, <3>4 DEF Follows, w
  <2>3. IndexOK(store, With(index, n, Without(e, id)))
    BY <1>1, <2>2, EntryWritten
  <2>4. Step(store, With(index, n, Without(e, id)))
    BY <2>1 DEF Delete
  <2> QED
    BY <1>1, <2>3, <2>4, FittingStep
<1> QED
  BY <1>2, <1>3

LEMMA CreateTableKeeps ==
  ASSUME TableInv, TablesAreUnique(given), given' = given, NEW n \in Names, CreateTable(n)
  PROVE  TableInv'
<1> DEFINE st == EnsureTable(store, n)
<1>1. /\ StoreOK(st) /\ FitsButFor(st, index, n)
      /\ Follows(Rows(st, n), EntryOf(n))
  BY Ensured DEF TableInv, EntryOf
<1>2. IndexOK(st, With(index, n, EntryOf(n)))
  BY <1>1, EntryWritten
<1>3. Step(st, With(index, n, EntryOf(n)))
  BY DEF CreateTable
<1> QED
  BY <1>1, <1>2, <1>3, FittingStep

LEMMA DropTableKeeps ==
  ASSUME TableInv, TablesAreUnique(given), given' = given, NEW n \in Names, DropTable(n)
  PROVE  TableInv'
<1> DEFINE st == RemoveAt(store, Find(store, n))
<1>1. StoreOK(st) /\ IndexOK(st, Without(index, n))
  BY Dropped DEF DropTable, TableInv
<1>2. Step(st, Without(index, n))
  BY DEF DropTable
<1> QED
  BY <1>1, <1>2, FittingStep

LEMMA TableInvKept == TableInv /\ [Next]_<<given, tableVars>> => TableInv'
<1> SUFFICES ASSUME TableInv, [Next]_<<given, tableVars>>, TablesAreUnique(given)'
             PROVE  TableInv'
  BY DEF TableInv
<1>0. given' = given /\ TablesAreUnique(given)
  BY DEF Next, TablesAreUnique
<1> USE <1>0
<1>1. CASE Begin
  <2>1. StoreOK(store) /\ IndexOK(store, index)
    BY DEF TableInv
  <2>2. IndexOK(store, Rebuild(store))
    BY <2>1, FittedIsUnique, RebuildFits
  <2> QED
    BY <1>1, <2>1, <2>2 DEF Begin, TableInv, StoreOK, IndexOK, Follows, Exact
<1>2. CASE Commit \/ Rollback \/ UNCHANGED tableVars
  BY <1>2 DEF Commit, Rollback, tableVars, TableInv, StoreOK, IndexOK, Follows, Exact
<1>3. ASSUME NEW n \in Names, NEW s \in Spellings, NEW v \in Values,
             \/ CreateRow(n, s, v) \/ UpdateRow(n, s, v) \/ UpdateElement(n, s, v)
             \/ SqlInsert(n, s, v) \/ SqlUpdate(n, s, v)
      PROVE  TableInv'
  <2>1. Trim[s] \in Spellings
    BY TableAssumption
  <2>2. ASSUME NEW id \in Spellings, n \notin DOMAIN index
        PROVE  ~UpdateScanned(n, id, v)
    BY <2>2, FoundTable DEF UpdateScanned, TableInv
  <2> QED
    BY <1>3, <2>1, <2>2, UpsertKeeps, UpdateKeeps, CreateTableKeeps
       DEF CreateRow, UpdateRow, UpdateElement, SqlInsert, SqlUpdate
<1>4. ASSUME NEW n \in Names, NEW s \in Spellings,
             RemoveRow(n, s) \/ DeleteElement(n, s) \/ SqlDelete(n, s)
      PROVE  TableInv'
  <2>1. Trim[s] \in Spellings
    BY TableAssumption
  <2>2. ASSUME NEW id \in Spellings, n \notin DOMAIN index
        PROVE  ~DeleteScanned(n, id)
    BY <2>2, FoundTable DEF DeleteScanned, TableInv
  <2> QED
    BY <1>4, <2>1, <2>2, DeleteKeeps, CreateTableKeeps DEF RemoveRow, DeleteElement, SqlDelete
<1> QED
  BY <1>1, <1>2, <1>3, <1>4, CreateTableKeeps, DropTableKeeps DEF Next

LEMMA TableInvariant == Spec => []TableInv
  BY InitTableInv, TableInvKept, PTL DEF Spec

\* For any names, ids and files that name no table twice, and after any steps of
\* any transactions, rolled back or not: an id leads to no row of another id.
THEOREM IdsLeadToTheirRows == Spec => []IndexNamesItsRows
<1>1. TableInv => IndexNamesItsRows
  <2> SUFFICES ASSUME TableInv, TablesAreUnique(given),
                      NEW n \in DOMAIN index, NEW k \in DOMAIN index[n]
               PROVE  /\ Find(store, n) > 0
                      /\ index[n][k] \in DOMAIN Rows(store, n)
                      /\ KeyOf(Rows(store, n)[index[n][k]]) = k
    BY DEF IndexNamesItsRows
  <2>1. StoreOK(store) /\ IndexOK(store, index)
    BY DEF TableInv
  <2>2. PICK t \in DOMAIN store : store[t].table = n
    BY <2>1 DEF IndexOK, NamesIn
  <2>3. Find(store, n) = t /\ t > 0
    BY <2>1, <2>2, FindUnique, StoreFacts
  <2>4. Follows(store[t].rows, index[n])
    BY <2>1, <2>2 DEF IndexOK
  <2> QED
    BY <2>3, <2>4 DEF Follows, Sound, Rows
<1> QED
  BY TableInvariant, <1>1, PTL

\* Where the file held no id twice, the index is at every point of a transaction
\* what a rebuild would make of the tables.
THEOREM IndexIsRebuilt == Spec => []IndexTracksRows
<1>1. TableInv => IndexTracksRows
  BY FittedIsRebuilt DEF TableInv, IndexTracksRows, Exact, KeysAreUnique
<1> QED
  BY TableInvariant, <1>1, PTL

\* Where the file held no id twice and a scan equates the spellings of a key, a
\* lookup by an id that is no comparison and not "null" answers after any
\* transactions what a scan would.
THEOREM FastPathIsScan == Spec => []FastPathAgreesWithScan
<1>1. TableInv => FastPathAgreesWithScan
  <2> SUFFICES ASSUME TableInv, ClassesAreKeys, KeysAreUnique(given),
                      NEW n \in DOMAIN index, NEW s \in Texts \ DOMAIN Special, Find(store, n) > 0
               PROVE  FastPath(n, s) = Scan(n, s)
    BY DEF FastPathAgreesWithScan
  <2> DEFINE rows == Rows(store, n)
             e == index[n]
  <2>1. rows \in Seq(Row) /\ Follows(rows, e)
    BY FoundTable DEF TableInv, KeysAreUnique
  <2>2. Sound(rows, e) /\ Full(rows, e)
    BY <2>1 DEF Follows, Exact
  <2>3. s \in Spellings /\ s # NoId /\ Trim[s] = s /\ NoId \notin Spellings
    BY KeyFacts, TableAssumption DEF Texts
  <2>4. ASSUME NEW i \in DOMAIN rows
        PROVE  rows[i].id \in Asks(s) <=> KeyOf(rows[i]) = s
    <3> HIDE DEF rows, e
    <3>1. rows[i] \in Row
      BY <2>1, ElementOfSeq, LenProperties
    <3>2. rows[i].id \in Spellings \cup {NoId}
      BY <3>1 DEF Row
    <3> QED
      BY <2>3, <3>2 DEF KeyOf, ClassesAreKeys, Asks
  <2>5. ASSUME NEW i \in DOMAIN rows
        PROVE  KeyOf(rows[i]) = s <=> s \in DOMAIN e /\ i = e[s]
    BY <2>2, <2>3 DEF Sound, Full
  <2> QED
    BY <2>4, <2>5 DEF FastPath, Scan
<1> QED
  BY TableInvariant, <1>1, PTL

-----------------------------------------------------------------------------
(* The tables implement the maps of TableMap.                             *)

(***************************************************************************)
(* What the map of a table is depends on the set of its rows alone, not on *)
(* their order, which a delete changes.                                    *)
(***************************************************************************)
Content(rows) == {rows[i] : i \in DOMAIN rows}
OneRowPerKey(R) == \A q, r \in R : KeyOf(q) = KeyOf(r) /\ KeyOf(r) # NoId => q = r
Others(R, k) == {r \in R : KeyOf(r) # k}

MapOf(R) ==
  [k \in {KeyOf(r) : r \in R} |->
     IF k = NoId THEN {r.val : r \in {q \in R : KeyOf(q) = NoId}}
     ELSE (CHOOSE r \in R : KeyOf(r) = k).val]

TableMaps(st) == [n \in NamesIn(st) |-> RowsAsMap(Rows(st, n))]

LEMMA ContentMap ==
  ASSUME NEW rows \in Seq(Row), OneRowPerKey(Content(rows))
  PROVE  RowsAsMap(rows) = MapOf(Content(rows))
<1> DEFINE R == Content(rows)
<1>1. {KeyOf(rows[i]) : i \in DOMAIN rows} = {KeyOf(r) : r \in R}
  BY DEF Content
<1>2. {rows[i].val : i \in {j \in DOMAIN rows : KeyOf(rows[j]) = NoId}}
        = {r.val : r \in {q \in R : KeyOf(q) = NoId}}
  BY DEF Content
<1>3. ASSUME NEW k \in {KeyOf(r) : r \in R}, k # NoId
      PROVE  rows[SelectInSeq(rows, LAMBDA r : KeyOf(r) = k)] = CHOOSE r \in R : KeyOf(r) = k
  <2> DEFINE I == {i \in 1..Len(rows) : KeyOf(rows[i]) = k}
  <2>1. Len(rows) \in Nat /\ DOMAIN rows = 1..Len(rows)
    BY LenProperties
  <2>2. I # {} /\ I \subseteq Nat
    BY <2>1 DEF Content
  <2>3. SelectInSeq(rows, LAMBDA r : KeyOf(r) = k) = Min(I)
    BY <2>2 DEF SelectInSeq
  <2>4. Min(I) \in I
    BY <2>2, LeastOf
  <2>5. rows[Min(I)] \in R /\ KeyOf(rows[Min(I)]) = k
    BY <2>1, <2>4 DEF Content
  <2>6. \A r \in R : KeyOf(r) = k => r = rows[Min(I)]
    BY <1>3, <2>5 DEF OneRowPerKey
  <2> QED
    BY <2>3, <2>5, <2>6
<1> QED
  BY <1>1, <1>2, <1>3 DEF RowsAsMap, MapOf

LEMMA FullContent ==
  ASSUME NEW rows \in Seq(Row), NEW e, Follows(rows, e), Exact
  PROVE  /\ OneRowPerKey(Content(rows))
         /\ RowsAsMap(rows) = MapOf(Content(rows))
         /\ \A k \in DOMAIN RowsAsMap(rows) : k # NoId => k \in DOMAIN e
         /\ DOMAIN e \subseteq DOMAIN RowsAsMap(rows)
<1>1. Full(rows, e) /\ Sound(rows, e)
  BY DEF Follows
<1>2. OneRowPerKey(Content(rows))
  BY <1>1 DEF Full, OneRowPerKey, Content
<1>3. DOMAIN RowsAsMap(rows) = {KeyOf(rows[i]) : i \in DOMAIN rows}
  BY DEF RowsAsMap
<1> QED
  BY <1>1, <1>2, <1>3, ContentMap DEF Full, Sound

LEMMA MapPut ==
  ASSUME NEW R, OneRowPerKey(R), NEW row, KeyOf(row) # NoId
  PROVE  MapOf(Others(R, KeyOf(row)) \cup {row}) = Map!With(MapOf(R), KeyOf(row), row.val)
<1> DEFINE k == KeyOf(row)
           S == Others(R, k) \cup {row}
<1>1. {KeyOf(r) : r \in S} = {KeyOf(r) : r \in R} \cup {k}
  BY DEF Others
<1>2. {q \in S : KeyOf(q) = NoId} = {q \in R : KeyOf(q) = NoId}
  BY DEF Others
<1>3. ASSUME NEW j \in {KeyOf(r) : r \in S}, j # NoId, j # k
      PROVE  (CHOOSE r \in S : KeyOf(r) = j) = (CHOOSE r \in R : KeyOf(r) = j)
  <2>1. PICK r \in R : KeyOf(r) = j
    BY <1>3 DEF Others
  <2>2. \A q \in R : KeyOf(q) = j => q = r
    BY <1>3, <2>1 DEF OneRowPerKey
  <2>3. r \in S /\ \A q \in S : KeyOf(q) = j => q = r
    BY <1>3, <2>1, <2>2 DEF Others
  <2> QED
    BY <2>1, <2>2, <2>3
<1>4. (CHOOSE r \in S : KeyOf(r) = k) = row
  <2>1. row \in S /\ KeyOf(row) = k /\ \A q \in S : KeyOf(q) = k => q = row
    BY DEF Others
  <2> QED
    BY <2>1
<1>5. DOMAIN MapOf(S) = DOMAIN MapOf(R) \cup {k}
  BY <1>1 DEF MapOf
<1>6. ASSUME NEW j \in DOMAIN MapOf(S)
      PROVE  MapOf(S)[j] = IF j = k THEN row.val ELSE MapOf(R)[j]
  <2> HIDE DEF S, k
  <2>1. CASE j = k
    BY <1>1, <1>4, <2>1 DEF MapOf, k
  <2>2. CASE j = NoId
    BY <1>1, <1>2, <2>2 DEF MapOf, k
  <2>3. CASE j # NoId /\ j # k
    <3>1. j \in {KeyOf(r) : r \in S} /\ j \in {KeyOf(r) : r \in R}
      BY <1>1, <2>3 DEF MapOf
    <3>2. MapOf(S)[j] = (CHOOSE r \in S : KeyOf(r) = j).val
      BY <2>3, <3>1 DEF MapOf
    <3>3. MapOf(R)[j] = (CHOOSE r \in R : KeyOf(r) = j).val
      BY <2>3, <3>1 DEF MapOf
    <3> QED
      BY <1>3, <2>3, <3>1, <3>2, <3>3
  <2> QED
    BY <2>1, <2>2, <2>3
<1>7. MapOf(S) = [j \in DOMAIN MapOf(S) |-> MapOf(S)[j]]
  BY DEF MapOf
<1> HIDE DEF S, k
<1> QED
  BY <1>5, <1>6, <1>7 DEF Map!With, S, k

LEMMA MapErase ==
  ASSUME NEW R, OneRowPerKey(R), NEW id, id # NoId
  PROVE  MapOf(Others(R, id)) = Map!Without(MapOf(R), id)
<1> DEFINE S == Others(R, id)
<1>1. {KeyOf(r) : r \in S} = {KeyOf(r) : r \in R} \ {id}
  BY DEF Others
<1>2. {q \in S : KeyOf(q) = NoId} = {q \in R : KeyOf(q) = NoId}
  BY DEF Others
<1>3. ASSUME NEW j \in {KeyOf(r) : r \in S}, j # NoId
      PROVE  (CHOOSE r \in S : KeyOf(r) = j) = (CHOOSE r \in R : KeyOf(r) = j)
  <2>1. PICK r \in S : KeyOf(r) = j
    BY <1>3
  <2>2. r \in R /\ \A q \in R : KeyOf(q) = j => q = r
    BY <1>3, <2>1 DEF OneRowPerKey, Others
  <2>3. \A q \in S : KeyOf(q) = j => q = r
    BY <2>2 DEF Others
  <2> QED
    BY <2>1, <2>2, <2>3
<1> HIDE DEF S
<1>4. DOMAIN MapOf(S) = DOMAIN MapOf(R) \ {id}
  BY <1>1 DEF MapOf
<1>5. ASSUME NEW j \in DOMAIN MapOf(S)
      PROVE  MapOf(S)[j] = MapOf(R)[j]
  <2>1. CASE j = NoId
    BY <1>1, <1>2, <2>1 DEF MapOf
  <2>2. CASE j # NoId
    <3>1. j \in {KeyOf(r) : r \in S} /\ j \in {KeyOf(r) : r \in R}
      BY <1>1 DEF MapOf
    <3>2. MapOf(S)[j] = (CHOOSE r \in S : KeyOf(r) = j).val
      BY <2>2, <3>1 DEF MapOf
    <3>3. MapOf(R)[j] = (CHOOSE r \in R : KeyOf(r) = j).val
      BY <2>2, <3>1 DEF MapOf
    <3> QED
      BY <1>3, <2>2, <3>1, <3>2, <3>3
  <2> QED
    BY <2>1, <2>2
<1>6. MapOf(S) = [j \in DOMAIN MapOf(S) |-> MapOf(S)[j]]
  BY DEF MapOf
<1> QED
  BY <1>4, <1>5, <1>6 DEF Map!Without, S

-----------------------------------------------------------------------------
(* What an append, a replacement and a swap-pop do to a map.               *)

LEMMA AppendPuts ==
  ASSUME NEW rows \in Seq(Row), NEW e, Follows(rows, e), Exact, NEW row \in Row,
         KeyOf(row) # NoId, KeyOf(row) \notin DOMAIN e
  PROVE  RowsAsMap(Append(rows, row)) = Map!With(RowsAsMap(rows), KeyOf(row), row.val)
<1> DEFINE new == Append(rows, row)
<1>1. /\ Len(rows) \in Nat /\ DOMAIN rows = 1..Len(rows)
      /\ new \in Seq(Row) /\ DOMAIN new = 1..(Len(rows) + 1)
      /\ \A i \in 1..Len(rows) : new[i] = rows[i]
      /\ new[Len(rows) + 1] = row
  BY LenProperties, AppendProperties
<1>2. \A r \in Content(rows) : KeyOf(r) # KeyOf(row)
  BY DEF Follows, Full, Content
<1>3. Content(new) = Others(Content(rows), KeyOf(row)) \cup {row}
  <2>1. Content(new) = Content(rows) \cup {row}
    BY <1>1 DEF Content
  <2> QED
    BY <1>2, <2>1 DEF Others
<1>4. Follows(new, With(e, KeyOf(row), Len(rows) + 1))
  BY AppendFollows
<1>5. RowsAsMap(new) = MapOf(Content(new))
  BY <1>1, <1>4, FullContent
<1>6. OneRowPerKey(Content(rows)) /\ RowsAsMap(rows) = MapOf(Content(rows))
  BY FullContent
<1> QED
  BY <1>3, <1>5, <1>6, MapPut

LEMMA ReplacePuts ==
  ASSUME NEW rows \in Seq(Row), NEW e, Follows(rows, e), Exact, NEW row \in Row,
         NEW i \in DOMAIN rows, KeyOf(row) = KeyOf(rows[i]), KeyOf(row) # NoId
  PROVE  RowsAsMap(ReplaceAt(rows, i, row)) = Map!With(RowsAsMap(rows), KeyOf(row), row.val)
<1> DEFINE new == ReplaceAt(rows, i, row)
<1>1. /\ new \in Seq(Row) /\ DOMAIN new = DOMAIN rows
      /\ \A j \in DOMAIN rows : new[j] = IF j = i THEN row ELSE rows[j]
  BY ExceptSeq DEF ReplaceAt
<1>2. \A j \in DOMAIN rows : j # i => KeyOf(rows[j]) # KeyOf(row)
  BY DEF Follows, Full
<1>3. Content(new) = Others(Content(rows), KeyOf(row)) \cup {row}
  BY <1>1, <1>2 DEF Content, Others
<1>4. Follows(new, e)
  BY ReplaceFollows
<1> QED
  BY <1>1, <1>3, <1>4, FullContent, MapPut

LEMMA SwapPopErases ==
  ASSUME NEW rows \in Seq(Row), NEW e, Follows(rows, e), Exact, NEW id \in DOMAIN e
  PROVE  RowsAsMap(SwapPop(rows, e[id])) = Map!Without(RowsAsMap(rows), id)
<1> DEFINE n == Len(rows)
           i == e[id]
           f == IF i # Len(rows) /\ KeyOf(Last(rows)) # NoId THEN With(e, KeyOf(Last(rows)), i) ELSE e
           new == SwapPop(rows, i)
<1>1. n \in Nat /\ DOMAIN rows = 1..n /\ i \in 1..n /\ KeyOf(rows[i]) = id /\ id # NoId
  BY LenProperties, KeyFacts DEF Follows, Sound, Entries
<1>2. new \in Seq(Row) /\ Follows(new, Without(f, id))
  BY SwapPopFollows
<1>3. DOMAIN new = 1..(n - 1) /\ \A j \in 1..(n - 1) : new[j] = IF j = i THEN rows[n] ELSE rows[j]
  BY <1>1, SwapPopRows
<1>4. \A j \in 1..n : j # i <=> KeyOf(rows[j]) # id
  BY <1>1 DEF Follows, Full
<1>5. Content(new) = Others(Content(rows), id)
  <2> HIDE DEF n, i, f, new
  <2>0. n \in 1..n /\ \A j \in 1..n : j \in 1..(n - 1) <=> j # n
    BY <1>1
  <2>1. ASSUME NEW j \in 1..(n - 1)
        PROVE  new[j] \in Others(Content(rows), id)
    <3>1. j \in 1..n /\ j # n
      BY <1>1
    <3> QED
      BY <1>1, <1>3, <1>4, <2>0, <3>1 DEF Content, Others
  <2>2. ASSUME NEW j \in 1..n, j # i
        PROVE  \E h \in 1..(n - 1) : new[h] = rows[j]
    <3>1. CASE j = n
      <4>1. i \in 1..(n - 1)
        BY <1>1, <2>0, <2>2, <3>1
      <4> QED
        BY <1>3, <3>1, <4>1
    <3>2. CASE j # n
      <4>1. j \in 1..(n - 1)
        BY <2>0, <3>2
      <4> QED
        BY <1>3, <2>2, <4>1
    <3> QED
      BY <3>1, <3>2
  <2>3. Content(new) \subseteq Others(Content(rows), id)
    BY <1>3, <2>1 DEF Content
  <2>4. ASSUME NEW r \in Others(Content(rows), id)
        PROVE  r \in Content(new)
    <3>1. PICK j \in 1..n : rows[j] = r /\ KeyOf(rows[j]) # id
      BY <1>1 DEF Content, Others
    <3>2. PICK h \in 1..(n - 1) : new[h] = rows[j]
      BY <1>4, <2>2, <3>1
    <3> QED
      BY <1>3, <3>1, <3>2 DEF Content
  <2> QED
    BY <2>3, <2>4
<1> HIDE DEF new, f
<1> QED
  BY <1>1, <1>2, <1>5, FullContent, MapErase DEF new

-----------------------------------------------------------------------------
(* What the steps do to the maps of a store.                               *)

\* The rows of a table where no two have one name.
LEMMA RowsFound ==
  ASSUME NEW st, StoreOK(st), NEW i \in DOMAIN st
  PROVE  Rows(st, st[i].table) = st[i].rows
BY FindUnique DEF Rows

LEMMA RowsWritten ==
  ASSUME NEW st, StoreOK(st), NEW n \in NamesIn(st), NEW rows \in Seq(Row),
         StoreOK(WithRows(st, n, rows))
  PROVE  TableMaps(WithRows(st, n, rows)) = Map!With(TableMaps(st), n, RowsAsMap(rows))
<1> DEFINE new == WithRows(st, n, rows)
<1>1. PICK t \in DOMAIN st : st[t].table = n
  BY DEF NamesIn
<1>2. new = [st EXCEPT ![t] = [st[t] EXCEPT !.rows = rows]]
  BY <1>1, FindUnique DEF WithRows
<1>3. /\ DOMAIN new = DOMAIN st
      /\ \A i \in DOMAIN st : /\ new[i].table = st[i].table
                              /\ new[i].rows = IF st[i].table = n THEN rows ELSE st[i].rows
  <2>1. \A i \in DOMAIN st : st[i] \in TableObject
    BY StoreFacts
  <2>2. \A i \in DOMAIN st : i # t => st[i].table # n
    BY <1>1 DEF StoreOK, TablesAreUnique
  <2> QED
    BY <1>1, <1>2, <2>1, <2>2 DEF TableObject
<1> HIDE DEF new
<1>4. NamesIn(new) = NamesIn(st)
  BY <1>3 DEF NamesIn
<1>5. ASSUME NEW m \in NamesIn(st)
      PROVE  Rows(new, m) = IF m = n THEN rows ELSE Rows(st, m)
  <2>1. PICK i \in DOMAIN st : st[i].table = m
    BY DEF NamesIn
  <2> QED
    BY <1>3, <2>1, RowsFound DEF new
<1> QED
  BY <1>4, <1>5 DEF TableMaps, Map!With, new

LEMMA TableEnsured ==
  ASSUME NEW st, StoreOK(st), NEW n, StoreOK(EnsureTable(st, n))
  PROVE  TableMaps(EnsureTable(st, n)) =
           Map!With(TableMaps(st), n, IF n \in NamesIn(st) THEN TableMaps(st)[n] ELSE <<>>)
<1> DEFINE new == EnsureTable(st, n)
           t == [table |-> n, rows |-> <<>>]
           l == Len(st)
<1>0. l \in Nat /\ DOMAIN st = 1..l /\ st \in Seq(TableObject)
  BY StoreFacts DEF StoreOK
<1>1. CASE Find(st, n) > 0
  <2>1. n \in NamesIn(st) /\ new = st
    BY <1>0, <1>1, FindSpec DEF NamesIn, EnsureTable
  <2> QED
    BY <2>1 DEF TableMaps, Map!With
<1>2. CASE ~(Find(st, n) > 0)
  <2>1. n \notin NamesIn(st)
    BY <1>0, <1>2, FindSpec DEF NamesIn
  <2>2. /\ DOMAIN new = 1..(l + 1) /\ new[l + 1] = t
        /\ \A i \in 1..l : new[i] = st[i]
    <3>1. new = Append(st, t)
      BY <1>2 DEF EnsureTable
    <3>2. st \in Seq(TableObject \cup {t}) /\ t \in TableObject \cup {t}
      BY <1>0
    <3> QED
      BY <1>0, <3>1, <3>2, AppendProperties, LenProperties
  <2>3. t.table = n /\ t.rows = <<>> /\ RowsAsMap(<<>>) = <<>>
    <3>1. DOMAIN <<>> = {} /\ <<>> = [k \in {} |-> 0]
      BY EmptySeq
    <3>2. RowsAsMap(<<>>) = [k \in {} |-> 0]
      BY <3>1 DEF RowsAsMap
    <3> QED
      BY <3>1, <3>2
  <2> HIDE DEF new, t
  <2>4. NamesIn(new) = NamesIn(st) \cup {n}
    BY <1>0, <2>2, <2>3 DEF NamesIn
  <2>5. Rows(new, n) = <<>>
    BY <1>0, <2>2, <2>3, RowsFound DEF new
  <2>6. ASSUME NEW m \in NamesIn(st)
        PROVE  Rows(new, m) = Rows(st, m)
    <3>1. PICK i \in DOMAIN st : st[i].table = m
      BY DEF NamesIn
    <3>2. i \in DOMAIN new /\ new[i] = st[i]
      BY <1>0, <2>2
    <3> QED
      BY <3>1, <3>2, RowsFound DEF new
  <2> QED
    BY <2>1, <2>3, <2>4, <2>5, <2>6 DEF TableMaps, Map!With, new
<1> QED
  BY <1>1, <1>2

LEMMA TableDropped ==
  ASSUME NEW st, StoreOK(st), NEW n, Find(st, n) > 0,
         NamesIn(RemoveAt(st, Find(st, n))) = NamesIn(st) \ {n},
         StoreOK(RemoveAt(st, Find(st, n)))
  PROVE  TableMaps(RemoveAt(st, Find(st, n))) = Map!Without(TableMaps(st), n)
<1> DEFINE f == Find(st, n)
           l == Len(st)
           new == RemoveAt(st, f)
<1>1. l \in Nat /\ DOMAIN st = 1..l /\ st \in Seq(TableObject)
  BY StoreFacts DEF StoreOK
<1>2. f \in 1..l
  BY <1>1, FindSpec
<1>3. DOMAIN new = 1..(l - 1) /\ \A j \in 1..(l - 1) : new[j] = st[Before(f, j)]
  BY <1>1, <1>2, RemoveAtSpec
<1>4. \A j \in 1..(l - 1) : Before(f, j) \in 1..l
  BY <1>1, <1>2 DEF Before
<1> HIDE DEF new, f
<1>5. ASSUME NEW m \in NamesIn(new)
      PROVE  Rows(new, m) = Rows(st, m)
  <2>1. PICK j \in DOMAIN new : new[j].table = m
    BY DEF NamesIn
  <2>2. PICK i \in DOMAIN st : new[j] = st[i]
    BY <1>1, <1>3, <1>4
  <2> QED
    BY <2>1, <2>2, RowsFound DEF new, f
<1>6. NamesIn(new) = NamesIn(st) \ {n}
  BY DEF new, f
<1> QED
  BY <1>5, <1>6 DEF TableMaps, Map!Without, new, f

-----------------------------------------------------------------------------
(* Every step is one of the map's, or none.                                *)

LEMMA MapsOfStore ==
  ASSUME KeysAreUnique(given)
  PROVE  AsMap(store) = TableMaps(store) /\ Exact /\ TablesAreUnique(given)
BY DEF AsMap, TableMaps, NamesIn, Exact, KeysAreUnique

LEMMA UpsertIsPut ==
  ASSUME TableInv, KeysAreUnique(given),
         NEW n \in Names, NEW s \in Spellings, NEW v \in Values, Upsert(n, [id |-> s, val |-> v])
  PROVE  TableMaps(store') =
           LET T == IF n \in NamesIn(store) THEN TableMaps(store)[n] ELSE <<>>
           IN Map!With(TableMaps(store), n, Map!With(T, Trim[s], v))
<1> DEFINE row == [id |-> s, val |-> v]
           st == EnsureTable(store, n)
           rows == Rows(st, n)
           e == EntryOf(n)
           k == KeyOf(row)
           T == IF n \in NamesIn(store) THEN TableMaps(store)[n] ELSE <<>>
<1>0. Exact /\ StoreOK(store) /\ IndexOK(store, index)
  BY MapsOfStore DEF TableInv
<1>1. /\ StoreOK(st) /\ FitsButFor(st, index, n)
      /\ rows \in Seq(Row) /\ Follows(rows, e)
  BY <1>0, Ensured DEF EntryOf
<1>2. row \in Row /\ k = Trim[s] /\ k # NoId /\ row.val = v
  BY TableAssumption, KeyFacts DEF Row, KeyOf
<1>3. n \in NamesIn(st)
  BY <1>1 DEF FitsButFor
<1>4. TableMaps(st) = Map!With(TableMaps(store), n, T)
  BY <1>0, <1>1, TableEnsured
<1>5. RowsAsMap(rows) = T
  BY <1>3, <1>4 DEF TableMaps, Map!With
<1>6. \E new \in Seq(Row) : /\ \E f : Follows(new, f)
                           /\ store' = WithRows(st, n, new)
                           /\ RowsAsMap(new) = Map!With(T, k, v)
  <2>1. CASE k \in DOMAIN e
    <3>1. e[k] \in DOMAIN rows /\ KeyOf(rows[e[k]]) = k
      BY <1>1, <2>1 DEF Follows, Sound
    <3>2. store' = WithRows(st, n, ReplaceAt(rows, e[k], row))
      BY <2>1, <3>1 DEF Upsert, Step, SetElement
    <3>3. ReplaceAt(rows, e[k], row) \in Seq(Row) /\ Follows(ReplaceAt(rows, e[k], row), e)
      BY <1>1, <1>2, <3>1, ReplaceFollows
    <3>4. RowsAsMap(ReplaceAt(rows, e[k], row)) = Map!With(T, k, v)
      BY <1>0, <1>1, <1>2, <1>5, <3>1, ReplacePuts
    <3> QED
      BY <3>2, <3>3, <3>4
  <2>2. CASE k \notin DOMAIN e
    <3>1. store' = WithRows(st, n, Append(rows, row))
      BY <2>2 DEF Upsert, Step
    <3>2. /\ Append(rows, row) \in Seq(Row)
          /\ Follows(Append(rows, row), With(e, k, Len(rows) + 1))
      BY <1>1, <1>2, <2>2, AppendFollows
    <3>3. RowsAsMap(Append(rows, row)) = Map!With(T, k, v)
      BY <1>0, <1>1, <1>2, <1>5, <2>2, AppendPuts
    <3> QED
      BY <3>1, <3>2, <3>3
  <2> QED
    BY <2>1, <2>2
<1>7. PICK new \in Seq(Row) : /\ \E f : Follows(new, f)
                            /\ store' = WithRows(st, n, new)
                            /\ RowsAsMap(new) = Map!With(T, k, v)
  BY <1>6
<1>8. StoreOK(WithRows(st, n, new))
  BY <1>1, <1>7, TableWritten
<1>9. TableMaps(store') = Map!With(TableMaps(st), n, Map!With(T, k, v))
  BY <1>1, <1>3, <1>7, <1>8, RowsWritten
<1> HIDE DEF T, st, k
<1>10. TableMaps(store') = Map!With(TableMaps(store), n, Map!With(T, k, v))
  BY <1>4, <1>9 DEF Map!With
<1> QED
  BY <1>2, <1>10 DEF T

LEMMA UpdateIsPatch ==
  ASSUME TableInv, KeysAreUnique(given),
         NEW n \in Names, NEW id \in Spellings, NEW v \in Values, Update(n, id, v)
  PROVE  \/ TableMaps(store') = TableMaps(store)
         \/ /\ n \in NamesIn(store) /\ id \in Keys /\ id \in DOMAIN TableMaps(store)[n]
            /\ TableMaps(store') =
                 Map!With(TableMaps(store), n, Map!With(TableMaps(store)[n], id, v))
<1> DEFINE row == [id |-> id, val |-> v]
           rows == Rows(store, n)
           e == EntryOf(n)
           new == SetElement(rows, Position(n, id), row)
<1>0. Exact /\ StoreOK(store) /\ IndexOK(store, index) /\ Find(store, n) > 0
  BY MapsOfStore DEF TableInv, Update
<1>1. FitsButFor(store, index, n) /\ rows \in Seq(Row) /\ Follows(rows, e)
  BY <1>0, FoundTable DEF EntryOf
<1>2. n \in NamesIn(store) /\ TableMaps(store)[n] = RowsAsMap(rows)
  BY <1>1 DEF FitsButFor, TableMaps
<1>3. store' = WithRows(store, n, new)
  BY DEF Update, Step
<1>4. CASE id \in DOMAIN e
  <2>1. e[id] \in DOMAIN rows /\ KeyOf(rows[e[id]]) = id /\ id \in Keys
    BY <1>1, <1>4 DEF Follows, Sound, Entries
  <2>2. row \in Row /\ KeyOf(row) = id /\ id # NoId /\ row.val = v
    BY <2>1, KeyFacts DEF Row, KeyOf
  <2>3. new = ReplaceAt(rows, e[id], row)
    BY <1>4, <2>1 DEF SetElement, Position
  <2>4. new \in Seq(Row) /\ Follows(new, e)
    BY <1>1, <2>1, <2>2, <2>3, ReplaceFollows
  <2>5. RowsAsMap(new) = Map!With(RowsAsMap(rows), id, v)
    BY <1>0, <1>1, <2>1, <2>2, <2>3, ReplacePuts
  <2>6. TableMaps(store') = Map!With(TableMaps(store), n, RowsAsMap(new))
    <3>1. StoreOK(WithRows(store, n, new))
      BY <1>0, <1>1, <2>4, TableWritten
    <3> QED
      BY <1>0, <1>2, <1>3, <2>4, <3>1, RowsWritten
  <2>7. id \in DOMAIN TableMaps(store)[n]
    BY <1>0, <1>1, <1>2, <1>4, FullContent
  <2> QED
    BY <1>2, <2>1, <2>5, <2>6, <2>7
<1>5. CASE id \notin DOMAIN e
  <2>1. new = rows
    <3>1. 0 \notin DOMAIN rows
      BY <1>1, LenProperties
    <3> QED
      BY <1>5, <3>1 DEF SetElement, Position
  <2>2. StoreOK(WithRows(store, n, rows))
    BY <1>0, <1>1, TableWritten
  <2>3. TableMaps(store') = Map!With(TableMaps(store), n, RowsAsMap(rows))
    BY <1>0, <1>1, <1>2, <1>3, <2>1, <2>2, RowsWritten
  <2> QED
    BY <1>2, <2>3 DEF Map!With, TableMaps
<1> QED
  BY <1>4, <1>5

LEMMA DeleteIsErase ==
  ASSUME TableInv, KeysAreUnique(given), NEW n \in Names, NEW id \in Spellings, Delete(n, id)
  PROVE  \/ TableMaps(store') = TableMaps(store)
         \/ /\ n \in NamesIn(store) /\ id \in Keys
            /\ TableMaps(store') =
                 Map!With(TableMaps(store), n, Map!Without(TableMaps(store)[n], id))
<1> DEFINE rows == Rows(store, n)
           e == EntryOf(n)
           m == KeyOf(Last(rows))
<1>0. Exact /\ StoreOK(store) /\ IndexOK(store, index) /\ Find(store, n) > 0
  BY MapsOfStore DEF TableInv, Delete
<1>1. FitsButFor(store, index, n) /\ rows \in Seq(Row) /\ Follows(rows, e)
  BY <1>0, FoundTable DEF EntryOf
<1>2. n \in NamesIn(store) /\ TableMaps(store)[n] = RowsAsMap(rows)
  BY <1>1 DEF FitsButFor, TableMaps
<1>3. CASE id \in DOMAIN e
  <2> DEFINE f == IF e[id] # Len(rows) /\ m # NoId THEN With(e, m, e[id]) ELSE e
             new == SwapPop(rows, e[id])
  <2>1. e[id] \in DOMAIN rows /\ id \in Keys
    BY <1>1, <1>3 DEF Follows, Sound, Entries
  <2>2. store' = WithRows(store, n, new)
    BY <1>3, <2>1 DEF Delete, Step, Position
  <2>3. new \in Seq(Row) /\ Follows(new, Without(f, id))
    BY <1>1, <1>3, SwapPopFollows
  <2>4. RowsAsMap(new) = Map!Without(RowsAsMap(rows), id)
    BY <1>0, <1>1, <1>3, SwapPopErases
  <2>5. StoreOK(WithRows(store, n, new))
    BY <1>0, <1>1, <2>3, TableWritten
  <2>6. TableMaps(store') = Map!With(TableMaps(store), n, RowsAsMap(new))
    BY <1>0, <1>2, <2>2, <2>3, <2>5, RowsWritten
  <2> QED
    BY <1>2, <2>1, <2>4, <2>6
<1>4. CASE id \notin DOMAIN e
  <2>1. Position(n, id) = 0 /\ 0 \notin DOMAIN rows
    BY <1>1, <1>4, LenProperties DEF Position
  <2>2. store' = store
    BY <2>1 DEF Delete, Step
  <2> QED
    BY <2>2
<1> QED
  BY <1>3, <1>4

LEMMA CreateIsMake ==
  ASSUME TableInv, KeysAreUnique(given), NEW n \in Names, CreateTable(n)
  PROVE  TableMaps(store') =
           Map!With(TableMaps(store), n,
                    IF n \in NamesIn(store) THEN TableMaps(store)[n] ELSE <<>>)
<1>1. StoreOK(store) /\ StoreOK(EnsureTable(store, n))
  BY MapsOfStore, Ensured DEF TableInv
<1>2. store' = EnsureTable(store, n)
  BY DEF CreateTable, Step
<1> QED
  BY <1>1, <1>2, TableEnsured

LEMMA DropIsDrop ==
  ASSUME TableInv, KeysAreUnique(given), NEW n \in Names, DropTable(n)
  PROVE  TableMaps(store') = Map!Without(TableMaps(store), n)
<1> DEFINE new == RemoveAt(store, Find(store, n))
<1>1. StoreOK(store) /\ IndexOK(store, index) /\ Find(store, n) > 0
  BY MapsOfStore DEF TableInv, DropTable
<1>2. StoreOK(new) /\ IndexOK(new, Without(index, n))
  BY <1>1, Dropped
<1>3. NamesIn(new) = NamesIn(store) \ {n}
  <2>1. DOMAIN index = NamesIn(store) /\ DOMAIN Without(index, n) = NamesIn(new)
    BY <1>1, <1>2 DEF IndexOK
  <2> QED
    BY <2>1 DEF Without, Restrict
<1>4. store' = new
  BY DEF DropTable, Step
<1> QED
  BY <1>1, <1>2, <1>3, <1>4, TableDropped

\* For any names, ids, values and files: every step of a transaction is a change
\* of one map or none, and the end of one keeps all of its changes or undoes all.
THEOREM TablesAreMaps == Spec => ImplementsMap
<1> DEFINE kept == AsMap(IF open THEN saved[1] ELSE store)
           work == AsMap(store)
<1>1. Init => kept = work
  BY DEF Init
<1>2. TableInv /\ [Next]_<<given, tableVars>> => [Map!Next]_<<kept, work>>
  <2> SUFFICES ASSUME TableInv, [Next]_<<given, tableVars>>
               PROVE  Map!Next \/ UNCHANGED <<kept, work>>
    OBVIOUS
  <2>0. given' = given
    BY DEF Next
  <2>1. CASE UNCHANGED tableVars
    BY <2>0, <2>1 DEF tableVars, AsMap
  <2>2. CASE Begin
    BY <2>0, <2>2 DEF Begin, AsMap
  <2>3. CASE Commit
    <3>1. work' = work /\ kept' = work
      BY <2>0, <2>3 DEF Commit, AsMap
    <3> QED
      BY <3>1 DEF Map!Next, Map!Commit
  <2>4. CASE Rollback
    <3>1. work' = kept /\ kept' = kept
      BY <2>0, <2>4 DEF Rollback, AsMap
    <3> QED
      BY <3>1 DEF Map!Next, Map!Abort
  <2>5. CASE ~KeysAreUnique(given)
    BY <2>0, <2>5 DEF AsMap, KeysAreUnique, TablesAreUnique
  <2>6. ASSUME KeysAreUnique(given), open, open' = open, saved' = saved
        PROVE  /\ kept' = kept /\ work = TableMaps(store) /\ work' = TableMaps(store')
               /\ DOMAIN work = NamesIn(store)
    BY <2>0, <2>6 DEF AsMap, TableMaps, NamesIn, KeysAreUnique, TablesAreUnique
  <2>7. ASSUME KeysAreUnique(given), NEW st, NEW ix, Step(st, ix)
        PROVE  /\ kept' = kept /\ work = TableMaps(store) /\ work' = TableMaps(store')
               /\ DOMAIN work = NamesIn(store)
    BY <2>6, <2>7 DEF Step
  <2>8. ASSUME KeysAreUnique(given), NEW n \in Names, CreateTable(n) \/ DropTable(n)
        PROVE  Map!Next
    <3>1. CASE CreateTable(n)
      <4>1. Map!Make(n)
        BY <2>7, <2>8, <3>1, CreateIsMake DEF CreateTable, Map!Make, Map!Table
      <4> QED
        BY <2>7, <2>8, <3>1, <4>1 DEF CreateTable, Map!Next, Map!Change
    <3>2. CASE DropTable(n)
      <4>1. Map!Drop(n)
        BY <2>7, <2>8, <3>2, DropIsDrop DEF DropTable, Map!Drop
      <4> QED
        BY <2>7, <2>8, <3>2, <4>1 DEF DropTable, Map!Next, Map!Change
    <3> QED
      BY <2>8, <3>1, <3>2
  <2>9. ASSUME KeysAreUnique(given), NEW n \in Names, NEW s \in Spellings, NEW v \in Values,
               Upsert(n, [id |-> s, val |-> v])
        PROVE  Map!Next
    <3>1. kept' = kept /\ work = TableMaps(store) /\ work' = TableMaps(store')
          /\ DOMAIN work = NamesIn(store)
      BY <2>7, <2>9 DEF Upsert
    <3>2. Trim[s] \in Keys /\ Map!Put(n, Trim[s], v)
      BY <2>9, <3>1, UpsertIsPut, KeyFacts DEF Map!Put, Map!Table
    <3> QED
      BY <3>1, <3>2 DEF Map!Next, Map!Change
  <2>10. ASSUME KeysAreUnique(given), NEW n \in Names, NEW id \in Spellings, NEW v \in Values,
                Update(n, id, v)
         PROVE  Map!Next \/ UNCHANGED <<kept, work>>
    <3>1. kept' = kept /\ work = TableMaps(store) /\ work' = TableMaps(store')
          /\ DOMAIN work = NamesIn(store)
      BY <2>7, <2>10 DEF Update
    <3>2. CASE TableMaps(store') = TableMaps(store)
      BY <3>1, <3>2
    <3>3. CASE TableMaps(store') # TableMaps(store)
      <4>1. id \in Keys /\ Map!Patch(n, id, v)
        BY <2>10, <3>1, <3>3, UpdateIsPatch DEF Map!Patch, Map!Put, Map!Table
      <4> QED
        BY <3>1, <4>1 DEF Map!Next, Map!Change
    <3> QED
      BY <3>2, <3>3
  <2>11. ASSUME KeysAreUnique(given), NEW n \in Names, NEW id \in Spellings, Delete(n, id)
         PROVE  Map!Next \/ UNCHANGED <<kept, work>>
    <3>1. kept' = kept /\ work = TableMaps(store) /\ work' = TableMaps(store')
          /\ DOMAIN work = NamesIn(store)
      <4>1. \E st, ix : Step(st, ix)
        BY <2>11 DEF Delete
      <4> QED
        BY <2>7, <2>11, <4>1
    <3>2. CASE TableMaps(store') = TableMaps(store)
      BY <3>1, <3>2
    <3>3. CASE TableMaps(store') # TableMaps(store)
      <4>1. id \in Keys /\ Map!Erase(n, id)
        BY <2>11, <3>1, <3>3, DeleteIsErase DEF Map!Erase
      <4> QED
        BY <3>1, <4>1 DEF Map!Next, Map!Change
    <3> QED
      BY <3>2, <3>3
  <2>12. ASSUME KeysAreUnique(given), NEW n \in Names, n \notin DOMAIN index, NEW id
         PROVE  ~DeleteScanned(n, id) /\ \A v \in Values : ~UpdateScanned(n, id, v)
    BY <2>12, FoundTable, MapsOfStore DEF UpdateScanned, DeleteScanned, TableInv
  <2>13. ASSUME KeysAreUnique(given), NEW n \in Names, NEW s \in Spellings, NEW v \in Values,
                \/ CreateRow(n, s, v) \/ UpdateRow(n, s, v) \/ UpdateElement(n, s, v)
                \/ SqlInsert(n, s, v) \/ SqlUpdate(n, s, v)
         PROVE  Map!Next \/ UNCHANGED <<kept, work>>
    <3>1. Trim[s] \in Spellings
      BY TableAssumption
    <3> QED
      BY <2>8, <2>9, <2>10, <2>12, <2>13, <3>1
         DEF CreateRow, UpdateRow, UpdateElement, SqlInsert, SqlUpdate
  <2>14. ASSUME KeysAreUnique(given), NEW n \in Names, NEW s \in Spellings,
                RemoveRow(n, s) \/ DeleteElement(n, s) \/ SqlDelete(n, s)
         PROVE  Map!Next \/ UNCHANGED <<kept, work>>
    <3>1. Trim[s] \in Spellings
      BY TableAssumption
    <3> QED
      BY <2>8, <2>11, <2>12, <2>14, <3>1 DEF RemoveRow, DeleteElement, SqlDelete
  <2> QED
    BY <2>1, <2>2, <2>3, <2>4, <2>5, <2>8, <2>13, <2>14 DEF Next
<1>3. Spec => []TableInv
  BY TableInvariant
<1>4. kept = work /\ [][Map!Next]_<<kept, work>> => ImplementsMap
  BY DEF ImplementsMap, Map!Spec
<1> QED
  BY <1>1, <1>2, <1>3, <1>4, PTL DEF Spec
=============================================================================
