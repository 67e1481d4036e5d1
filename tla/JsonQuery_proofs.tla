-------------------------- MODULE JsonQuery_proofs --------------------------
(***************************************************************************)
(* Proofs about the query pipeline of the JSON engine, for every table,    *)
(* every query and every bound:                                            *)
(*                                                                         *)
(*   - AnswersFitTheirRows, the inductive invariant: the rows are rows of  *)
(*     this table, and an answer is one that the code makes of the rows as *)
(*     they still are;                                                     *)
(*   - PagesAreCutFromOneAnswer, GroupsArePartitions and                   *)
(*     SortingOrdersTheAnswer, which follow from it and from what the      *)
(*     operators of the pipeline compute;                                  *)
(*   - ReadersMissLittle, about the client that reads page after page,     *)
(*     from a stronger invariant (ReaderInv).                              *)
(*                                                                         *)
(* The order of the lemmas: induction, sums, ranks and the rows at some    *)
(* positions; the order of values and of rows; the states; filtering,      *)
(* groups and aggregates; paging and sorting; then the theorems.           *)
(***************************************************************************)
EXTENDS JsonQuery, FiniteSetTheorems, SequenceTheorems, WellFoundedInduction, TLAPS

-----------------------------------------------------------------------------
(* Induction, as a fact about sets of numbers.                             *)

LEMMA LeastOf ==
  ASSUME NEW S, S \subseteq Nat, S # {}
  PROVE  Min(S) \in S /\ \A y \in S : Min(S) <= y
<1> DEFINE R == OpToRel(<, Nat)
<1>1. R = {ss \in Nat \X Nat : ss[1] < ss[2]}
  BY DEF OpToRel
<1>2. IsWellFoundedOn(R, Nat)
  BY NatLessThanWellFounded
<1> HIDE DEF R
<1>3. PICK x \in S : \A y \in S : <<y, x>> \notin R
  BY <1>2, WFMin
<1>4. ASSUME NEW y \in S
      PROVE  x <= y
  <2>1. x \in Nat /\ y \in Nat /\ <<y, x>> \notin R
    BY <1>3
  <2>2. ~(y < x)
    BY <1>1, <2>1
  <2> QED
    BY <2>1, <2>2
<1>5. \E z \in S : \A y \in S : z <= y
  BY <1>4
<1> QED
  BY <1>5 DEF Min

LEMMA GreatestOf ==
  ASSUME NEW S, NEW n \in Nat, S \subseteq 1..n, S # {}
  PROVE  Max(S) \in S /\ \A y \in S : Max(S) >= y
<1> DEFINE T == {z \in Nat : n - z \in S}
<1>1. PICK y \in S : TRUE
  OBVIOUS
<1>2. y \in 1..n /\ n - y \in Nat /\ n - (n - y) = y
  OBVIOUS
<1>3. n - y \in T
  BY <1>2
<1>4. PICK z \in T : \A w \in T : z <= w
  BY <1>3, LeastOf
<1>5. ASSUME NEW w \in S
      PROVE  n - z >= w
  <2>1. w \in 1..n /\ n - w \in Nat /\ n - (n - w) = w
    OBVIOUS
  <2>2. n - w \in T
    BY <2>1
  <2>3. z \in Nat /\ z <= n - w
    BY <1>4, <2>2
  <2> QED
    BY <2>1, <2>3
<1>6. n - z \in S
  BY <1>4
<1> QED
  BY <1>5, <1>6 DEF Max

LEMMA Induct ==
  ASSUME NEW S, 0 \in S, \A n \in Nat : n \in S => n + 1 \in S
  PROVE  Nat \subseteq S
<1>1. SUFFICES ASSUME NEW n \in Nat, n \notin S
               PROVE  FALSE
  OBVIOUS
<1> DEFINE T == {k \in Nat : k \notin S}
<1>2. Min(T) \in T /\ \A k \in T : Min(T) <= k
  BY <1>1, LeastOf
<1>3. PICK m \in T : \A k \in T : m <= k
  BY <1>2
<1>4. m # 0 /\ m - 1 \in Nat /\ ~(m <= m - 1) /\ (m - 1) + 1 = m
  BY <1>3
<1>5. m - 1 \in S
  BY <1>3, <1>4
<1>6. m \in S
  BY <1>4, <1>5
<1> QED
  BY <1>3, <1>6

-----------------------------------------------------------------------------
(* Sums.                                                                   *)

TotalOf(number, n) ==
  CHOOSE t : t = [i \in 0..n |-> IF i = 0 THEN 0 ELSE t[i - 1] + number[i]]

\* The sums of longer and longer prefixes exist ...
LEMMA TotalIs ==
  ASSUME NEW number, NEW n \in Nat, \A i \in 1..n : number[i] \in Int
  PROVE  /\ TotalOf(number, n)
              = [i \in 0..n |-> IF i = 0 THEN 0 ELSE TotalOf(number, n)[i - 1] + number[i]]
         /\ \A i \in 0..n : TotalOf(number, n)[i] \in Int
<1> DEFINE Right(t, m) == t = [i \in 0..m |-> IF i = 0 THEN 0 ELSE t[i - 1] + number[i]]
           Works(t, m) == Right(t, m) /\ \A i \in 0..m : t[i] \in Int
           S == {m \in Nat : m <= n => \E t : Works(t, m)}
<1>1. 0 \in S
  <2>1. Works([i \in 0..0 |-> 0], 0)
    OBVIOUS
  <2> QED
    BY <2>1
<1>2. ASSUME NEW m \in Nat, m \in S
      PROVE  m + 1 \in S
  <2> SUFFICES ASSUME m + 1 <= n PROVE \E t : Works(t, m + 1)
    OBVIOUS
  <2>1. PICK t : Works(t, m)
    BY <1>2
  <2> DEFINE u == [i \in 0..(m + 1) |-> IF i = m + 1 THEN t[m] + number[m + 1] ELSE t[i]]
  <2>2. \A i \in 0..(m + 1) : u[i] = IF i = 0 THEN 0 ELSE u[i - 1] + number[i]
    BY <2>1
  <2>3. \A i \in 0..(m + 1) : u[i] \in Int
    BY <2>1
  <2>4. Works(u, m + 1)
    <3> HIDE DEF u
    <3> QED
      BY <2>2, <2>3 DEF u
  <2> QED
    BY <2>4
<1>3. n \in S
  BY <1>1, <1>2, Induct
<1>4. Right(TotalOf(number, n), n)
  <2>1. PICK u : Works(u, n)
    BY <1>3
  <2>2. \E t : Right(t, n)
    BY <2>1
  <2> QED
    BY <2>2 DEF TotalOf
<1>5. \A i \in 0..n : TotalOf(number, n)[i] \in Int
  <2> DEFINE t == TotalOf(number, n)
             U == {m \in Nat : m <= n => t[m] \in Int}
  <2>1. 0 \in U
    BY <1>4
  <2>2. ASSUME NEW m \in Nat, m \in U PROVE m + 1 \in U
    <3> HIDE DEF t
    <3>1. m + 1 <= n => t[m + 1] = t[m] + number[m + 1]
      BY <1>4 DEF t
    <3> QED
      BY <3>1, <2>2
  <2> HIDE DEF U
  <2>3. Nat \subseteq U
    BY <2>1, <2>2, Induct
  <2> QED
    BY <2>3 DEF U
<1> QED
  BY <1>4, <1>5

\* SumUpTo unfolds to the last number it adds.
LEMMA SumIs ==
  ASSUME NEW number, NEW n \in Nat, \A i \in 1..n : number[i] \in Int
  PROVE  /\ SumUpTo(number, n) \in Int
         /\ SumUpTo(number, 0) = 0
         /\ n > 0 => SumUpTo(number, n) = SumUpTo(number, n - 1) + number[n]
<1> DEFINE t(m) == TotalOf(number, m)
<1>1. \A m \in 0..n : SumUpTo(number, m) = t(m)[m]
  BY DEF SumUpTo, TotalOf
<1>2. ASSUME NEW m \in 0..n
      PROVE  /\ \A i \in 0..m : t(m)[i] = IF i = 0 THEN 0 ELSE t(m)[i - 1] + number[i]
             /\ \A i \in 0..m : t(m)[i] \in Int
  BY TotalIs
<1>3. SumUpTo(number, n) \in Int /\ SumUpTo(number, 0) = 0
  BY <1>1, <1>2
<1>4. ASSUME n > 0
      PROVE  SumUpTo(number, n) = SumUpTo(number, n - 1) + number[n]
  <2> DEFINE U == {m \in Nat : m <= n - 1 => t(n)[m] = t(n - 1)[m]}
  <2> HIDE DEF t
  <2>1. 0 \in U
    BY <1>2, <1>4
  <2>2. ASSUME NEW m \in Nat, m \in U PROVE m + 1 \in U
    <3> SUFFICES ASSUME m + 1 <= n - 1 PROVE t(n)[m + 1] = t(n - 1)[m + 1]
      OBVIOUS
    <3>1. m <= n - 1 /\ n - 1 \in 0..n /\ n \in 0..n /\ m + 1 \in 0..(n - 1) /\ m + 1 \in 0..n
          /\ (m + 1) - 1 = m /\ m + 1 # 0
      BY <1>4
    <3>2. t(n)[m + 1] = t(n)[m] + number[m + 1] /\ t(n - 1)[m + 1] = t(n - 1)[m] + number[m + 1]
      BY <1>2, <3>1
    <3> QED
      BY <2>2, <3>1, <3>2
  <2> HIDE DEF U
  <2>3. n - 1 \in U
    BY <1>4, <2>1, <2>2, Induct
  <2>4. t(n)[n - 1] = t(n - 1)[n - 1]
    BY <1>4, <2>3 DEF U
  <2>5. t(n)[n] = t(n)[n - 1] + number[n]
    BY <1>2, <1>4
  <2> QED
    BY <1>1, <1>4, <2>4, <2>5
<1> QED
  BY <1>3, <1>4

\* Sums of equal numbers are equal, a sum of sums is the sum of both, and of
\* numbers that are all 0 but one the sum is that one.
LEMMA SumsAgree ==
  ASSUME NEW f, NEW g, NEW n \in Nat, \A i \in 1..n : f[i] \in Int /\ g[i] = f[i]
  PROVE  SumUpTo(f, n) = SumUpTo(g, n)
<1> DEFINE U == {m \in Nat : m <= n => SumUpTo(f, m) = SumUpTo(g, m)}
<1>1. 0 \in U
  BY SumIs
<1>2. ASSUME NEW m \in Nat, m \in U PROVE m + 1 \in U
  <2> SUFFICES ASSUME m + 1 <= n PROVE SumUpTo(f, m + 1) = SumUpTo(g, m + 1)
    OBVIOUS
  <2>1. SumUpTo(f, m + 1) = SumUpTo(f, m) + f[m + 1] /\ SumUpTo(g, m + 1) = SumUpTo(g, m) + g[m + 1]
    BY SumIs
  <2> QED
    BY <1>2, <2>1
<1> HIDE DEF U
<1>3. n \in U
  BY <1>1, <1>2, Induct
<1> QED
  BY <1>3 DEF U

LEMMA SumOfSums ==
  ASSUME NEW f, NEW g, NEW h, NEW n \in Nat,
         \A i \in 1..n : f[i] \in Int /\ g[i] \in Int /\ h[i] = f[i] + g[i]
  PROVE  SumUpTo(h, n) = SumUpTo(f, n) + SumUpTo(g, n)
<1> DEFINE U == {m \in Nat : m <= n => SumUpTo(h, m) = SumUpTo(f, m) + SumUpTo(g, m)}
<1>1. 0 \in U
  BY SumIs
<1>2. ASSUME NEW m \in Nat, m \in U PROVE m + 1 \in U
  <2> SUFFICES ASSUME m + 1 <= n
               PROVE  SumUpTo(h, m + 1) = SumUpTo(f, m + 1) + SumUpTo(g, m + 1)
    OBVIOUS
  <2>1. /\ SumUpTo(f, m + 1) = SumUpTo(f, m) + f[m + 1] /\ SumUpTo(f, m) \in Int
        /\ SumUpTo(g, m + 1) = SumUpTo(g, m) + g[m + 1] /\ SumUpTo(g, m) \in Int
    BY SumIs
  <2>2. SumUpTo(h, m + 1) = SumUpTo(h, m) + h[m + 1]
    <3>1. \A i \in 1..(m + 1) : h[i] \in Int
      OBVIOUS
    <3> QED
      BY <3>1, SumIs
  <2> QED
    BY <1>2, <2>1, <2>2
<1> HIDE DEF U
<1>3. n \in U
  BY <1>1, <1>2, Induct
<1> QED
  BY <1>3 DEF U

LEMMA SumOfOne ==
  ASSUME NEW f, NEW n \in Nat, NEW k \in 1..n, f[k] \in Int, \A i \in 1..n : i # k => f[i] = 0
  PROVE  SumUpTo(f, n) = f[k]
<1> DEFINE U == {m \in Nat : m <= n => SumUpTo(f, m) = IF m < k THEN 0 ELSE f[k]}
<1>1. 0 \in U
  BY SumIs
<1>2. ASSUME NEW m \in Nat, m \in U PROVE m + 1 \in U
  <2> SUFFICES ASSUME m + 1 <= n PROVE SumUpTo(f, m + 1) = IF m + 1 < k THEN 0 ELSE f[k]
    OBVIOUS
  <2>1. SumUpTo(f, m + 1) = SumUpTo(f, m) + f[m + 1]
    <3>1. \A i \in 1..(m + 1) : f[i] \in Int
      OBVIOUS
    <3> QED
      BY <3>1, SumIs
  <2> QED
    BY <1>2, <2>1
<1> HIDE DEF U
<1>3. n \in U
  BY <1>1, <1>2, Induct
<1> QED
  BY <1>3 DEF U

LEMMA SumOfNone ==
  ASSUME NEW f, NEW n \in Nat, \A i \in 1..n : f[i] = 0
  PROVE  SumUpTo(f, n) = 0
<1> DEFINE U == {m \in Nat : m <= n => SumUpTo(f, m) = 0}
<1>1. 0 \in U
  BY SumIs
<1>2. ASSUME NEW m \in Nat, m \in U PROVE m + 1 \in U
  <2> SUFFICES ASSUME m + 1 <= n PROVE SumUpTo(f, m + 1) = 0
    OBVIOUS
  <2>1. SumUpTo(f, m + 1) = SumUpTo(f, m) + f[m + 1]
    <3>1. \A i \in 1..(m + 1) : f[i] \in Int
      OBVIOUS
    <3> QED
      BY <3>1, SumIs
  <2> QED
    BY <1>2, <2>1
<1> HIDE DEF U
<1>3. n \in U
  BY <1>1, <1>2, Induct
<1> QED
  BY <1>3 DEF U

\* Numbers that belong to one of m parts add up to the sum of the parts' sums.
Part(f, part, j, n) == SumUpTo([i \in 1..n |-> IF part[i] = j THEN f[i] ELSE 0], n)

LEMMA PartIs ==
  ASSUME NEW f, NEW part, NEW j, NEW n \in Nat, \A i \in 1..n : f[i] \in Int
  PROVE  /\ Part(f, part, j, n) \in Int
         /\ Part(f, part, j, 0) = 0
         /\ n > 0 => Part(f, part, j, n)
                       = Part(f, part, j, n - 1) + IF part[n] = j THEN f[n] ELSE 0
<1> DEFINE g(m) == [i \in 1..m |-> IF part[i] = j THEN f[i] ELSE 0]
<1>1. \A m \in 0..n : \A i \in 1..m : g(n)[i] = g(m)[i] /\ g(m)[i] \in Int
  OBVIOUS
<1>2. g(n)[n] = (IF part[n] = j THEN f[n] ELSE 0) \/ n = 0
  OBVIOUS
<1>3. \A m \in 0..n : Part(f, part, j, m) = SumUpTo(g(m), m)
  BY DEF Part
<1> HIDE DEF g
<1>4. Part(f, part, j, n) \in Int
  BY <1>1, <1>3, SumIs
<1>5. Part(f, part, j, 0) = 0
  BY <1>1, <1>3, SumIs
<1>6. ASSUME n > 0
      PROVE  Part(f, part, j, n) = Part(f, part, j, n - 1) + IF part[n] = j THEN f[n] ELSE 0
  <2>1. SumUpTo(g(n), n) = SumUpTo(g(n), n - 1) + g(n)[n]
    BY <1>1, <1>6, SumIs
  <2>2. SumUpTo(g(n), n - 1) = SumUpTo(g(n - 1), n - 1)
    BY <1>1, <1>6, SumsAgree
  <2> QED
    BY <1>2, <1>3, <1>6, <2>1, <2>2
<1> QED
  BY <1>4, <1>5, <1>6

SumOfParts(f, part, n, m) == SumUpTo([j \in 1..m |-> Part(f, part, j, n)], m)

LEMMA PartsAddUp ==
  ASSUME NEW f, NEW part, NEW n \in Nat, NEW m \in Nat,
         \A i \in 1..n : f[i] \in Int /\ part[i] \in 1..m
  PROVE  SumOfParts(f, part, n, m) = SumUpTo(f, n)
<1> DEFINE parts(k) == [j \in 1..m |-> Part(f, part, j, k)]
           U == {k \in Nat : k <= n => SumUpTo(parts(k), m) = SumUpTo(f, k)}
<1>1. \A k \in 0..n : \A j \in 1..m : parts(k)[j] = Part(f, part, j, k) /\ parts(k)[j] \in Int
  BY PartIs
<1>2. 0 \in U
  <2>1. \A j \in 1..m : parts(0)[j] = 0
    BY <1>1, PartIs
  <2> HIDE DEF parts
  <2>2. SumUpTo(parts(0), m) = 0
    BY <2>1, SumOfNone
  <2> QED
    BY <2>2, SumIs
<1>3. ASSUME NEW k \in Nat, k \in U PROVE k + 1 \in U
  <2> SUFFICES ASSUME k + 1 <= n PROVE SumUpTo(parts(k + 1), m) = SumUpTo(f, k + 1)
    OBVIOUS
  <2> DEFINE one == [j \in 1..m |-> IF part[k + 1] = j THEN f[k + 1] ELSE 0]
  <2>1. k \in 0..n /\ k + 1 \in 0..n /\ k + 1 \in 1..n /\ (k + 1) - 1 = k /\ k + 1 > 0 /\ k <= n
    OBVIOUS
  <2>2. ASSUME NEW j \in 1..m
        PROVE  one[j] \in Int /\ parts(k + 1)[j] = parts(k)[j] + one[j]
    <3>1. \A i \in 1..(k + 1) : f[i] \in Int
      BY <2>1
    <3>2. Part(f, part, j, k + 1) = Part(f, part, j, k) + IF part[k + 1] = j THEN f[k + 1] ELSE 0
      BY <2>1, <3>1, PartIs
    <3> QED
      BY <2>1, <3>2
  <2>3. part[k + 1] \in 1..m /\ f[k + 1] \in Int /\ one[part[k + 1]] = f[k + 1]
        /\ \A j \in 1..m : j # part[k + 1] => one[j] = 0
    BY <2>1
  <2>4. SumUpTo(parts(k), m) = SumUpTo(f, k)
    BY <1>3, <2>1
  <2> HIDE DEF parts, one
  <2>5. SumUpTo(parts(k + 1), m) = SumUpTo(parts(k), m) + SumUpTo(one, m)
    BY <1>1, <2>1, <2>2, SumOfSums
  <2>6. SumUpTo(one, m) = f[k + 1]
    BY <2>3, SumOfOne
  <2>7. SumUpTo(f, k + 1) = SumUpTo(f, k) + f[k + 1]
    BY <2>1, SumIs
  <2> QED
    BY <2>4, <2>5, <2>6, <2>7
<1> HIDE DEF U
<1>4. n \in U
  BY <1>2, <1>3, Induct
<1> QED
  BY <1>4 DEF U, SumOfParts

-----------------------------------------------------------------------------
(* Positions and the rows at them.                                         *)

Rank(at, i) == Cardinality(at \cap 1..i)

LEMMA RankIs ==
  ASSUME NEW at, NEW i \in Nat
  PROVE  /\ Rank(at, i) \in 0..i
         /\ Rank(at, 0) = 0
         /\ i > 0 => Rank(at, i) = IF i \in at THEN Rank(at, i - 1) + 1 ELSE Rank(at, i - 1)
<1>1. ASSUME NEW j \in Nat
      PROVE  IsFiniteSet(at \cap 1..j) /\ Rank(at, j) \in 0..j
  <2>1. IsFiniteSet(1..j) /\ Cardinality(1..j) = j
    BY FS_Interval
  <2> QED
    BY <2>1, FS_Subset, FS_CardinalityType DEF Rank
<1>2. at \cap 1..0 = {}
  OBVIOUS
<1>3. ASSUME i > 0
      PROVE  Rank(at, i) = IF i \in at THEN Rank(at, i - 1) + 1 ELSE Rank(at, i - 1)
  <2>1. i - 1 \in Nat /\ i \notin at \cap 1..(i - 1)
    BY <1>3
  <2>2. at \cap 1..i = IF i \in at THEN (at \cap 1..(i - 1)) \cup {i} ELSE at \cap 1..(i - 1)
    BY <1>3
  <2> QED
    BY <1>1, <2>1, <2>2, FS_AddElement DEF Rank
<1> QED
  BY <1>1, <1>2, <1>3, FS_EmptySet DEF Rank

LEMMA RankNext ==
  ASSUME NEW at, NEW m \in Nat
  PROVE  Rank(at, m + 1) = (IF m + 1 \in at THEN Rank(at, m) + 1 ELSE Rank(at, m)) /\ Rank(at, m) \in Nat
<1>1. m + 1 \in Nat /\ m + 1 > 0 /\ (m + 1) - 1 = m
  OBVIOUS
<1> QED
  BY <1>1, RankIs

\* As many ones as positions.
LEMMA CountAsSum ==
  ASSUME NEW at, NEW n \in Nat
  PROVE  Rank(at, n) = SumUpTo([i \in 1..n |-> IF i \in at THEN 1 ELSE 0], n)
<1> DEFINE f == [i \in 1..n |-> IF i \in at THEN 1 ELSE 0]
           U == {m \in Nat : m <= n => Rank(at, m) = SumUpTo(f, m)}
<1>1. \A i \in 1..n : f[i] \in Int /\ f[i] = IF i \in at THEN 1 ELSE 0
  OBVIOUS
<1> HIDE DEF f
<1>2. 0 \in U
  BY <1>1, SumIs, RankIs
<1>3. ASSUME NEW m \in Nat, m \in U PROVE m + 1 \in U
  <2> SUFFICES ASSUME m + 1 <= n PROVE Rank(at, m + 1) = SumUpTo(f, m + 1)
    OBVIOUS
  <2>1. SumUpTo(f, m + 1) = SumUpTo(f, m) + f[m + 1]
    BY <1>1, SumIs
  <2>2. Rank(at, m + 1) = IF m + 1 \in at THEN Rank(at, m) + 1 ELSE Rank(at, m)
    BY RankIs
  <2>3. Rank(at, m) \in Int
    BY RankIs
  <2> QED
    BY <1>1, <1>3, <2>1, <2>2, <2>3
<1> HIDE DEF U
<1>4. n \in U
  BY <1>2, <1>3, Induct
<1> QED
  BY <1>4 DEF U, f

LEMMA RanksGrow ==
  ASSUME NEW at, NEW i \in Nat, NEW k \in Nat, i <= k
  PROVE  /\ Rank(at, i) <= Rank(at, k)
         /\ i < k /\ k \in at => Rank(at, i) < Rank(at, k)
<1> DEFINE U == {m \in Nat : Rank(at, i) <= Rank(at, i + m)}
<1>1. 0 \in U
  BY RankIs
<1>2. ASSUME NEW m \in Nat, m \in U PROVE m + 1 \in U
  <2>1. i + m \in Nat /\ i + (m + 1) \in Nat /\ (i + (m + 1)) - 1 = i + m /\ i + (m + 1) > 0
    OBVIOUS
  <2>2. Rank(at, i + (m + 1)) >= Rank(at, i + m) /\ Rank(at, i + m) \in Int /\ Rank(at, i) \in Int
        /\ Rank(at, i + (m + 1)) \in Int
    BY <2>1, RankIs
  <2> QED
    BY <1>2, <2>2
<1> HIDE DEF U
<1>3. Nat \subseteq U
  BY <1>1, <1>2, Induct
<1>4. \A j \in Nat : i <= j => Rank(at, i) <= Rank(at, j)
  <2> SUFFICES ASSUME NEW j \in Nat, i <= j PROVE Rank(at, i) <= Rank(at, j)
    OBVIOUS
  <2>1. j - i \in U /\ i + (j - i) = j
    BY <1>3
  <2> QED
    BY <2>1 DEF U
<1>5. ASSUME i < k, k \in at
      PROVE  Rank(at, i) < Rank(at, k)
  <2>1. Rank(at, k) = Rank(at, k - 1) + 1 /\ Rank(at, k - 1) \in Int /\ Rank(at, i) \in Int
    BY <1>5, RankIs
  <2>2. Rank(at, i) <= Rank(at, k - 1)
    BY <1>4, <1>5
  <2> QED
    BY <2>1, <2>2
<1> QED
  BY <1>4, <1>5

\* Every rank is that of a position.
LEMMA RanksReached ==
  ASSUME NEW at, NEW n \in Nat, NEW j \in 1..Rank(at, n)
  PROVE  \E i \in at \cap 1..n : Rank(at, i) = j
<1> DEFINE U == {m \in Nat : \A l \in 1..Rank(at, m) : \E i \in at \cap 1..m : Rank(at, i) = l}
<1>1. 0 \in U
  BY RankIs
<1>2. ASSUME NEW m \in Nat, m \in U PROVE m + 1 \in U
  <2> SUFFICES ASSUME NEW l \in 1..Rank(at, m + 1)
               PROVE  \E i \in at \cap 1..(m + 1) : Rank(at, i) = l
    OBVIOUS
  <2>1. Rank(at, m + 1) = (IF m + 1 \in at THEN Rank(at, m) + 1 ELSE Rank(at, m)) /\ Rank(at, m) \in Nat
    BY RankIs
  <2>2. CASE l \in 1..Rank(at, m)
    BY <1>2, <2>2
  <2>3. CASE l \notin 1..Rank(at, m)
    <3>1. m + 1 \in at /\ l = Rank(at, m + 1)
      BY <2>1, <2>3
    <3> QED
      BY <3>1
  <2> QED
    BY <2>2, <2>3
<1> HIDE DEF U
<1>3. n \in U
  BY <1>1, <1>2, Induct
<1> QED
  BY <1>3 DEF U

LEMMA AppendIs ==
  ASSUME NEW S, NEW s \in Seq(S), NEW x \in S
  PROVE  /\ Append(s, x) \in Seq(S) /\ Len(Append(s, x)) = Len(s) + 1
         /\ \A i \in 1..Len(s) : Append(s, x)[i] = s[i]
         /\ Append(s, x)[Len(s) + 1] = x
OBVIOUS

\* The rows taken from the first n, each at its rank.
TakenTo(s, S, table, at, n) ==
  /\ s \in Seq(S) /\ Len(s) = Rank(at, n)
  /\ \A i \in at \cap 1..n : s[Rank(at, i)] = table[i]

TakeNext(s, table, at, n) == IF n \in at THEN Append(s, table[n]) ELSE s

LEMMA TakenNext ==
  ASSUME NEW S, NEW table \in Seq(S), NEW at, NEW m \in Nat, m + 1 <= Len(table),
         NEW s, TakenTo(s, S, table, at, m)
  PROVE  TakenTo(TakeNext(s, table, at, m + 1), S, table, at, m + 1)
<1> DEFINE new == TakeNext(s, table, at, m + 1)
<1>1. s \in Seq(S) /\ Len(s) = Rank(at, m) /\ table[m + 1] \in S
      /\ \A i \in at \cap 1..m : s[Rank(at, i)] = table[i]
  <2>1. m + 1 \in 1..Len(table)
    OBVIOUS
  <2> QED
    BY <2>1 DEF TakenTo
<1>2. Rank(at, m + 1) = (IF m + 1 \in at THEN Rank(at, m) + 1 ELSE Rank(at, m)) /\ Rank(at, m) \in Nat
  BY RankNext
<1>3. \A i \in at \cap 1..m : Rank(at, i) \in 1..Rank(at, m)
  <2> SUFFICES ASSUME NEW i \in at \cap 1..m PROVE Rank(at, i) \in 1..Rank(at, m)
    OBVIOUS
  <2>1. i \in Nat /\ i > 0 /\ i - 1 \in Nat /\ i <= m
    OBVIOUS
  <2>2. Rank(at, i) = Rank(at, i - 1) + 1 /\ Rank(at, i - 1) \in Nat
    BY <2>1, RankIs
  <2>3. Rank(at, i) <= Rank(at, m)
    BY <2>1, RanksGrow
  <2> QED
    BY <2>2, <2>3, <1>2
<1>4. CASE m + 1 \in at
  <2>1. new = Append(s, table[m + 1])
    BY <1>4 DEF TakeNext
  <2> HIDE DEF new
  <2>2. new \in Seq(S) /\ Len(new) = Rank(at, m + 1) /\ new[Rank(at, m + 1)] = table[m + 1]
        /\ \A l \in 1..Rank(at, m) : new[l] = s[l]
    BY <1>1, <1>2, <1>4, <2>1, AppendIs
  <2>3. \A i \in at \cap 1..(m + 1) : new[Rank(at, i)] = table[i]
    BY <1>1, <1>3, <2>2
  <2> QED
    BY <2>2, <2>3 DEF TakenTo, new
<1>5. CASE m + 1 \notin at
  <2>1. new = s /\ at \cap 1..(m + 1) = at \cap 1..m
    BY <1>5 DEF TakeNext
  <2> QED
    BY <1>1, <1>2, <1>5, <2>1 DEF TakenTo
<1> QED
  BY <1>4, <1>5

RightTaken(t, table, at, m) ==
  t = [n \in 0..m |-> IF n = 0 THEN <<>> ELSE TakeNext(t[n - 1], table, at, n)]

LEMMA TakenIs ==
  ASSUME NEW S, NEW table \in Seq(S), NEW at, NEW m \in Nat, m <= Len(table)
  PROVE  \E t : /\ RightTaken(t, table, at, m)
                /\ \A n \in 0..m : TakenTo(t[n], S, table, at, n)
<1> DEFINE Good(t, n) == /\ RightTaken(t, table, at, n)
                         /\ \A k \in 0..n : TakenTo(t[k], S, table, at, k)
           U == {n \in Nat : n <= Len(table) => \E t : Good(t, n)}
<1>0. Len(table) \in Nat
  OBVIOUS
<1>1. 0 \in U
  <2>1. TakenTo(<<>>, S, table, at, 0)
    BY RankIs DEF TakenTo
  <2> DEFINE t == [n \in 0..0 |-> <<>>]
  <2>2. RightTaken(t, table, at, 0)
    BY DEF RightTaken
  <2> QED
    BY <2>1, <2>2
<1>2. ASSUME NEW n \in Nat, n \in U PROVE n + 1 \in U
  <2> SUFFICES ASSUME n + 1 <= Len(table) PROVE \E t : Good(t, n + 1)
    OBVIOUS
  <2>1. n <= Len(table)
    BY <1>0
  <2>2. \E t : Good(t, n)
    BY <1>2, <2>1
  <2>3. PICK t : Good(t, n)
    BY <2>2
  <2>4. \A k \in 0..n : t[k] = IF k = 0 THEN <<>> ELSE TakeNext(t[k - 1], table, at, k)
    BY <2>3 DEF RightTaken
  <2>5. \A k \in 0..n : TakenTo(t[k], S, table, at, k)
    BY <2>3
  <2> DEFINE new == TakeNext(t[n], table, at, n + 1)
             u == [k \in 0..(n + 1) |-> IF k = n + 1 THEN new ELSE t[k]]
  <2> HIDE DEF U
  <2>6. TakenTo(new, S, table, at, n + 1)
    BY <2>5, TakenNext
  <2> HIDE DEF new
  <2>7. \A k \in 0..(n + 1) : TakenTo(u[k], S, table, at, k)
    BY <2>5, <2>6
  <2>8. \A k \in 0..(n + 1) : u[k] = IF k = 0 THEN <<>> ELSE TakeNext(u[k - 1], table, at, k)
    <3> SUFFICES ASSUME NEW k \in 0..(n + 1)
                 PROVE  u[k] = IF k = 0 THEN <<>> ELSE TakeNext(u[k - 1], table, at, k)
      OBVIOUS
    <3>1. CASE k = n + 1
      <4>1. u[k] = new /\ k # 0 /\ u[k - 1] = t[n]
        BY <3>1
      <4> QED
        BY <3>1, <4>1 DEF new
    <3>2. CASE k # n + 1
      <4>1. k \in 0..n /\ u[k] = t[k] /\ (k # 0 => u[k - 1] = t[k - 1])
        BY <3>2
      <4> QED
        BY <2>4, <4>1
    <3> QED
      BY <3>1, <3>2
  <2>9. RightTaken(u, table, at, n + 1)
    <3>1. u = [k \in 0..(n + 1) |-> u[k]]
      OBVIOUS
    <3> HIDE DEF u
    <3> QED
      BY <2>8, <3>1 DEF RightTaken
  <2> QED
    BY <2>7, <2>9
<1> HIDE DEF U
<1>3. m \in U
  BY <1>1, <1>2, Induct
<1> QED
  BY <1>3 DEF U

\* RowsAt has the rows at the positions, each at its rank.
LEMMA RowsAtAre ==
  ASSUME NEW S, NEW table \in Seq(S), NEW at
  PROVE  /\ RowsAt(table, at) \in Seq(S)
         /\ Len(RowsAt(table, at)) = Rank(at, Len(table))
         /\ \A i \in at \cap 1..Len(table) : RowsAt(table, at)[Rank(at, i)] = table[i]
<1> DEFINE len == Len(table)
           v == CHOOSE t : RightTaken(t, table, at, len)
<1>1. len \in Nat
  OBVIOUS
<1>2. PICK t : RightTaken(t, table, at, len) /\ \A n \in 0..len : TakenTo(t[n], S, table, at, n)
  BY <1>1, TakenIs
<1>3. RowsAt(table, at) = v[len]
  BY DEF RowsAt, RightTaken, TakeNext
<1>4. RightTaken(v, table, at, len)
  BY <1>2
<1> HIDE DEF v, len
<1>5. /\ \A n \in 0..len : v[n] = IF n = 0 THEN <<>> ELSE TakeNext(v[n - 1], table, at, n)
      /\ \A n \in 0..len : t[n] = IF n = 0 THEN <<>> ELSE TakeNext(t[n - 1], table, at, n)
  BY <1>2, <1>4 DEF RightTaken
<1> DEFINE W == {m \in Nat : m <= len => v[m] = t[m]}
<1>6. 0 \in W
  BY <1>1, <1>5
<1>7. ASSUME NEW m \in Nat, m \in W PROVE m + 1 \in W
  <2> SUFFICES ASSUME m + 1 <= len PROVE v[m + 1] = t[m + 1]
    OBVIOUS
  <2>1. m + 1 \in 0..len /\ (m + 1) - 1 = m /\ m + 1 # 0 /\ m <= len
    BY <1>1
  <2>2. v[m] = t[m]
    BY <1>7, <2>1
  <2> QED
    BY <1>5, <2>1, <2>2
<1> HIDE DEF W
<1>8. len \in W
  BY <1>1, <1>6, <1>7, Induct
<1>9. v[len] = t[len]
  BY <1>1, <1>8 DEF W
<1>10. TakenTo(t[len], S, table, at, len)
  BY <1>1, <1>2
<1> QED
  BY <1>3, <1>9, <1>10 DEF TakenTo, len

-----------------------------------------------------------------------------
(* The order of values and of rows.                                        *)

SortValues == [kind : {"string", "number", "null", "absent"}, text : Nat, num : Int \cup {NotNumeric}]

\* Two values that numbers and other texts do not mix in.
Alike(v, w) == ~IsNil(v) /\ ~IsNil(w) => (v.num = NotNumeric <=> w.num = NotNumeric)

LEMMA CellValues ==
  Cells \subseteq SortValues /\ Null \in SortValues /\ Absent \in SortValues
  /\ \A n \in Int : Computed(n) \in SortValues
BY QueryAssumption DEF Cells, Numerals, SortValues, Str, Num, Null, Absent, Computed

LEMMA ValuesAreOrdered ==
  ASSUME NEW u \in SortValues, NEW v \in SortValues, NEW w \in SortValues,
         Alike(u, v), Alike(v, w), Alike(u, w)
  PROVE  /\ CompareSortValues(u, v) \in {-1, 0, 1}
         /\ CompareSortValues(v, u) = -CompareSortValues(u, v)
         /\ CompareSortValues(u, v) <= 0 /\ CompareSortValues(v, w) <= 0 =>
              /\ CompareSortValues(u, w) <= 0
              /\ CompareSortValues(u, v) < 0 \/ CompareSortValues(v, w) < 0 =>
                   CompareSortValues(u, w) < 0
<1> DEFINE c(x, y) == CompareSortValues(x, y)
           number(x) == x.num \in Int
<1>1. \A x \in {u, v, w} : x.text \in Int /\ (x.num = NotNumeric \/ x.num \in Int) /\ IsNil(x) \in BOOLEAN
  BY DEF SortValues, IsNil
<1>2. ASSUME NEW x \in {u, v, w}, NEW y \in {u, v, w}, Alike(x, y)
      PROVE  c(x, y) = IF IsNil(x) THEN IF IsNil(y) THEN 0 ELSE 1
                       ELSE IF IsNil(y) THEN -1
                       ELSE IF number(x) THEN IF x.num < y.num THEN -1 ELSE IF x.num > y.num THEN 1 ELSE 0
                       ELSE IF x.text < y.text THEN -1 ELSE IF x.text > y.text THEN 1 ELSE 0
  BY <1>1, <1>2, UseAssumption DEF CompareSortValues, Sign, BothNumeric, Alike
<1>3. Alike(v, u)
  BY DEF Alike
<1>4. \A x, y \in {u, v, w} : Alike(x, y) /\ ~IsNil(x) /\ ~IsNil(y) => (number(x) <=> number(y))
  BY <1>1, UseAssumption DEF Alike
<1> HIDE DEF c, number
<1>5. c(u, v) \in {-1, 0, 1} /\ c(v, u) = -c(u, v)
  BY <1>1, <1>2, <1>3, <1>4 DEF number
<1>6. ASSUME c(u, v) <= 0, c(v, w) <= 0
      PROVE  c(u, w) <= 0 /\ (c(u, v) < 0 \/ c(v, w) < 0 => c(u, w) < 0)
  <2>1. CASE IsNil(v)
    BY <1>1, <1>2, <1>6, <2>1
  <2>2. CASE ~IsNil(v) /\ (IsNil(u) \/ IsNil(w))
    BY <1>1, <1>2, <1>6, <2>2
  <2>3. CASE ~IsNil(v) /\ ~IsNil(u) /\ ~IsNil(w)
    <3>1. CASE number(v)
      <4>1. number(u) /\ number(w)
        BY <1>4, <2>3, <3>1
      <4> QED
        BY <1>1, <1>2, <1>6, <2>3, <3>1, <4>1 DEF number
    <3>2. CASE ~number(v)
      <4>1. ~number(u) /\ ~number(w)
        BY <1>4, <2>3, <3>2
      <4> QED
        BY <1>1, <1>2, <1>6, <2>3, <3>2, <4>1
    <3> QED
      BY <3>1, <3>2
  <2> QED
    BY <2>1, <2>2, <2>3
<1> QED
  BY <1>5, <1>6 DEF c

\* How a clause orders two rows.
By(left, right, clause) ==
  clause.direction * CompareSortValues(Child(left, clause.field), Child(right, clause.field))

LEMMA ByIs ==
  ASSUME NEW clause \in [field : STRING, direction : {-1, 1}], NEW left, NEW right,
         CompareSortValues(Child(left, clause.field), Child(right, clause.field)) \in {-1, 0, 1}
  PROVE  By(left, right, clause)
           = IF clause.direction = 1
             THEN CompareSortValues(Child(left, clause.field), Child(right, clause.field))
             ELSE -CompareSortValues(Child(left, clause.field), Child(right, clause.field))
<1> DEFINE c == CompareSortValues(Child(left, clause.field), Child(right, clause.field))
           d == clause.direction
<1>1. By(left, right, clause) = d * c
  BY DEF By
<1>2. d \in {-1, 1} /\ c \in {-1, 0, 1}
  OBVIOUS
<1> HIDE DEF c, d
<1>3. d * c = IF d = 1 THEN c ELSE -c
  BY <1>2
<1> QED
  BY <1>1, <1>3 DEF c, d

ColumnValues(S, field) == {Child(r, field) : r \in S}

Orderly(S, field) ==
  ColumnValues(S, field) \subseteq SortValues /\ \A v, w \in ColumnValues(S, field) : Alike(v, w)

\* compareSortValues() orders a column.
Ranked(S, field) ==
  \A u, v, w \in ColumnValues(S, field) :
    /\ CompareSortValues(u, v) \in {-1, 0, 1}
    /\ CompareSortValues(v, u) = -CompareSortValues(u, v)
    /\ CompareSortValues(u, v) <= 0 /\ CompareSortValues(v, w) <= 0 =>
         /\ CompareSortValues(u, w) <= 0
         /\ CompareSortValues(u, v) < 0 \/ CompareSortValues(v, w) < 0 =>
              CompareSortValues(u, w) < 0

LEMMA OrderlyIsRanked ==
  ASSUME NEW S, NEW field, Orderly(S, field)
  PROVE  Ranked(S, field)
BY ValuesAreOrdered DEF Orderly, Ranked

LEMMA ClauseOrders ==
  ASSUME NEW S, NEW clause \in [field : STRING, direction : {-1, 1}], Ranked(S, clause.field),
         NEW r \in S, NEW s \in S, NEW t \in S
  PROVE  /\ By(r, s, clause) \in {-1, 0, 1}
         /\ By(s, r, clause) = -By(r, s, clause)
         /\ By(r, s, clause) <= 0 /\ By(s, t, clause) <= 0 =>
              /\ By(r, t, clause) <= 0
              /\ By(r, s, clause) < 0 \/ By(s, t, clause) < 0 => By(r, t, clause) < 0
<1> DEFINE cell(x) == Child(x, clause.field)
           c(x, y) == CompareSortValues(cell(x), cell(y))
<1>1. \A x \in {r, s, t} : cell(x) \in ColumnValues(S, clause.field)
  BY DEF ColumnValues
<1> HIDE DEF cell
<1>3. \A x, y, z \in {r, s, t} :
        /\ c(x, y) \in {-1, 0, 1} /\ c(y, x) = -c(x, y)
        /\ c(x, y) <= 0 /\ c(y, z) <= 0 =>
             c(x, z) <= 0 /\ (c(x, y) < 0 \/ c(y, z) < 0 => c(x, z) < 0)
  BY <1>1 DEF Ranked
<1>4. \A x, y \in {r, s, t} : By(x, y, clause) = IF clause.direction = 1 THEN c(x, y) ELSE -c(x, y)
  BY <1>3, ByIs DEF cell
<1> HIDE DEF c
<1>5. CASE clause.direction = 1
  <2>1. \A x, y \in {r, s, t} : By(x, y, clause) = c(x, y)
    BY <1>4, <1>5
  <2> QED
    BY <1>3, <2>1
<1>6. CASE clause.direction = -1
  <2>1. \A x, y \in {r, s, t} : By(x, y, clause) = c(y, x)
    <3> SUFFICES ASSUME NEW x \in {r, s, t}, NEW y \in {r, s, t} PROVE By(x, y, clause) = c(y, x)
      OBVIOUS
    <3>1. By(x, y, clause) = IF clause.direction = 1 THEN c(x, y) ELSE -c(x, y)
      BY <1>4
    <3>2. clause.direction # 1
      BY <1>6
    <3>3. c(y, x) = -c(x, y)
      BY <1>3
    <3> QED
      BY <3>1, <3>2, <3>3
  <2>2. c(t, s) <= 0 /\ c(s, r) <= 0 =>
             c(t, r) <= 0 /\ (c(t, s) < 0 \/ c(s, r) < 0 => c(t, r) < 0)
    BY <1>3
  <2>3. c(s, r) \in {-1, 0, 1} /\ c(r, s) = -c(s, r)
    BY <1>3
  <2> QED
    BY <2>1, <2>2, <2>3
<1> QED
  BY <1>5, <1>6

LEMMA BeforeIs ==
  ASSUME NEW left, NEW right, NEW clauses
  PROVE  Before(left, right, clauses) <=>
           \E i \in DOMAIN clauses : /\ By(left, right, clauses[i]) < 0
                                     /\ \A j \in 1..(i - 1) : By(left, right, clauses[j]) = 0
BY DEF Before, By

LEMMA ElementsAre ==
  ASSUME NEW T, NEW s \in Seq(T)
  PROVE  \A i \in DOMAIN s : s[i] \in T
OBVIOUS

\* The order std::sort is given is one it accepts, if compareSortValues() orders
\* every column it names.
LEMMA RankedRowsAreWeaklyOrdered ==
  ASSUME NEW S, NEW clauses \in Seq([field : STRING, direction : {-1, 1}]), \A i \in DOMAIN clauses : Ranked(S, clauses[i].field)
  PROVE  StrictWeakOrder(S, clauses)
<1>0. DOMAIN clauses \subseteq Nat /\ \A i \in DOMAIN clauses : i > 0 /\ \A j \in 1..i : j \in DOMAIN clauses
  OBVIOUS
<1> DEFINE o(x, y, i) == By(x, y, clauses[i])
<1>1. \A x, y, z \in S : \A i \in DOMAIN clauses :
        /\ o(x, y, i) \in {-1, 0, 1} /\ o(y, x, i) = -o(x, y, i)
        /\ o(x, y, i) <= 0 /\ o(y, z, i) <= 0 =>
             o(x, z, i) <= 0 /\ (o(x, y, i) < 0 \/ o(y, z, i) < 0 => o(x, z, i) < 0)
  <2>1. \A i \in DOMAIN clauses : clauses[i] \in [field : STRING, direction : {-1, 1}]
    BY ElementsAre
  <2> QED
    BY <2>1, ClauseOrders DEF o
<1>2. \A x, y : Before(x, y, clauses) <=>
        \E i \in DOMAIN clauses : o(x, y, i) < 0 /\ \A j \in 1..(i - 1) : o(x, y, j) = 0
  BY BeforeIs
<1> HIDE DEF o
<1>3. ASSUME NEW r \in S, NEW s \in S, NEW t \in S, NEW i \in DOMAIN clauses,
             o(r, s, i) = 0, o(s, t, i) = 0
      PROVE  o(r, t, i) = 0
  <2>1. o(r, t, i) <= 0 /\ o(r, t, i) \in {-1, 0, 1}
    BY <1>1, <1>3
  <2>2. o(t, s, i) = 0 /\ o(s, r, i) = 0
    BY <1>1, <1>3
  <2>3. o(t, r, i) <= 0 /\ o(t, r, i) = -o(r, t, i)
    BY <1>1, <2>2
  <2> QED
    BY <2>1, <2>3
<1>4. ASSUME NEW r \in S, NEW s \in S, NEW t \in S, Before(r, s, clauses), Before(s, t, clauses)
      PROVE  Before(r, t, clauses)
  <2>1. PICK i \in DOMAIN clauses : o(r, s, i) < 0 /\ \A j \in 1..(i - 1) : o(r, s, j) = 0
    BY <1>2, <1>4
  <2>2. PICK k \in DOMAIN clauses : o(s, t, k) < 0 /\ \A j \in 1..(k - 1) : o(s, t, j) = 0
    BY <1>2, <1>4
  <2> DEFINE m == IF i < k THEN i ELSE k
  <2>3. m \in DOMAIN clauses /\ m <= i /\ m <= k /\ i \in Nat /\ k \in Nat /\ m \in Nat
    BY <1>0
  <2>4. o(r, s, m) <= 0 /\ o(s, t, m) <= 0 /\ (o(r, s, m) < 0 \/ o(s, t, m) < 0)
    <3>1. CASE i < k
      <4>1. m = i /\ i \in 1..(k - 1)
        BY <1>0, <3>1
      <4>2. o(s, t, i) = 0
        BY <2>2, <4>1
      <4> HIDE DEF m
      <4> QED
        BY <1>1, <2>1, <4>1, <4>2
    <3>2. CASE i = k
      <4>1. m = i
        BY <3>2
      <4> HIDE DEF m
      <4> QED
        BY <1>1, <2>1, <2>2, <3>2, <4>1
    <3>3. CASE k < i
      <4>1. m = k /\ k \in 1..(i - 1)
        BY <1>0, <3>3
      <4>2. o(r, s, k) = 0
        BY <2>1, <4>1
      <4> HIDE DEF m
      <4> QED
        BY <1>1, <2>2, <4>1, <4>2
    <3> QED
      BY <2>3, <3>1, <3>2, <3>3
  <2> HIDE DEF m
  <2>5. o(r, t, m) < 0
    BY <1>1, <2>3, <2>4
  <2>6. ASSUME NEW j \in 1..(m - 1)
        PROVE  o(r, t, j) = 0
    <3>1. j \in DOMAIN clauses /\ j \in 1..(i - 1) /\ j \in 1..(k - 1)
      BY <1>0, <2>3
    <3> QED
      BY <1>3, <2>1, <2>2, <3>1
  <2> QED
    BY <1>2, <2>3, <2>5, <2>6
<1>5. ASSUME NEW r \in S, NEW s \in S, NEW t \in S, Before(r, t, clauses)
      PROVE  Before(r, s, clauses) \/ Before(s, t, clauses)
  <2>1. PICK i \in DOMAIN clauses : o(r, t, i) < 0 /\ \A j \in 1..(i - 1) : o(r, t, j) = 0
    BY <1>2, <1>5
  <2> DEFINE T == {k \in DOMAIN clauses : o(r, s, k) # 0 \/ o(s, t, k) # 0}
  <2>2. i \in T
    BY <1>3, <2>1
  <2>3. T \subseteq Nat
    BY <1>0
  <2>4. Min(T) \in T /\ \A y \in T : Min(T) <= y
    BY <2>2, <2>3, LeastOf
  <2>5. PICK k \in T : \A y \in T : k <= y
    BY <2>4
  <2>6. k \in DOMAIN clauses /\ k \in Nat /\ i \in Nat /\ k <= i
    BY <1>0, <2>2, <2>5
  <2>7. ASSUME NEW j \in 1..(k - 1)
        PROVE  o(r, s, j) = 0 /\ o(s, t, j) = 0
    <3>1. j \in DOMAIN clauses /\ ~(k <= j)
      BY <1>0, <2>6
    <3> QED
      BY <2>5, <3>1
  <2>8. CASE o(r, s, k) < 0
    BY <1>2, <2>6, <2>7, <2>8
  <2>9. CASE o(s, t, k) < 0
    BY <1>2, <2>6, <2>7, <2>9
  <2>10. CASE ~(o(r, s, k) < 0) /\ ~(o(s, t, k) < 0)
    <3>1. o(s, r, k) <= 0 /\ o(t, s, k) <= 0 /\ (o(s, r, k) < 0 \/ o(t, s, k) < 0)
      BY <1>1, <2>5, <2>6, <2>10
    <3>2. o(t, r, k) < 0
      BY <1>1, <2>6, <3>1
    <3>3. o(r, t, k) > 0
      BY <1>1, <2>6, <3>2
    <3>4. k = i \/ k \in 1..(i - 1)
      BY <1>0, <2>6
    <3>5. o(r, t, k) \in {-1, 0, 1}
      BY <1>1, <2>6
    <3>6. o(r, t, k) < 0 \/ o(r, t, k) = 0
      BY <2>1, <3>4
    <3> QED
      BY <3>3, <3>5, <3>6
  <2> QED
    BY <2>8, <2>9, <2>10
<1> QED
  BY <1>4, <1>5 DEF StrictWeakOrder

-----------------------------------------------------------------------------
(* The states: typed rows, and an answer that fits the rows it was made    *)
(* from.                                                                   *)

\* Rows with an id, which is a text, and perhaps a value.
TableRows == {r \in [{"id"} -> Cells] \cup [{"id", "k"} -> Cells] : \E t \in Texts : r["id"] = Str(t)}

TypeInv == config \in Configs /\ rows \in Seq(TableRows)

\* The table does not change between an answer and its taking.
AnswerInv ==
  answer # NoQuery =>
    answer.query \in config.asks /\ answer.result \in Select(rows, answer.query)

\* An answer is one that the code makes of the typed rows it is returned with.
QueryInv == TypeInv /\ AnswerInv

LEMMA NewRowsAre ==
  ASSUME NEW id \in Ids, NEW cell \in Cells
  PROVE  NewRow(id, cell) \in TableRows
<1>1. Str(id) \in Cells /\ id \in Texts
  BY QueryAssumption DEF Cells
<1>2. NewRow(id, cell) \in [{"id"} -> Cells] \cup [{"id", "k"} -> Cells] /\ NewRow(id, cell)["id"] = Str(id)
  BY <1>1 DEF NewRow
<1> QED
  BY <1>1, <1>2 DEF TableRows

LEMMA RowSequences ==
  ASSUME NEW S, NEW s \in Seq(S), NEW x \in S, NEW n \in 1..Len(s)
  PROVE  /\ Append(s, x) \in Seq(S)
         /\ [s EXCEPT ![n] = x] \in Seq(S) /\ Len([s EXCEPT ![n] = x]) = Len(s)
         /\ Front(s) \in Seq(S)
         /\ Last(s) \in S
<1>1. Append(s, x) \in Seq(S) /\ [s EXCEPT ![n] = x] \in Seq(S) /\ Len([s EXCEPT ![n] = x]) = Len(s)
  BY ExceptSeq
<1>2. SubSeq(s, 1, Len(s) - 1) \in Seq(S)
  OBVIOUS
<1> QED
  BY <1>1, <1>2 DEF Front, Last

LEMMA PositionIs ==
  ASSUME NEW id, rows \in Seq(TableRows)
  PROVE  /\ Position(id) \in 0..Len(rows)
         /\ Position(id) > 0 => IdOf(rows[Position(id)]) = id
         /\ Position(id) = 0 => \A i \in DOMAIN rows : IdOf(rows[i]) # id
<1> DEFINE I == {i \in 1..Len(rows) : IdOf(rows[i]) = id}
<1>1. Position(id) = IF I # {} THEN Min(I) ELSE 0
  BY DEF Position, SelectInSeq
<1>2. I \subseteq Nat /\ I \subseteq 1..Len(rows)
  OBVIOUS
<1>3. I # {} => Min(I) \in I
  BY <1>2, LeastOf
<1> QED
  BY <1>1, <1>3

LEMMA RowsStayTyped ==
  ASSUME rows \in Seq(TableRows), NEW id \in Ids, NEW cell \in Cells
  PROVE  AddRow(id, cell) \/ ChangeRow(id, cell) \/ RemoveRow(id) => rows' \in Seq(TableRows)
<1>1. NewRow(id, cell) \in TableRows
  BY NewRowsAre
<1>2. Position(id) > 0 => Position(id) \in 1..Len(rows)
  BY PositionIs
<1>3. CASE AddRow(id, cell)
  BY <1>1, <1>3, RowSequences DEF AddRow
<1>4. CASE ChangeRow(id, cell)
  BY <1>1, <1>2, <1>4, RowSequences DEF ChangeRow
<1>5. CASE RemoveRow(id)
  <2>1. Last(rows) \in TableRows
    BY <1>2, <1>5, <1>1, RowSequences DEF RemoveRow
  <2>2. [rows EXCEPT ![Position(id)] = Last(rows)] \in Seq(TableRows)
    BY <1>2, <1>5, <2>1, RowSequences DEF RemoveRow
  <2> QED
    BY <1>5, <2>1, <2>2, RowSequences DEF RemoveRow
<1> QED
  BY <1>3, <1>4, <1>5

LEMMA QueryInvInit == Init => QueryInv
BY DEF Init, QueryInv, TypeInv, AnswerInv

LEMMA QueryInvStep == QueryInv /\ [Next]_<<config, vars>> => QueryInv'
<1> SUFFICES ASSUME QueryInv, [Next]_<<config, vars>>
             PROVE  QueryInv'
  OBVIOUS
<1>0. config' = config
  BY DEF Next, vars
<1> USE DEF QueryInv, TypeInv, AnswerInv
<1>1. ASSUME NEW id \in Ids, NEW cell \in Cells,
             AddRow(id, cell) \/ ChangeRow(id, cell) \/ RemoveRow(id)
      PROVE  QueryInv'
  <2>1. rows' \in Seq(TableRows)
    BY <1>1, RowsStayTyped
  <2>2. answer' = NoQuery
    BY <1>1 DEF AddRow, ChangeRow, RemoveRow
  <2> QED
    BY <1>0, <2>1, <2>2
<1>2. ASSUME NEW id \in Ids, NEW cell \in config.cells, AddRow(id, cell) \/ ChangeRow(id, cell)
      PROVE  QueryInv'
  BY <1>1, <1>2, UseAssumption
<1>3. ASSUME NEW id \in Ids, RemoveRow(id)
      PROVE  QueryInv'
  <2>1. Null \in Cells
    BY DEF Cells
  <2> QED
    BY <1>1, <1>3, <2>1
<1>4. ASSUME NEW q \in config.asks, Ask(q)
      PROVE  QueryInv'
  <2>1. PICK a \in Select(rows, q) : answer' = [query |-> q, result |-> a]
    BY <1>4 DEF Ask
  <2>2. rows' = rows
    BY <1>4 DEF Ask
  <2>3. answer'.query = q /\ answer'.result = a
    BY <2>1
  <2>4. a \in Select(rows', q)
    BY <2>1, <2>2
  <2> QED
    BY <1>0, <2>2, <2>3, <2>4
<1>5. CASE rows' = rows /\ answer' \in {answer, NoQuery}
  BY <1>0, <1>5
<1>6. TakeAnswer \/ ReadPage \/ EndWalk \/ UNCHANGED vars => rows' = rows /\ answer' \in {answer, NoQuery}
  BY DEF TakeAnswer, ReadPage, EndWalk, vars
<1>7. (\E q \in config.walks : StartWalk(q)) => rows' = rows /\ answer' \in {answer, NoQuery}
  BY DEF StartWalk
<1> QED
  BY <1>2, <1>3, <1>4, <1>5, <1>6, <1>7 DEF Next, vars

\* The rows are rows of this table and an answer is one that select()
\* makes of the rows as they still are, in every reachable state.
THEOREM AnswersFitTheirRows == Spec => []QueryInv
BY QueryInvInit, QueryInvStep, PTL DEF Spec

-----------------------------------------------------------------------------
(* Filtering and grouping.                                                 *)

\* A query that sorts, groups or pages goes through the whole pipeline.
LEMMA WholePipeline ==
  ASSUME NEW table, NEW q, q.sort # <<>> \/ q.group # "" \/ q.page # 0
  PROVE  Select(table, q) = QueryTableRows(table, q)
BY DEF Select, OnlyId

LEMMA FilterRowsAre ==
  ASSUME NEW S, NEW table \in Seq(S), NEW q
  PROVE  FilterRows(table, q) \in Seq(ToSet(table)) /\ FilterRows(table, q) \in Seq(S)
<1>1. ASSUME NEW T, NEW s \in Seq(T) PROVE s \in Seq(ToSet(s))
  BY DEF ToSet
<1>2. table \in Seq(ToSet(table))
  BY <1>1
<1> QED
  BY <1>2, RowsAtAre DEF FilterRows

InOrderOf(s, keys) ==
  /\ s \in [1..Cardinality(keys) -> keys]
  /\ \A i, j \in DOMAIN s : i < j => KeyBefore(s[i], s[j])

\* The least key goes first and the others follow it in their order.
LEMMA KeysCanBeOrdered ==
  ASSUME NEW n \in Nat
  PROVE  \A keys \in SUBSET (Nat \X Nat) :
           IsFiniteSet(keys) /\ Cardinality(keys) = n => \E s : InOrderOf(s, keys)
<1> DEFINE U == {m \in Nat : \A keys \in SUBSET (Nat \X Nat) :
                   IsFiniteSet(keys) /\ Cardinality(keys) = m => \E s : InOrderOf(s, keys)}
<1>1. 0 \in U
  <2> SUFFICES ASSUME NEW keys \in SUBSET (Nat \X Nat), IsFiniteSet(keys), Cardinality(keys) = 0
               PROVE  \E s : InOrderOf(s, keys)
    OBVIOUS
  <2>1. InOrderOf([i \in 1..0 |-> i], keys)
    BY DEF InOrderOf
  <2> QED
    BY <2>1
<1>2. ASSUME NEW m \in Nat, m \in U PROVE m + 1 \in U
  <2> SUFFICES ASSUME NEW keys \in SUBSET (Nat \X Nat), IsFiniteSet(keys), Cardinality(keys) = m + 1
               PROVE  \E s : InOrderOf(s, keys)
    OBVIOUS
  <2>1. \A k \in keys : k[1] \in Nat /\ k[2] \in Nat /\ k = <<k[1], k[2]>>
    OBVIOUS
  <2>2. keys # {}
    BY FS_EmptySet
  <2> DEFINE firsts == {k[1] : k \in keys}
  <2>3. PICK a \in firsts : \A b \in firsts : a <= b
    <3>1. firsts \subseteq Nat /\ firsts # {}
      BY <2>1, <2>2
    <3> QED
      BY <3>1, LeastOf
  <2> DEFINE seconds == {k[2] : k \in {l \in keys : l[1] = a}}
  <2>4. PICK c \in seconds : \A b \in seconds : c <= b
    <3>1. seconds \subseteq Nat /\ seconds # {}
      BY <2>1, <2>3
    <3> QED
      BY <3>1, LeastOf
  <2>5. PICK least \in keys : least[1] = a /\ least[2] = c
    BY <2>4
  <2>6. ASSUME NEW k \in keys \ {least}
        PROVE  KeyBefore(least, k)
    <3>1. a <= k[1] /\ a \in Nat /\ c \in Nat
      BY <2>1, <2>3, <2>5
    <3>2. k[1] = a => c <= k[2]
      BY <2>4
    <3>3. k[1] # a \/ k[2] # c
      BY <2>1, <2>5
    <3> QED
      BY <2>1, <2>5, <3>1, <3>2, <3>3 DEF KeyBefore
  <2> DEFINE others == keys \ {least}
  <2>7. IsFiniteSet(others) /\ Cardinality(others) = m
    BY FS_RemoveElement
  <2>8. PICK t : InOrderOf(t, others)
    BY <1>2, <2>7
  <2> HIDE DEF U
  <2> DEFINE s == [i \in 1..(m + 1) |-> IF i = 1 THEN least ELSE t[i - 1]]
  <2>9. t \in [1..m -> others] /\ \A i, j \in 1..m : i < j => KeyBefore(t[i], t[j])
    BY <2>7, <2>8 DEF InOrderOf
  <2>10. \A i \in 1..(m + 1) : i # 1 => s[i] = t[i - 1] /\ i - 1 \in 1..m /\ t[i - 1] \in others
    BY <2>9
  <2>11. s \in [1..(m + 1) -> keys]
    BY <2>9, <2>10
  <2>12. ASSUME NEW i \in 1..(m + 1), NEW j \in 1..(m + 1), i < j
         PROVE  KeyBefore(s[i], s[j])
    <3>1. j # 1 /\ s[j] = t[j - 1] /\ s[j] \in others
      BY <2>10, <2>12
    <3>2. CASE i = 1
      BY <2>6, <3>1, <3>2
    <3>3. CASE i # 1
      <4>1. s[i] = t[i - 1] /\ i - 1 \in 1..m /\ j - 1 \in 1..m /\ i - 1 < j - 1
        BY <2>10, <2>12, <3>3
      <4> HIDE DEF s
      <4> QED
        BY <2>9, <3>1, <4>1
    <3> QED
      BY <3>2, <3>3
  <2> HIDE DEF s
  <2>13. InOrderOf(s, keys)
    BY <2>11, <2>12 DEF InOrderOf
  <2> QED
    BY <2>13
<1> HIDE DEF U
<1>3. n \in U
  BY <1>1, <1>2, Induct
<1> QED
  BY <1>3 DEF U

\* std::map: every key once, in order.
LEMMA InKeyOrderIs ==
  ASSUME NEW keys \in SUBSET (Nat \X Nat), IsFiniteSet(keys)
  PROVE  /\ InOrderOf(InKeyOrder(keys), keys)
         /\ InKeyOrder(keys) \in Bijection(1..Cardinality(keys), keys)
<1> DEFINE s == InKeyOrder(keys)
           n == Cardinality(keys)
<1>1. n \in Nat
  BY FS_CardinalityType
<1>2. \E t : InOrderOf(t, keys)
  BY <1>1, KeysCanBeOrdered
<1>3. InOrderOf(s, keys)
  <2>1. \E t \in [1..n -> keys] : \A i, j \in DOMAIN t : i < j => KeyBefore(t[i], t[j])
    BY <1>2 DEF InOrderOf
  <2> QED
    BY <2>1 DEF InKeyOrder, InOrderOf
<1> HIDE DEF s
<1>4. s \in [1..n -> keys] /\ \A i, j \in 1..n : i < j => KeyBefore(s[i], s[j])
  BY <1>3 DEF InOrderOf
<1> HIDE DEF n
<1>5. ASSUME NEW i \in 1..n, NEW j \in 1..n, s[i] = s[j]
      PROVE  i = j
  <2>1. ~(KeyBefore(s[i], s[i]))
    BY <1>4 DEF KeyBefore
  <2>2. ~(i < j) /\ ~(j < i)
    BY <1>4, <1>5, <2>1
  <2> QED
    BY <1>1, <2>2
<1>6. s \in Injection(1..n, keys)
  BY <1>4, <1>5 DEF Injection, IsInjective
<1>7. Cardinality(1..n) = n
  BY <1>1, FS_Interval
<1>8. s \in Surjection(1..n, keys)
  BY <1>6, <1>7, FS_Injection DEF n
<1> QED
  BY <1>3, <1>6, <1>8 DEF Bijection, s, n

LEMMA KeysAre ==
  ASSUME NEW S, NEW table \in Seq(S), NEW q, \A i \in DOMAIN table : Child(table[i], q.group) \in SortValues
  PROVE  Keys(table, q) \in SUBSET (Nat \X Nat) /\ IsFiniteSet(Keys(table, q))
<1>1. ASSUME NEW v \in SortValues
      PROVE  GroupKey(v) \in Nat \X Nat
  BY DEF SortValues, GroupKey, TypeRank
<1>2. Keys(table, q) \in SUBSET (Nat \X Nat)
  BY <1>1 DEF Keys, KeyOf
<1> DEFINE f == [i \in 1..Len(table) |-> KeyOf(table, i, q)]
<1>3. f \in Surjection(1..Len(table), Keys(table, q))
  <2>1. DOMAIN table = 1..Len(table)
    OBVIOUS
  <2>2. f \in [1..Len(table) -> Keys(table, q)]
    BY <2>1 DEF Keys
  <2>3. \A k \in Keys(table, q) : \E i \in 1..Len(table) : f[i] = k
    BY <2>1 DEF Keys
  <2> QED
    BY <2>2, <2>3 DEF Surjection
<1>4. IsFiniteSet(1..Len(table))
  BY FS_Interval
<1> QED
  BY <1>2, <1>3, <1>4, FS_Surjection

\* Every group has its key, at least one row, and the row written last.
LEMMA GroupsAre ==
  ASSUME NEW S, NEW table \in Seq(S), NEW q, \A i \in DOMAIN table : Child(table[i], q.group) \in SortValues
  PROVE  LET keys == Keys(table, q)
             m == Cardinality(keys)
             ordered == InKeyOrder(keys)
             at(i) == Members(table, ordered[i], q)
         IN  /\ m \in Nat /\ ordered \in Bijection(1..m, keys)
             /\ GroupedRows(table, q) = [i \in 1..m |-> GroupRow(table, at(i), q)]
             /\ \A i \in 1..m : at(i) \subseteq DOMAIN table /\ Max(at(i)) \in at(i)
<1> DEFINE keys == Keys(table, q)
           m == Cardinality(keys)
           ordered == InKeyOrder(keys)
           at(i) == Members(table, ordered[i], q)
<1>1. keys \in SUBSET (Nat \X Nat) /\ IsFiniteSet(keys)
  BY KeysAre
<1>2. m \in Nat /\ ordered \in Bijection(1..m, keys)
  BY <1>1, InKeyOrderIs, FS_CardinalityType
<1>3. DOMAIN ordered = 1..m /\ \A i \in 1..m : ordered[i] \in keys
  BY <1>2 DEF Bijection, Injection
<1>4. GroupedRows(table, q) = [i \in 1..m |-> GroupRow(table, at(i), q)]
  BY <1>3 DEF GroupedRows
<1>5. ASSUME NEW i \in 1..m
      PROVE  at(i) \subseteq DOMAIN table /\ Max(at(i)) \in at(i)
  <2>1. PICK k \in DOMAIN table : ordered[i] = KeyOf(table, k, q)
    BY <1>3 DEF Keys
  <2>2. at(i) \subseteq DOMAIN table /\ k \in at(i) /\ DOMAIN table = 1..Len(table) /\ Len(table) \in Nat
    BY <2>1 DEF Members
  <2> HIDE DEF at
  <2> QED
    BY <2>2, GreatestOf
<1> QED
  BY <1>2, <1>4, <1>5

-----------------------------------------------------------------------------
(* What is sorted, and in which order.                                     *)

LEMMA ChildrenAre ==
  ASSUME NEW r \in TableRows, NEW f
  PROVE  Child(r, f) \in Cells /\ Child(r, f) \in SortValues
<1>1. Absent \in Cells /\ Cells \subseteq SortValues
  BY CellValues DEF Cells
<1> QED
  BY <1>1 DEF Child, TableRows

ComputedNumbers == {Computed(n) : n \in Int}

LEMMA NumbersAre ==
  /\ \A v \in ComputedNumbers : v.num \in Int /\ v.num # NotNumeric /\ ~IsNil(v)
  /\ ComputedNumbers \cup {Null} \subseteq SortValues
  /\ IsNil(Null) /\ IsNil(Absent) /\ Null.num = NotNumeric
  /\ \A v \in SortValues : v.num = NotNumeric \/ v.num \in Int
BY CellValues, UseAssumption DEF ComputedNumbers, Computed, IsNil, Null, Absent, SortValues

\* The numbers of a column that a sum adds, at some of the rows.
Addends(table, at, source) ==
  [i \in DOMAIN table |->
     IF i \in at /\ Child(table[i], source).num # NotNumeric THEN Child(table[i], source).num ELSE 0]

\* sumMatches adds those numbers; it answers null if there are none.
LEMMA SumsAre ==
  ASSUME NEW table \in Seq(TableRows), NEW at, at \subseteq DOMAIN table, NEW source
  PROVE  /\ \A i \in 1..Len(table) : Addends(table, at, source)[i] \in Int
         /\ SumUpTo(Addends(table, at, source), Len(table)) \in Int
         /\ \/ SumOf(table, at, source) = Computed(SumUpTo(Addends(table, at, source), Len(table)))
            \/ /\ SumOf(table, at, source) = Null
               /\ SumUpTo(Addends(table, at, source), Len(table)) = 0
<1> DEFINE number(i) == Child(table[i], source).num
           numeric == {i \in at : number(i) # NotNumeric}
           f == [i \in DOMAIN table |-> IF i \in numeric THEN number(i) ELSE 0]
<1>1. DOMAIN table = 1..Len(table) /\ Len(table) \in Nat
  OBVIOUS
<1>2. \A i \in DOMAIN table : number(i) \in Int \cup {NotNumeric}
  BY ChildrenAre, NumbersAre
<1>3. f = Addends(table, at, source)
  BY DEF Addends
<1>4. \A i \in 1..Len(table) : f[i] \in Int
  BY <1>1, <1>2
<1>5. numeric = {} => \A i \in 1..Len(table) : f[i] = 0
  BY <1>1
<1>6. SumOf(table, at, source) = IF numeric = {} THEN Null ELSE Computed(SumUpTo(f, Len(table)))
  BY DEF SumOf
<1> HIDE DEF f, numeric
<1>7. numeric = {} => SumUpTo(f, Len(table)) = 0
  BY <1>1, <1>5, SumOfNone
<1>8. SumUpTo(f, Len(table)) \in Int
  BY <1>1, <1>4, SumIs
<1> QED
  BY <1>3, <1>4, <1>6, <1>7, <1>8

Counted(table, at, source) ==
  {i \in at : source \in {"*", "1"} \/ ~IsNil(Child(table[i], source))}

LEMMA CountsAre ==
  ASSUME NEW table \in Seq(TableRows), NEW at, at \subseteq DOMAIN table, NEW source
  PROVE  /\ CountOf(table, at, source) = Computed(Rank(Counted(table, at, source), Len(table)))
         /\ Rank(Counted(table, at, source), Len(table)) \in Nat
<1>1. DOMAIN table = 1..Len(table) /\ Len(table) \in Nat
  OBVIOUS
<1>2. Counted(table, at, source) \cap 1..Len(table) = Counted(table, at, source)
  BY <1>1 DEF Counted
<1>3. CountOf(table, at, source) = Computed(Cardinality(Counted(table, at, source)))
  BY DEF CountOf, Counted
<1>4. Rank(Counted(table, at, source), Len(table)) \in Nat
  BY <1>1, RankIs
<1> QED
  BY <1>2, <1>3, <1>4 DEF Rank

LEMMA AggregatesAre ==
  ASSUME NEW table \in Seq(TableRows), NEW at, at \subseteq DOMAIN table, NEW q
  PROVE  /\ DOMAIN AggregateRow(table, at, q) = Aggregates(q)
         /\ \A a \in Aggregates(q) : AggregateRow(table, at, q)[a] \in ComputedNumbers \cup {Null}
<1>1. ASSUME NEW source
      PROVE  SumOf(table, at, source) \in ComputedNumbers \cup {Null} /\ CountOf(table, at, source) \in ComputedNumbers
  <2>1. SumOf(table, at, source) \in ComputedNumbers \cup {Null}
    BY SumsAre DEF ComputedNumbers
  <2>2. \A n \in Nat : Computed(n) \in ComputedNumbers
    BY DEF ComputedNumbers
  <2> QED
    BY <2>1, <2>2, CountsAre
<1> QED
  BY <1>1 DEF AggregateRow

\* A column of the rows to sort holds computed numbers, values of that column
\* of the table or nothing.
ShapedColumn(table, shaped, field) ==
  \/ \A r \in ToSet(shaped) : Child(r, field) \in ComputedNumbers \cup {Null}
  \/ \A r \in ToSet(shaped) : \E i \in DOMAIN table : Child(r, field) = Child(table[i], field)
  \/ \A r \in ToSet(shaped) : Child(r, field) = Absent

LEMMA ShapedIs ==
  ASSUME NEW table \in Seq(TableRows), NEW q, NEW field
  PROVE  /\ Shaped(table, q) \in Seq(ToSet(Shaped(table, q)))
         /\ ShapedColumn(table, Shaped(table, q), field)
<1> DEFINE matches == FilterRows(table, q)
<1>1. matches \in Seq(ToSet(table)) /\ matches \in Seq(TableRows)
  BY FilterRowsAre
<1>2. \A i \in DOMAIN matches : \E k \in DOMAIN table : matches[i] = table[k]
  BY <1>1, ElementsAre DEF ToSet
<1>3. \A i \in DOMAIN matches : matches[i] \in TableRows
  BY <1>1, ElementsAre
<1> HIDE DEF matches
<1>4. CASE q.group # ""
  <2>1. \A i \in DOMAIN matches : Child(matches[i], q.group) \in SortValues
    BY <1>3, ChildrenAre
  <2> DEFINE m == Cardinality(Keys(matches, q))
             at(i) == Members(matches, InKeyOrder(Keys(matches, q))[i], q)
             groups == [i \in 1..m |-> GroupRow(matches, at(i), q)]
  <2>2. /\ m \in Nat /\ GroupedRows(matches, q) = groups
        /\ \A i \in 1..m : at(i) \subseteq DOMAIN matches /\ Max(at(i)) \in at(i)
    BY <1>1, <2>1, GroupsAre
  <2>3. Shaped(table, q) = groups
    BY <1>4, <2>2 DEF Shaped, matches
  <2>4. DOMAIN groups = 1..m /\ \A i \in 1..m : groups[i] = GroupRow(matches, at(i), q)
    OBVIOUS
  <2>5. ToSet(groups) = {GroupRow(matches, at(i), q) : i \in 1..m}
    BY DEF ToSet
  <2>6. groups \in Seq(ToSet(groups))
    BY <2>2, <2>5
  <2> HIDE DEF m, at, groups
  <2>7. ASSUME NEW i \in 1..m
        PROVE  /\ field \in Aggregates(q) => Child(GroupRow(matches, at(i), q), field) \in ComputedNumbers \cup {Null}
               /\ field \notin Aggregates(q) /\ field = q.group =>
                    \E k \in DOMAIN table : Child(GroupRow(matches, at(i), q), field) = Child(table[k], field)
               /\ field \notin Aggregates(q) /\ field # q.group => Child(GroupRow(matches, at(i), q), field) = Absent
    <3>1. field \in Aggregates(q) => AggregateRow(matches, at(i), q)[field] \in ComputedNumbers \cup {Null}
      BY <1>1, <2>2, AggregatesAre
    <3>2. \E k \in DOMAIN table : matches[Max(at(i))] = table[k]
      BY <1>2, <2>2
    <3> QED
      BY <3>1, <3>2 DEF GroupRow, Child
  <2> QED
    BY <2>3, <2>5, <2>6, <2>7 DEF ShapedColumn
<1>5. CASE q.group = "" /\ HasAggregates(q)
  <2> DEFINE all == AggregateRow(matches, DOMAIN matches, q)
  <2>1. Shaped(table, q) = <<all>>
    BY <1>5 DEF Shaped, matches
  <2>2. DOMAIN all = Aggregates(q) /\ \A a \in Aggregates(q) : all[a] \in ComputedNumbers \cup {Null}
    BY <1>1, AggregatesAre
  <2> HIDE DEF all
  <2>3. ToSet(<<all>>) = {all} /\ <<all>> \in Seq({all})
    BY DEF ToSet
  <2> QED
    BY <2>1, <2>2, <2>3 DEF ShapedColumn, Child
<1>6. CASE q.group = "" /\ ~HasAggregates(q)
  <2>1. Shaped(table, q) = matches
    BY <1>6 DEF Shaped, matches
  <2>2. matches \in Seq(ToSet(matches))
    BY <1>1 DEF ToSet
  <2> QED
    BY <1>2, <2>1, <2>2 DEF ShapedColumn, ToSet
<1> QED
  BY <1>4, <1>5, <1>6

LEMMA ShapedColumnsAreOrderly ==
  ASSUME NEW table \in Seq(TableRows), NEW q, NEW field, Comparable(table, field)
  PROVE  Orderly(ToSet(Shaped(table, q)), field)
<1> DEFINE S == ToSet(Shaped(table, q))
<1>1. ShapedColumn(table, Shaped(table, q), field)
  BY ShapedIs
<1>2. CASE \A r \in S : Child(r, field) \in ComputedNumbers \cup {Null}
  BY <1>2, NumbersAre DEF Orderly, ColumnValues, Alike
<1>3. CASE \A r \in S : \E i \in DOMAIN table : Child(r, field) = Child(table[i], field)
  <2>1. \A i \in DOMAIN table : Child(table[i], field) \in SortValues
    BY ElementsAre, ChildrenAre
  <2>2. \A i, j \in DOMAIN table : Alike(Child(table[i], field), Child(table[j], field))
    BY DEF Comparable, Alike
  <2> QED
    BY <1>3, <2>1, <2>2 DEF Orderly, ColumnValues
<1>4. CASE \A r \in S : Child(r, field) = Absent
  BY <1>4, CellValues, NumbersAre DEF Orderly, ColumnValues, Alike
<1> QED
  BY <1>1, <1>2, <1>3, <1>4 DEF ShapedColumn

LEMMA WrapIs ==
  ASSUME NEW n \in Nat, n <= MaxInt
  PROVE  Wrap(n) = n
BY QueryAssumption DEF Wrap

\* A page whose end is an int is a slice.
LEMMA PageIs ==
  ASSUME NEW q, q.page \in Int, q.size \in Int, q.page > 0, PageFits(q)
  PROVE  /\ Size(q) \in Nat /\ Size(q) > 0
         /\ Start(q) = (q.page - 1) * Size(q) /\ Start(q) \in Nat
         /\ q.page * Size(q) = Start(q) + Size(q) /\ Start(q) + Size(q) <= MaxInt
         /\ Wrap(Start(q) + Size(q)) = q.page * Size(q)
<1> DEFINE p == q.page
           z == Size(q)
<1>1. z \in Nat /\ z > 0 /\ p \in Int /\ p > 0 /\ p * z <= MaxInt
  BY DEF Size, PageFits
<1> HIDE DEF p, z
<1>2. (p - 1) * z \in Nat /\ p * z = (p - 1) * z + z
  <2>1. p - 1 \in Nat
    BY <1>1
  <2>2. \A a, b \in Nat : a * b \in Nat
    OBVIOUS
  <2>3. p * z = (p - 1) * z + z
    BY <1>1
  <2> QED
    BY <1>1, <2>1, <2>2, <2>3
<1>3. (p - 1) * z <= MaxInt
  BY <1>1, <1>2, QueryAssumption
<1>4. Wrap((p - 1) * z) = (p - 1) * z
  BY <1>2, <1>3, WrapIs
<1>5. Wrap(p * z) = p * z
  <2>1. p * z \in Nat
    BY <1>1, <1>2
  <2> QED
    BY <1>1, <2>1, WrapIs
<1> QED
  BY <1>1, <1>2, <1>4, <1>5 DEF Start, p, z

LEMMA CutIs ==
  ASSUME NEW q, q.page \in Int, q.size \in Int, q.page > 0, PageFits(q), NEW T, NEW result \in Seq(T)
  PROVE  Cut(result, q) = SubSeq(result, Start(q) + 1, Lesser(q.page * Size(q), Len(result)))
<1> DEFINE a == Start(q)
           b == q.page * Size(q)
           n == Len(result)
           end == Lesser(n, b)
<1>1. a \in Nat /\ b \in Nat /\ n \in Nat /\ Wrap(Start(q) + Size(q)) = b
  BY PageIs
<1>2. end \in Nat /\ end <= n /\ Lesser(b, n) = end
  BY <1>1 DEF Lesser
<1>3. DOMAIN result = 1..n
  OBVIOUS
<1>4. Cut(result, q) = [i \in 1..(end - a) |-> IF a + i \in 1..n THEN result[a + i] ELSE ErrorRow]
  BY <1>1, <1>3 DEF Cut
<1> HIDE DEF a, b, n, end
<1>5. \A i \in 1..(end - a) : a + i \in 1..n /\ (a + 1) + i - 1 = a + i
  BY <1>1, <1>2
<1>6. \A i \in (a + 1)..end : result[i] \in T
  <2>1. \A i \in 1..n : result[i] \in T
    BY <1>3, ElementsAre
  <2> QED
    BY <1>1, <1>2, <2>1
<1> DEFINE s == SubSeq(result, a + 1, end)
<1>7. s \in Seq(T) /\ Len(s) = (IF a + 1 <= end THEN end - (a + 1) + 1 ELSE 0)
      /\ \A i \in 1..(end - (a + 1) + 1) : s[i] = result[(a + 1) + i - 1]
  BY <1>1, <1>2, <1>6, SubSeqProperties
<1> HIDE DEF s
<1>8. DOMAIN s = 1..(end - a) /\ \A i \in 1..(end - a) : s[i] = result[a + i]
  <2>1. end - (a + 1) + 1 = end - a
    BY <1>1, <1>2
  <2>2. 1..Len(s) = 1..(end - a)
    BY <1>1, <1>2, <1>7, <2>1
  <2> QED
    BY <1>5, <1>7, <2>1, <2>2
<1>9. s = [i \in 1..(end - a) |-> result[a + i]]
  <2>1. s = [i \in DOMAIN s |-> s[i]]
    BY <1>7
  <2> QED
    BY <1>8, <2>1
<1>10. Cut(result, q) = [i \in 1..(end - a) |-> result[a + i]]
  BY <1>4, <1>5
<1> QED
  BY <1>2, <1>9, <1>10 DEF a, b, n, s

\* Whatever std::sort leaves are the same rows rearranged.
LEMMA SortedIs ==
  ASSUME NEW T, NEW table \in Seq(T), NEW clauses, NEW result \in Sorted(table, clauses)
  PROVE  /\ \E p \in Bijection(DOMAIN table, DOMAIN table) : result = [i \in DOMAIN table |-> table[p[i]]]
         /\ result \in Seq(T) /\ DOMAIN result = DOMAIN table /\ Len(result) = Len(table)
         /\ clauses # <<>> /\ StrictWeakOrder(ToSet(table), clauses) =>
              \A i, j \in DOMAIN result : i < j => ~Before(result[j], result[i], clauses)
<1> DEFINE D == DOMAIN table
           arrangements == {[i \in D |-> table[p[i]]] : p \in Bijection(D, D)}
           ordered == {a \in arrangements : \A i, j \in DOMAIN a : i < j => ~Before(a[j], a[i], clauses)}
<1>1. table \in arrangements
  <2> DEFINE p == [i \in D |-> i]
  <2>1. p \in Bijection(D, D)
    BY DEF Bijection, Injection, Surjection, IsInjective
  <2>2. table = [i \in D |-> table[p[i]]]
    OBVIOUS
  <2> QED
    BY <2>1, <2>2
<1>2. result \in arrangements /\ (clauses # <<>> /\ StrictWeakOrder(ToSet(table), clauses) => result \in ordered)
  <2>1. CASE clauses = <<>>
    BY <1>1, <2>1 DEF Sorted
  <2>2. CASE clauses # <<>> /\ StrictWeakOrder(ToSet(table), clauses)
    BY <2>2 DEF Sorted
  <2>3. CASE clauses # <<>> /\ ~StrictWeakOrder(ToSet(table), clauses)
    BY <2>3 DEF Sorted
  <2> QED
    BY <2>1, <2>2, <2>3
<1>3. PICK p \in Bijection(D, D) : result = [i \in D |-> table[p[i]]]
  BY <1>2
<1>4. D = 1..Len(table) /\ Len(table) \in Nat /\ \A i \in D : table[i] \in T
  BY ElementsAre
<1>5. \A i \in D : p[i] \in D
  BY <1>3 DEF Bijection, Injection
<1>6. result \in Seq(T) /\ DOMAIN result = D /\ Len(result) = Len(table)
  BY <1>3, <1>4, <1>5
<1>7. clauses # <<>> /\ StrictWeakOrder(ToSet(table), clauses) =>
       \A i, j \in DOMAIN result : i < j => ~Before(result[j], result[i], clauses)
  BY <1>2
<1> HIDE DEF arrangements, ordered
<1> QED
  BY <1>3, <1>6, <1>7

Projected(row, q) ==
  IF q.fields = {} THEN row
  ELSE [f \in DOMAIN row \cap (q.fields \cup {q.group} \cup Aggregates(q)) |-> row[f]]

LEMMA ProjectionIs ==
  ASSUME NEW T, NEW result \in Seq(T), NEW q
  PROVE  /\ ProjectFields(result, q) \in Seq({Projected(r, q) : r \in T})
         /\ Len(ProjectFields(result, q)) = Len(result)
         /\ \A i \in 1..Len(result) : ProjectFields(result, q)[i] = Projected(result[i], q)
         /\ q.fields = {} => ProjectFields(result, q) = result
<1>1. DOMAIN result = 1..Len(result) /\ Len(result) \in Nat /\ \A i \in 1..Len(result) : result[i] \in T
  BY ElementsAre
<1> DEFINE f == [i \in 1..Len(result) |-> Projected(result[i], q)]
<1>2. ProjectFields(result, q) = f
  <2>1. CASE q.fields = {}
    BY <1>1, <2>1 DEF ProjectFields, Projected
  <2>2. CASE q.fields # {}
    BY <1>1, <2>2 DEF ProjectFields, Projected
  <2> QED
    BY <2>1, <2>2
<1>3. \A i \in 1..Len(result) : Projected(result[i], q) \in {Projected(r, q) : r \in T}
  BY <1>1
<1>4. f \in Seq({Projected(r, q) : r \in T}) /\ Len(f) = Len(result)
  BY <1>1, <1>3
<1>5. \A i \in 1..Len(result) : f[i] = Projected(result[i], q)
  OBVIOUS
<1> HIDE DEF f
<1> QED
  BY <1>2, <1>4, <1>5 DEF ProjectFields

Slice(s, a, b) == SubSeq(s, a + 1, Lesser(b, Len(s)))

\* The general path answers with a slice of the sorted rows, or all of them.
LEMMA GeneralAnswersAre ==
  ASSUME NEW table \in Seq(TableRows), NEW q, q.page \in Int, q.size \in Int, PageFits(q),
         NEW a \in GeneralAnswers(table, q)
  PROVE  \E result \in Sorted(Shaped(table, q), q.sort) :
           LET data == ProjectFields(result, q)
           IN  /\ q.page > 0 =>
                    a = MakeQueryResult(Slice(data, Start(q), q.page * Size(q)),
                                        Len(data), q.page, Size(q))
               /\ ~(q.page > 0) => a = MakeQueryResult(data, Len(data), 0, Size(q))
<1>1. PICK result \in Sorted(Shaped(table, q), q.sort) :
        LET data == ProjectFields(result, q)
        IN  a = IF q.page > 0 THEN MakeQueryResult(Cut(data, q), Len(data), q.page, Size(q))
                ELSE MakeQueryResult(data, Len(data), 0, Size(q))
  BY DEF GeneralAnswers
<1> DEFINE T == ToSet(Shaped(table, q))
<1>2. Shaped(table, q) \in Seq(T)
  BY ShapedIs
<1>3. result \in Seq(T)
  BY <1>2, SortedIs
<1>4. ProjectFields(result, q) \in Seq({Projected(r, q) : r \in T})
  BY <1>3, ProjectionIs
<1>5. q.page > 0 => Cut(ProjectFields(result, q), q)
        = Slice(ProjectFields(result, q), Start(q), q.page * Size(q))
  BY <1>4, CutIs DEF Slice
<1> QED
  BY <1>1, <1>5

LEMMA WellFormedAnswersAre ==
  ASSUME NEW table, NEW q, IsQuery(q), NEW a \in QueryTableRows(table, q), a.status # "paramerr"
  PROVE  /\ q.page \in Int /\ q.size \in Int /\ q.sort \in Seq([field : STRING, direction : {-1, 1}])
         /\ IF PageOnly(q) THEN a = FastAnswer(table, q) ELSE a \in GeneralAnswers(table, q)
<1>1. q.wellFormed = TRUE \/ q.wellFormed # TRUE
  OBVIOUS
<1>2. q.wellFormed
  BY DEF QueryTableRows
<1> QED
  BY <1>2 DEF QueryTableRows, IsQuery

-----------------------------------------------------------------------------
(* The order of a sorted answer.                                           *)

\* One value may come before another.
MayPrecede(v, w, direction) ==
  /\ ~IsNil(v) /\ ~IsNil(w) => InOrder(v, w, direction)
  /\ IsNil(v) /\ ~IsNil(w) => direction = -1
  /\ ~IsNil(v) /\ IsNil(w) => direction = 1

LEMMA OrderedValues ==
  ASSUME NEW clause \in [field : STRING, direction : {-1, 1}], NEW S, Orderly(S, clause.field),
         NEW r \in S, NEW s \in S, ~(By(s, r, clause) < 0)
  PROVE  MayPrecede(Child(r, clause.field), Child(s, clause.field), clause.direction)
<1> DEFINE v == Child(r, clause.field)
           w == Child(s, clause.field)
           d == clause.direction
           c == CompareSortValues(v, w)
<1> SUFFICES MayPrecede(v, w, d)
  OBVIOUS
<1>1. v \in SortValues /\ w \in SortValues /\ Alike(v, w) /\ d \in {-1, 1}
  BY DEF Orderly, ColumnValues
<1>2. By(r, s, clause) <= 0
  <2>1. By(r, s, clause) \in {-1, 0, 1} /\ By(s, r, clause) = -By(r, s, clause)
    BY OrderlyIsRanked, ClauseOrders
  <2> QED
    BY <2>1
<1>3. c \in {-1, 0, 1}
  <2>1. Alike(v, v) /\ Alike(w, v)
    BY <1>1 DEF Alike
  <2> HIDE DEF v, w
  <2> QED
    BY <1>1, <2>1, ValuesAreOrdered
<1>4. By(r, s, clause) = IF d = 1 THEN c ELSE -c
  BY <1>3, ByIs
<1> HIDE DEF v, w, d, c
<1>5. IF d = 1 THEN c <= 0 ELSE c >= 0
  BY <1>2, <1>3, <1>4
<1>6. CASE IsNil(v) \/ IsNil(w)
  BY <1>1, <1>5, <1>6 DEF MayPrecede, c, CompareSortValues
<1>7. CASE ~IsNil(v) /\ ~IsNil(w)
  <2>1. v.text \in Int /\ w.text \in Int /\ (v.num # NotNumeric => v.num \in Int) /\ (w.num # NotNumeric => w.num \in Int)
    BY <1>1 DEF SortValues
  <2>2. c = IF BothNumeric(v, w) THEN Sign(v.num, w.num) ELSE Sign(v.text, w.text)
    BY <1>7 DEF c, CompareSortValues
  <2>3. ASSUME NEW x \in Int, NEW y \in Int, c = Sign(x, y)
        PROVE  d * x <= d * y
    BY <1>1, <1>5, <2>3 DEF Sign
  <2>4. InOrder(v, w, d)
    BY <2>1, <2>2, <2>3 DEF InOrder, BothNumeric
  <2> QED
    BY <1>7, <2>4 DEF MayPrecede
<1> QED
  BY <1>6, <1>7

LEMMA ProjectedChild ==
  ASSUME NEW q, NEW field
  PROVE  \/ \A row : Child(Projected(row, q), field) = Child(row, field)
         \/ \A row : Child(Projected(row, q), field) = Absent
<1>1. CASE q.fields = {} \/ field \in q.fields \cup {q.group} \cup Aggregates(q)
  BY <1>1 DEF Projected, Child
<1>2. CASE q.fields # {} /\ field \notin q.fields \cup {q.group} \cup Aggregates(q)
  BY <1>2 DEF Projected, Child
<1> QED
  BY <1>1, <1>2

LEMMA HeadIs ==
  ASSUME NEW T, NEW s \in Seq(T), s # <<>>
  PROVE  Head(s) = s[1]
OBVIOUS

\* The rows of an unpaged answer are in the order of the first column.
LEMMA WholeIsOrdered ==
  ASSUME NEW table \in Seq(TableRows), NEW q,
         q.sort \in Seq([field : STRING, direction : {-1, 1}]), q.sort # <<>>,
         \A i \in DOMAIN q.sort : Comparable(table, q.sort[i].field),
         NEW result \in Sorted(Shaped(table, q), q.sort)
  PROVE  LET data == ProjectFields(result, q)
             clause == Head(q.sort)
         IN  /\ DOMAIN data = 1..Len(data) /\ Len(data) \in Nat
             /\ \A i, j \in 1..Len(data) : i < j =>
                  MayPrecede(Child(data[i], clause.field), Child(data[j], clause.field), clause.direction)
<1> DEFINE S == ToSet(Shaped(table, q))
           data == ProjectFields(result, q)
           clause == q.sort[1]
<1>1. Shaped(table, q) \in Seq(S)
  BY ShapedIs
<1>2. \A i \in DOMAIN q.sort : Orderly(S, q.sort[i].field)
  BY ShapedColumnsAreOrderly
<1>3. StrictWeakOrder(S, q.sort)
  BY <1>2, OrderlyIsRanked, RankedRowsAreWeaklyOrdered
<1>4. result \in Seq(S) /\ \A i, j \in DOMAIN result : i < j => ~Before(result[j], result[i], q.sort)
  BY <1>1, <1>3, SortedIs
<1>5. Head(q.sort) = clause /\ 1 \in DOMAIN q.sort /\ clause \in [field : STRING, direction : {-1, 1}]
  <2>1. Len(q.sort) \in Nat /\ Len(q.sort) # 0 /\ DOMAIN q.sort = 1..Len(q.sort)
    OBVIOUS
  <2>2. 1 \in DOMAIN q.sort
    BY <2>1
  <2>3. clause \in [field : STRING, direction : {-1, 1}]
    BY <2>2, ElementsAre
  <2> QED
    BY <2>2, <2>3, HeadIs
<1>6. DOMAIN result = 1..Len(result) /\ Len(result) \in Nat /\ \A i \in 1..Len(result) : result[i] \in S
  BY <1>4, ElementsAre
<1>7. /\ DOMAIN data = 1..Len(data) /\ Len(data) = Len(result)
      /\ \A i \in 1..Len(result) : data[i] = Projected(result[i], q)
  <2>1. data \in Seq({Projected(r, q) : r \in S})
    BY <1>4, ProjectionIs
  <2>2. DOMAIN data = 1..Len(data)
    BY <2>1
  <2> QED
    BY <1>4, <2>2, ProjectionIs
<1> HIDE DEF data, clause, S
<1>8. ASSUME NEW i \in 1..Len(result), NEW j \in 1..Len(result), i < j
      PROVE  MayPrecede(Child(data[i], clause.field), Child(data[j], clause.field), clause.direction)
  <2>1. ~(By(result[j], result[i], clause) < 0)
    <3>1. ~Before(result[j], result[i], q.sort)
      BY <1>4, <1>6, <1>8
    <3>2. 1..(1 - 1) = {}
      OBVIOUS
    <3> QED
      BY <1>5, <3>1, <3>2, BeforeIs DEF clause
  <2>2. MayPrecede(Child(result[i], clause.field), Child(result[j], clause.field), clause.direction)
    BY <1>2, <1>5, <1>6, <2>1, OrderedValues DEF clause
  <2>3. CASE \A row : Child(Projected(row, q), clause.field) = Child(row, clause.field)
    BY <1>7, <2>2, <2>3
  <2>4. CASE \A row : Child(Projected(row, q), clause.field) = Absent
    BY <1>7, <2>4, NumbersAre DEF MayPrecede
  <2> QED
    BY <2>3, <2>4, ProjectedChild
<1> QED
  BY <1>5, <1>6, <1>7, <1>8 DEF data

LEMMA SliceIs ==
  ASSUME NEW T, NEW s \in Seq(T), NEW a \in Nat, NEW b \in Nat
  PROVE  /\ Slice(s, a, b) \in Seq(T)
         /\ \A i \in DOMAIN Slice(s, a, b) :
              i \in Nat /\ a + i \in 1..Len(s) /\ Slice(s, a, b)[i] = s[a + i]
         /\ \A i \in DOMAIN Slice(s, a, b) : i > 0 /\ a + i <= b
         /\ \A l \in (a + 1)..b : l \in 1..Len(s) => l - a \in DOMAIN Slice(s, a, b)
         /\ a < b => (Slice(s, a, b) = <<>> <=> a >= Len(s))
<1> DEFINE end == Lesser(b, Len(s))
           slice == SubSeq(s, a + 1, end)
<1>1. Len(s) \in Nat /\ end \in Nat /\ end <= Len(s) /\ end <= b /\ (end = b \/ end = Len(s))
  BY DEF Lesser
<1>2. \A i \in (a + 1)..end : s[i] \in T
  BY <1>1, ElementsAre
<1>3. slice = Slice(s, a, b)
  BY DEF Slice
<1> HIDE DEF end
<1>4. slice \in Seq(T) /\ Len(slice) = (IF a + 1 <= end THEN end - (a + 1) + 1 ELSE 0)
      /\ \A i \in 1..(end - (a + 1) + 1) : slice[i] = s[(a + 1) + i - 1]
  BY <1>1, <1>2, SubSeqProperties
<1> HIDE DEF slice
<1>5. DOMAIN slice = 1..Len(slice) /\ (slice = <<>> <=> Len(slice) = 0)
  BY <1>4
<1>6. ASSUME NEW i \in DOMAIN slice
      PROVE  i \in Nat /\ a + i \in 1..Len(s) /\ slice[i] = s[a + i]
  <2>1. i \in Nat /\ i >= 1 /\ a + 1 <= end /\ i <= end - a /\ end - (a + 1) + 1 = end - a /\ (a + 1) + i - 1 = a + i
    BY <1>1, <1>4, <1>5
  <2> QED
    BY <1>1, <1>4, <2>1
<1>7. a < b => (slice = <<>> <=> a >= Len(s))
  BY <1>1, <1>4, <1>5
<1>8. ASSUME NEW i \in DOMAIN slice
      PROVE  i > 0 /\ a + i <= b
  BY <1>1, <1>4, <1>5
<1>9. ASSUME NEW l \in (a + 1)..b, l \in 1..Len(s)
      PROVE  l - a \in DOMAIN slice
  <2>1. l <= end /\ a + 1 <= end /\ l - a \in 1..(end - (a + 1) + 1)
    BY <1>1, <1>9
  <2> QED
    BY <1>4, <1>5, <2>1
<1> QED
  BY <1>3, <1>4, <1>6, <1>7, <1>8, <1>9

LEMMA SliceTakes ==
  ASSUME NEW s, \E T : s \in Seq(T), NEW a \in Nat, NEW b \in Nat
  PROVE  \A i \in DOMAIN Slice(s, a, b) :
           i \in Nat /\ a + i \in 1..Len(s) /\ Slice(s, a, b)[i] = s[a + i]
<1>1. PICK T : s \in Seq(T)
  OBVIOUS
<1> QED
  BY <1>1, SliceIs

\* "sort" sets the order: any answer's rows come in the order of the first
\* column named, with the rows that lack it at the end its direction says.
THEOREM SortingOrdersTheAnswer == Spec => []SortedAnswerIsOrdered
<1>1. ASSUME QueryInv
      PROVE  SortedAnswerIsOrdered
  <2> DEFINE q == answer.query
             r == answer.result
             clause == Head(q.sort)
  <2> SUFFICES ASSUME Answered, q.sort # <<>>, PageFits(q),
                      \A i \in DOMAIN q.sort : Comparable(rows, q.sort[i].field),
                      NEW i \in DOMAIN r.data, NEW j \in DOMAIN r.data, i < j
               PROVE  MayPrecede(Child(r.data[i], clause.field), Child(r.data[j], clause.field), clause.direction)
    BY DEF SortedAnswerIsOrdered, MayPrecede
  <2>0. Select(rows, q) = QueryTableRows(rows, q)
    BY WholePipeline
  <2>1. rows \in Seq(TableRows) /\ IsQuery(q) /\ r \in QueryTableRows(rows, q) /\ r.status # "paramerr"
    BY <1>1, <2>0, UseAssumption DEF QueryInv, TypeInv, AnswerInv, Answered
  <2>2. q.page \in Int /\ q.size \in Int /\ q.sort \in Seq([field : STRING, direction : {-1, 1}])
        /\ r \in GeneralAnswers(rows, q)
    BY <2>1, WellFormedAnswersAre DEF PageOnly
  <2> HIDE DEF q, r
  <2>3. PICK result \in Sorted(Shaped(rows, q), q.sort) :
          LET data == ProjectFields(result, q)
          IN  /\ q.page > 0 =>
                   r = MakeQueryResult(Slice(data, Start(q), q.page * Size(q)),
                                       Len(data), q.page, Size(q))
              /\ ~(q.page > 0) => r = MakeQueryResult(data, Len(data), 0, Size(q))
    BY <2>1, <2>2, GeneralAnswersAre
  <2> DEFINE data == ProjectFields(result, q)
  <2>4. /\ DOMAIN data = 1..Len(data) /\ Len(data) \in Nat
        /\ \A k, l \in 1..Len(data) : k < l =>
             MayPrecede(Child(data[k], clause.field), Child(data[l], clause.field), clause.direction)
    BY <2>1, <2>2, WholeIsOrdered
  <2>5. \E T : data \in Seq(T)
    <3> DEFINE S == ToSet(Shaped(rows, q))
    <3>1. Shaped(rows, q) \in Seq(S)
      BY <2>1, ShapedIs
    <3>2. result \in Seq(S)
      BY <3>1, SortedIs
    <3>3. data \in Seq({Projected(x, q) : x \in S})
      BY <3>2, ProjectionIs
    <3> QED
      BY <3>3
  <2> HIDE DEF data, clause
  <2>6. CASE q.page > 0
    <3>1. Start(q) \in Nat /\ q.page * Size(q) \in Nat
      BY <2>2, <2>6, PageIs
    <3>2. r.data = Slice(data, Start(q), q.page * Size(q))
      BY <2>3, <2>6 DEF MakeQueryResult, data
    <3>0. \A k \in DOMAIN r.data : k \in Nat /\ Start(q) + k \in 1..Len(data) /\ r.data[k] = data[Start(q) + k]
      <4> DEFINE a == Start(q)
                 b == q.page * Size(q)
      <4>1. a \in Nat /\ b \in Nat /\ r.data = Slice(data, a, b)
        BY <3>1, <3>2
      <4> HIDE DEF a, b
      <4>2. \A k \in DOMAIN Slice(data, a, b) :
              k \in Nat /\ a + k \in 1..Len(data) /\ Slice(data, a, b)[k] = data[a + k]
        BY <2>5, <4>1, SliceTakes
      <4> QED
        BY <4>1, <4>2 DEF a
    <3>3. /\ i \in Nat /\ Start(q) + i \in 1..Len(data) /\ r.data[i] = data[Start(q) + i]
          /\ j \in Nat /\ Start(q) + j \in 1..Len(data) /\ r.data[j] = data[Start(q) + j]
      BY <3>0
    <3>4. Start(q) + i < Start(q) + j
      BY <3>1, <3>3
    <3> QED
      BY <2>4, <3>3, <3>4
  <2>7. CASE ~(q.page > 0)
    <3>1. r.data = data
      BY <2>3, <2>7 DEF MakeQueryResult, data
    <3> QED
      BY <2>4, <3>1
  <2> QED
    BY <2>6, <2>7
<1> QED
  BY <1>1, AnswersFitTheirRows, PTL

-----------------------------------------------------------------------------
(* A page and the whole answer.                                            *)

\* Queries that differ in the page asked for.
SameButPage(q, w) ==
  /\ w.conds = q.conds /\ w.fuzzy = q.fuzzy /\ w.sort = q.sort /\ w.size = q.size
  /\ w.group = q.group /\ w.counts = q.counts /\ w.sums = q.sums /\ w.fields = q.fields

LEMMA OtherPage ==
  ASSUME NEW q, IsQuery(q), NEW n
  PROVE  SameButPage(q, [q EXCEPT !.page = n]) /\ [q EXCEPT !.page = n].page = n
BY DEF IsQuery, SameButPage

LEMMA SameRows ==
  ASSUME NEW table, NEW q, NEW w, SameButPage(q, w)
  PROVE  /\ Matching(table, w) = Matching(table, q)
         /\ FilterRows(table, w) = FilterRows(table, q)
         /\ Shaped(table, w) = Shaped(table, q)
         /\ HasAggregates(w) <=> HasAggregates(q)
<1>1. \A row : MatchesAll(row, w) = MatchesAll(row, q)
  BY DEF MatchesAll, SameButPage
<1>2. Matching(table, w) = Matching(table, q) /\ FilterRows(table, w) = FilterRows(table, q)
  BY <1>1 DEF Matching, FilterRows
<1>3. Aggregates(w) = Aggregates(q) /\ w.group = q.group
  BY DEF Aggregates, SameButPage
<1>4. ASSUME NEW t
      PROVE  Keys(t, w) = Keys(t, q) /\ \A k : Members(t, k, w) = Members(t, k, q)
  BY <1>3 DEF Keys, KeyOf, Members
<1>5. ASSUME NEW t, NEW at
      PROVE  AggregateRow(t, at, w) = AggregateRow(t, at, q)
  BY <1>3 DEF AggregateRow, SameButPage
<1>6. ASSUME NEW t, NEW at
      PROVE  GroupRow(t, at, w) = GroupRow(t, at, q)
  BY <1>3, <1>5 DEF GroupRow
<1>7. ASSUME NEW t
      PROVE  GroupedRows(t, w) = GroupedRows(t, q)
  BY <1>4, <1>6 DEF GroupedRows
<1>8. HasAggregates(w) <=> HasAggregates(q)
  BY <1>3 DEF HasAggregates
<1>9. Shaped(table, w) = Shaped(table, q)
  BY <1>2, <1>3, <1>5, <1>7, <1>8 DEF Shaped
<1> QED
  BY <1>2, <1>8, <1>9

\* Any page that fits is a slice of an unpaged answer of the same query.
LEMMA PagesAreSlices ==
  ASSUME NEW table \in Seq(TableRows), NEW q, IsQuery(q), NEW a \in QueryTableRows(table, q),
         a.status # "paramerr", q.page > 0, q.fields = {}, PageFits(q)
  PROVE  \E all : /\ \E T : all \in Seq(T)
                  /\ MakeQueryResult(all, Len(all), 0, Size(q)) \in GeneralAnswers(table, Unpaged(q))
                  /\ a = MakeQueryResult(Slice(all, Start(q), q.page * Size(q)), Len(all), q.page, Size(q))
<1> DEFINE w == Unpaged(q)
           S == ToSet(Shaped(table, q))
<1>1. SameButPage(q, w) /\ w.page = 0
  BY OtherPage DEF Unpaged
<1>2. /\ q.page \in Int /\ q.size \in Int
      /\ IF PageOnly(q) THEN a = FastAnswer(table, q) ELSE a \in GeneralAnswers(table, q)
  BY WellFormedAnswersAre
<1>3. Shaped(table, w) = Shaped(table, q) /\ FilterRows(table, w) = FilterRows(table, q) /\ w.sort = q.sort
      /\ w.fields = {} /\ Size(w) = Size(q)
  BY <1>1, SameRows DEF SameButPage, Size
<1>4. Shaped(table, q) \in Seq(S)
  BY ShapedIs
<1> HIDE DEF w
<1>5. ASSUME NEW result \in Sorted(Shaped(table, q), q.sort)
      PROVE  /\ result \in Seq(S)
             /\ MakeQueryResult(result, Len(result), 0, Size(q)) \in GeneralAnswers(table, w)
  <2>1. result \in Seq(S)
    BY <1>4, SortedIs
  <2>2. ProjectFields(result, w) = result
    BY <1>3, <2>1, ProjectionIs
  <2>3. ~(w.page > 0)
    BY <1>1
  <2> QED
    BY <1>3, <2>1, <2>2, <2>3 DEF GeneralAnswers
<1>6. CASE PageOnly(q)
  <2> DEFINE all == FilterRows(table, q)
  <2>1. Shaped(table, q) = all /\ q.sort = <<>>
    BY <1>6 DEF PageOnly, Shaped
  <2>2. all \in Sorted(Shaped(table, q), q.sort)
    BY <2>1 DEF Sorted
  <2>3. Start(q) \in Nat /\ q.page * Size(q) = Start(q) + Size(q)
    BY <1>2, PageIs
  <2>4. a = MakeQueryResult(Slice(all, Start(q), Start(q) + Size(q)), Len(all), q.page, Size(q))
    BY <1>2, <1>6, <2>3 DEF FastAnswer, Slice
  <2>5. a = MakeQueryResult(Slice(all, Start(q), q.page * Size(q)), Len(all), q.page, Size(q))
    BY <2>3, <2>4
  <2> HIDE DEF all
  <2> QED
    BY <1>5, <2>2, <2>5 DEF w
<1>7. CASE ~PageOnly(q)
  <2>1. PICK result \in Sorted(Shaped(table, q), q.sort) :
          a = MakeQueryResult(Slice(ProjectFields(result, q), Start(q), q.page * Size(q)),
                              Len(ProjectFields(result, q)), q.page, Size(q))
    BY <1>2, <1>7, GeneralAnswersAre
  <2>2. ProjectFields(result, q) = result
    BY <1>5, ProjectionIs
  <2> QED
    BY <1>5, <2>1, <2>2 DEF w
<1> QED
  BY <1>6, <1>7

LEMMA ProductsGrow ==
  ASSUME NEW a \in Int, NEW b \in Int, NEW z \in Nat, a <= b
  PROVE  a * z <= b * z
<1>1. b - a \in Nat /\ \A x, y \in Nat : x * y \in Nat
  OBVIOUS
<1>2. (b - a) * z \in Nat
  BY <1>1
<1>3. (b - a) * z = b * z - a * z
  OBVIOUS
<1>4. a * z \in Int /\ b * z \in Int
  OBVIOUS
<1> QED
  BY <1>2, <1>3, <1>4

LEMMA PageCount ==
  ASSUME NEW n \in Nat, NEW z \in Nat, z > 0, NEW p \in Nat, p > 0
  PROVE  p <= (n + z - 1) \div z <=> (p - 1) * z < n
<1> DEFINE d == (n + z - 1) \div z
<1>1. d \in Nat /\ d * z <= n + z - 1 /\ n + z - 1 < d * z + z
  <2>1. \A x \in Nat : \A y \in Nat \ {0} : (x \div y) * y <= x /\ x < (x \div y) * y + y /\ x \div y \in Nat
    OBVIOUS
  <2>2. n + z - 1 \in Nat /\ z \in Nat \ {0}
    OBVIOUS
  <2> QED
    BY <2>1, <2>2
<1> HIDE DEF d
<1>2. d * z \in Int /\ p * z \in Int /\ (p - 1) * z = p * z - z
  BY <1>1
<1>3. CASE p <= d
  <2>1. p * z <= d * z
    BY <1>1, <1>3, ProductsGrow
  <2>2. (p - 1) * z < n
    BY <1>1, <1>2, <2>1
  <2> QED
    BY <1>3, <2>2 DEF d
<1>4. CASE ~(p <= d)
  <2>1. d <= p - 1 /\ p - 1 \in Int
    BY <1>1, <1>4
  <2>2. d * z <= (p - 1) * z
    BY <1>1, <2>1, ProductsGrow
  <2>3. ~((p - 1) * z < n)
    BY <1>1, <1>2, <2>2
  <2> QED
    BY <1>4, <2>3 DEF d
<1> QED
  BY <1>3, <1>4

\* Paging: on both paths a page is that slice of an answer the query gives
\* unpaged, and status, records and pages tell of the whole.
THEOREM PagesAreCutFromOneAnswer == Spec => []PageIsSliceOfWhole
<1>1. ASSUME QueryInv
      PROVE  PageIsSliceOfWhole
  <2> DEFINE q == answer.query
             r == answer.result
             z == Size(q)
  <2> SUFFICES ASSUME Answered, q.page > 0, q.fields = {}, PageFits(q)
               PROVE  \E whole \in GeneralAnswers(rows, Unpaged(q)) :
                        /\ r.data = Slice(whole.data, (q.page - 1) * z, q.page * z)
                        /\ r.records = Len(whole.data)
                        /\ r.status = "empty" <=> (q.page - 1) * z >= Len(whole.data)
                        /\ \A p \in 1..(r.records + 1) : p <= r.pages <=> (p - 1) * z < r.records
    BY DEF PageIsSliceOfWhole, Slice
  <2>0. Select(rows, q) = QueryTableRows(rows, q)
    <3>1. IsQuery(q)
      BY <1>1, UseAssumption DEF QueryInv, TypeInv, AnswerInv, Answered
    <3>2. q.page # 0
      BY <3>1 DEF IsQuery
    <3> HIDE DEF q
    <3> QED
      BY <3>2, WholePipeline
  <2>1. rows \in Seq(TableRows) /\ IsQuery(q) /\ r \in QueryTableRows(rows, q) /\ r.status # "paramerr"
    BY <1>1, <2>0, UseAssumption DEF QueryInv, TypeInv, AnswerInv, Answered
  <2> HIDE DEF q, r
  <2>2. PICK all : /\ \E T : all \in Seq(T)
                   /\ MakeQueryResult(all, Len(all), 0, Size(q)) \in GeneralAnswers(rows, Unpaged(q))
                   /\ r = MakeQueryResult(Slice(all, Start(q), q.page * Size(q)), Len(all), q.page, Size(q))
    BY <2>1, PagesAreSlices
  <2>3. q.page \in Int /\ q.size \in Int
    BY <2>1 DEF IsQuery
  <2>4. /\ z \in Nat /\ z > 0 /\ Start(q) = (q.page - 1) * z /\ Start(q) \in Nat
        /\ q.page * z = Start(q) + z
    BY <2>3, PageIs
  <2> DEFINE whole == MakeQueryResult(all, Len(all), 0, Size(q))
             end == q.page * z
  <2>5. whole.data = all
    BY DEF MakeQueryResult
  <2>6. r.data = Slice(all, Start(q), end) /\ r.records = Len(all) /\ Len(all) \in Nat
        /\ r.status = (IF r.data = <<>> THEN "empty" ELSE "success") /\ r.pages = (Len(all) + z - 1) \div z
    BY <2>2 DEF MakeQueryResult, Pages
  <2> HIDE DEF z
  <2>7. end \in Nat /\ Start(q) < end
    BY <2>4
  <2> HIDE DEF end, whole
  <2>8. Slice(all, Start(q), end) = <<>> <=> Start(q) >= Len(all)
    BY <2>2, <2>4, <2>7, SliceIs
  <2>9. \A p \in 1..(r.records + 1) : p <= r.pages <=> (p - 1) * z < r.records
    <3> SUFFICES ASSUME NEW p \in 1..(r.records + 1)
                 PROVE  p <= r.pages <=> (p - 1) * z < r.records
      OBVIOUS
    <3> DEFINE n == Len(all)
    <3>1. n \in Nat /\ r.records = n /\ r.pages = (n + z - 1) \div z /\ z \in Nat /\ z > 0
      BY <2>4, <2>6
    <3> HIDE DEF n
    <3>2. p \in Nat /\ p > 0
      BY <3>1
    <3>3. p <= (n + z - 1) \div z <=> (p - 1) * z < n
      BY <3>1, <3>2, PageCount
    <3> QED
      BY <3>1, <3>3
  <2> QED
    BY <2>2, <2>4, <2>5, <2>6, <2>8, <2>9 DEF whole, end
<1> QED
  BY <1>1, AnswersFitTheirRows, PTL

-----------------------------------------------------------------------------
(* Groups.                                                                 *)

\* What a row adds to an aggregate.
Worth(table, q, a) ==
  [i \in DOMAIN table |->
     IF a \in DOMAIN q.sums
     THEN IF Child(table[i], q.sums[a]).num # NotNumeric THEN Child(table[i], q.sums[a]).num ELSE 0
     ELSE IF q.counts[a] \in {"*", "1"} \/ ~IsNil(Child(table[i], q.counts[a])) THEN 1 ELSE 0]

Share(table, at, q, a) == [i \in 1..Len(table) |-> IF i \in at THEN Worth(table, q, a)[i] ELSE 0]

LEMMA ComputedValue ==
  /\ \A n \in Int : Value(Computed(n)) = n
  /\ Value(Null) = 0
BY UseAssumption DEF Value, Computed, Null

LEMMA AggregateIsSum ==
  ASSUME NEW table \in Seq(TableRows), NEW at, at \subseteq DOMAIN table, NEW q, NEW a \in Aggregates(q)
  PROVE  /\ \A i \in 1..Len(table) : Worth(table, q, a)[i] \in Int
         /\ Value(AggregateRow(table, at, q)[a]) = SumUpTo(Share(table, at, q, a), Len(table))
         /\ Value(AggregateRow(table, at, q)[a]) \in Int
<1>1. DOMAIN table = 1..Len(table) /\ Len(table) \in Nat
  OBVIOUS
<1>2. \A i \in DOMAIN table : \A f : Child(table[i], f).num = NotNumeric \/ Child(table[i], f).num \in Int
  BY ElementsAre, ChildrenAre, NumbersAre
<1>3. \A i \in 1..Len(table) : Worth(table, q, a)[i] \in Int
  BY <1>1, <1>2 DEF Worth
<1>4. \A i \in 1..Len(table) : Share(table, at, q, a)[i] = IF i \in at THEN Worth(table, q, a)[i] ELSE 0
  BY DEF Share
<1>5. \A i \in 1..Len(table) : Share(table, at, q, a)[i] \in Int
  BY <1>3, <1>4
<1>6. CASE a \in DOMAIN q.sums
  <2> DEFINE f == Addends(table, at, q.sums[a])
  <2>1. AggregateRow(table, at, q)[a] = SumOf(table, at, q.sums[a])
    BY <1>6 DEF AggregateRow
  <2>2. \A i \in 1..Len(table) : f[i] = Share(table, at, q, a)[i]
    BY <1>1, <1>4, <1>6 DEF Addends, Worth
  <2>3. /\ \A i \in 1..Len(table) : f[i] \in Int
        /\ SumUpTo(f, Len(table)) \in Int
        /\ \/ SumOf(table, at, q.sums[a]) = Computed(SumUpTo(f, Len(table)))
           \/ SumOf(table, at, q.sums[a]) = Null /\ SumUpTo(f, Len(table)) = 0
    BY SumsAre
  <2> HIDE DEF f
  <2>4. SumUpTo(f, Len(table)) = SumUpTo(Share(table, at, q, a), Len(table))
    BY <1>1, <2>2, <2>3, SumsAgree
  <2>5. Value(SumOf(table, at, q.sums[a])) = SumUpTo(f, Len(table))
    BY <2>3, ComputedValue
  <2> QED
    BY <1>3, <2>1, <2>3, <2>4, <2>5
<1>7. CASE a \notin DOMAIN q.sums
  <2> DEFINE counted == Counted(table, at, q.counts[a])
             f == [i \in 1..Len(table) |-> IF i \in counted THEN 1 ELSE 0]
  <2>1. AggregateRow(table, at, q)[a] = CountOf(table, at, q.counts[a])
    BY <1>7 DEF AggregateRow
  <2>2. CountOf(table, at, q.counts[a]) = Computed(Rank(counted, Len(table))) /\ Rank(counted, Len(table)) \in Nat
    BY CountsAre
  <2>3. Rank(counted, Len(table)) = SumUpTo(f, Len(table))
    BY <1>1, CountAsSum
  <2>4. \A i \in 1..Len(table) : f[i] = Share(table, at, q, a)[i] /\ f[i] \in Int
    BY <1>1, <1>4, <1>7 DEF Worth, Counted
  <2> HIDE DEF f, counted
  <2>5. SumUpTo(f, Len(table)) = SumUpTo(Share(table, at, q, a), Len(table))
    BY <1>1, <2>4, SumsAgree
  <2>6. Value(CountOf(table, at, q.counts[a])) = SumUpTo(f, Len(table))
    BY <2>2, <2>3, ComputedValue
  <2> QED
    BY <1>3, <2>1, <2>2, <2>3, <2>5, <2>6
<1> QED
  BY <1>6, <1>7

\* The groups in any arrangement: what they add up to, and their values.
LEMMA GroupsAddUp ==
  ASSUME NEW table \in Seq(TableRows), NEW q, NEW data,
         NEW p \in Bijection(DOMAIN GroupedRows(table, q), DOMAIN GroupedRows(table, q)),
         data = [i \in DOMAIN GroupedRows(table, q) |-> GroupedRows(table, q)[p[i]]]
  PROVE  /\ \A a \in Aggregates(q) : Total(data, a) = Value(AggregateRow(table, DOMAIN table, q)[a])
         /\ q.group \notin Aggregates(q) =>
              \A i, j \in DOMAIN data : i # j => Child(data[i], q.group) # Child(data[j], q.group)
<1> DEFINE keys == Keys(table, q)
           m == Cardinality(keys)
           n == Len(table)
           ordered == InKeyOrder(keys)
           at(i) == Members(table, ordered[i], q)
<1>1. DOMAIN table = 1..n /\ n \in Nat /\ \A i \in DOMAIN table : table[i] \in TableRows
  BY ElementsAre
<1>2. \A i \in DOMAIN table : Child(table[i], q.group) \in SortValues
  BY <1>1, ChildrenAre
<1>3. /\ m \in Nat /\ ordered \in Bijection(1..m, keys)
      /\ GroupedRows(table, q) = [i \in 1..m |-> GroupRow(table, at(i), q)]
      /\ \A i \in 1..m : at(i) \subseteq DOMAIN table /\ Max(at(i)) \in at(i)
  BY <1>2, GroupsAre
<1>4. \A i : \A k \in DOMAIN table : k \in at(i) <=> KeyOf(table, k, q) = ordered[i]
  BY DEF Members
<1>5. \A k \in DOMAIN table : KeyOf(table, k, q) \in keys
  BY DEF Keys
<1> HIDE DEF keys, m, n, ordered, at
<1>6. /\ \A i \in 1..m : ordered[i] \in keys
      /\ \A i, j \in 1..m : ordered[i] = ordered[j] => i = j
      /\ \A k \in keys : \E i \in 1..m : ordered[i] = k
  BY <1>3 DEF Bijection, Injection, Surjection, IsInjective
<1>7. DOMAIN GroupedRows(table, q) = 1..m
  BY <1>3
<1>8. /\ \A i \in 1..m : p[i] \in 1..m
      /\ \A i, j \in 1..m : p[i] = p[j] => i = j
      /\ \A k \in 1..m : \E i \in 1..m : p[i] = k
  BY <1>7 DEF Bijection, Injection, Surjection, IsInjective
<1>9. data = [i \in 1..m |-> GroupRow(table, at(p[i]), q)]
  BY <1>3, <1>7, <1>8
<1>10. DOMAIN data = 1..m /\ Len(data) = m /\ \A i \in 1..m : data[i] = GroupRow(table, at(p[i]), q)
  BY <1>3, <1>9
<1>11. ASSUME NEW a \in Aggregates(q)
       PROVE  Total(data, a) = Value(AggregateRow(table, DOMAIN table, q)[a])
  <2> DEFINE f == Worth(table, q, a)
             part == [k \in 1..n |-> CHOOSE j \in 1..m : ordered[p[j]] = KeyOf(table, k, q)]
  <2>1. ASSUME NEW k \in 1..n
        PROVE  part[k] \in 1..m /\ \A j \in 1..m : k \in at(p[j]) <=> part[k] = j
    <3>1. \E j \in 1..m : ordered[p[j]] = KeyOf(table, k, q)
      <4>1. PICK i \in 1..m : ordered[i] = KeyOf(table, k, q)
        BY <1>1, <1>5, <1>6
      <4>2. PICK j \in 1..m : p[j] = i
        BY <1>8
      <4> QED
        BY <4>1, <4>2
    <3>2. part[k] \in 1..m /\ ordered[p[part[k]]] = KeyOf(table, k, q)
      BY <3>1
    <3> HIDE DEF part
    <3>3. \A j \in 1..m : ordered[p[j]] = KeyOf(table, k, q) <=> part[k] = j
      <4> SUFFICES ASSUME NEW j \in 1..m, ordered[p[j]] = KeyOf(table, k, q)
                   PROVE  part[k] = j
        BY <3>2
      <4>1. ordered[p[j]] = ordered[p[part[k]]] /\ p[j] \in 1..m /\ p[part[k]] \in 1..m
        BY <1>8, <3>2
      <4>2. p[j] = p[part[k]]
        BY <1>6, <4>1
      <4> QED
        BY <1>8, <3>2, <4>2
    <3> QED
      BY <1>1, <1>4, <3>2, <3>3
  <2> HIDE DEF part
  <2>2. \A i \in 1..n : f[i] \in Int
    BY AggregateIsSum DEF n
  <2> HIDE DEF f
  <2>3. ASSUME NEW j \in 1..m
        PROVE  Value(data[j][a]) = Part(f, part, j, n) /\ Value(data[j][a]) \in Int
    <3>1. data[j][a] = AggregateRow(table, at(p[j]), q)[a]
      BY <1>10 DEF GroupRow
    <3>2. at(p[j]) \subseteq DOMAIN table
      BY <1>3, <1>8
    <3>3. /\ Value(AggregateRow(table, at(p[j]), q)[a]) = SumUpTo(Share(table, at(p[j]), q, a), n)
          /\ Value(AggregateRow(table, at(p[j]), q)[a]) \in Int
      BY <3>2, AggregateIsSum DEF n
    <3>4. Share(table, at(p[j]), q, a) = [i \in 1..n |-> IF part[i] = j THEN f[i] ELSE 0]
      BY <2>1 DEF Share, f, n
    <3> QED
      BY <3>1, <3>3, <3>4 DEF Part
  <2>4. Total(data, a) = SumUpTo([j \in 1..m |-> Part(f, part, j, n)], m)
    <3>1. [i \in DOMAIN data |-> Value(data[i][a])] = [j \in 1..m |-> Part(f, part, j, n)]
      BY <1>10, <2>3
    <3> QED
      BY <1>10, <3>1 DEF Total
  <2>5. SumUpTo([j \in 1..m |-> Part(f, part, j, n)], m) = SumUpTo(f, n)
    <3>1. n \in Nat /\ m \in Nat /\ \A i \in 1..n : f[i] \in Int /\ part[i] \in 1..m
      BY <1>1, <1>3, <2>1, <2>2
    <3>2. SumOfParts(f, part, n, m) = SumUpTo(f, n)
      BY <3>1, PartsAddUp
    <3> QED
      BY <3>2 DEF SumOfParts
  <2>6. Value(AggregateRow(table, DOMAIN table, q)[a]) = SumUpTo(Share(table, DOMAIN table, q, a), n)
    BY AggregateIsSum DEF n
  <2>7. \A i \in 1..n : Share(table, DOMAIN table, q, a)[i] = f[i]
    BY <1>1 DEF Share, f, n
  <2>8. SumUpTo(f, n) = SumUpTo(Share(table, DOMAIN table, q, a), n)
    BY <1>1, <2>2, <2>7, SumsAgree
  <2> QED
    BY <2>4, <2>5, <2>6, <2>8
<1>12. ASSUME q.group \notin Aggregates(q), NEW i \in 1..m, NEW j \in 1..m, i # j
       PROVE  Child(data[i], q.group) # Child(data[j], q.group)
  <2>1. ASSUME NEW k \in 1..m
        PROVE  GroupKey(Child(data[k], q.group)) = ordered[p[k]]
    <3>1. Child(data[k], q.group) = Child(table[Max(at(p[k]))], q.group)
      BY <1>10, <1>12 DEF GroupRow, Child
    <3>2. Max(at(p[k])) \in at(p[k]) /\ Max(at(p[k])) \in DOMAIN table
      BY <1>3, <1>8
    <3>3. KeyOf(table, Max(at(p[k])), q) = ordered[p[k]]
      BY <1>4, <3>2
    <3> QED
      BY <3>1, <3>3 DEF KeyOf
  <2>2. p[i] # p[j] /\ p[i] \in 1..m /\ p[j] \in 1..m
    BY <1>8, <1>12
  <2>3. ordered[p[i]] # ordered[p[j]]
    BY <1>6, <2>2
  <2>4. GroupKey(Child(data[i], q.group)) # GroupKey(Child(data[j], q.group))
    BY <2>1, <2>3
  <2> QED
    BY <2>4
<1> QED
  BY <1>10, <1>11, <1>12

IsGrouped(q) == q.group # ""

\* Groups partition the rows that match: nothing is lost, doubled or split.
THEOREM GroupsArePartitions == Spec => []GroupsPartition
<1>1. ASSUME QueryInv
      PROVE  GroupsPartition
  <2> DEFINE q == answer.query
             r == answer.result
             matches == FilterRows(rows, q)
  <2> SUFFICES ASSUME Answered, IsGrouped(q), q.page = 0, q.fields = {}
               PROVE  /\ \A a \in Aggregates(q) :
                           Total(r.data, a) = Value(AggregateRow(matches, DOMAIN matches, q)[a])
                      /\ q.group \notin Aggregates(q) =>
                           \A i, j \in DOMAIN r.data : i # j => Child(r.data[i], q.group) # Child(r.data[j], q.group)
    BY DEF GroupsPartition, IsGrouped
  <2>0. Select(rows, q) = QueryTableRows(rows, q)
    BY WholePipeline DEF IsGrouped
  <2>1. rows \in Seq(TableRows) /\ IsQuery(q) /\ r \in QueryTableRows(rows, q) /\ r.status # "paramerr"
    BY <1>1, <2>0, UseAssumption DEF QueryInv, TypeInv, AnswerInv, Answered
  <2> HIDE DEF q, r
  <2>2. q.page \in Int /\ q.size \in Int /\ r \in GeneralAnswers(rows, q) /\ ~(q.page > 0)
    <3>1. ~PageOnly(q)
      BY DEF PageOnly, IsGrouped
    <3>2. ~(q.page > 0)
      OBVIOUS
    <3> QED
      BY <2>1, <3>1, <3>2, WellFormedAnswersAre
  <2>3. PageFits(q)
    <3>1. Size(q) \in Int
      BY <2>2 DEF Size
    <3>2. 0 * Size(q) = 0
      BY <3>1
    <3> QED
      BY <3>2, QueryAssumption DEF PageFits
  <2>4. PICK result \in Sorted(Shaped(rows, q), q.sort) :
          r = MakeQueryResult(ProjectFields(result, q), Len(ProjectFields(result, q)), 0, Size(q))
    BY <2>1, <2>2, <2>3, GeneralAnswersAre
  <2>5. Shaped(rows, q) = GroupedRows(matches, q)
    BY DEF Shaped, IsGrouped
  <2>6. matches \in Seq(TableRows)
    BY <2>1, FilterRowsAre
  <2>7. Shaped(rows, q) \in Seq(ToSet(Shaped(rows, q)))
    BY <2>1, ShapedIs
  <2>8. r.data = result
    BY <2>4, <2>7, SortedIs, ProjectionIs DEF MakeQueryResult
  <2>9. PICK p \in Bijection(DOMAIN Shaped(rows, q), DOMAIN Shaped(rows, q)) :
          result = [i \in DOMAIN Shaped(rows, q) |-> Shaped(rows, q)[p[i]]]
    BY <2>7, SortedIs
  <2> HIDE DEF matches
  <2> QED
    BY <2>5, <2>6, <2>8, <2>9, GroupsAddUp
<1> QED
  BY <1>1, AnswersFitTheirRows, PTL

-----------------------------------------------------------------------------
(* Changes to the table: what they do at each position.                    *)

\* Nothing has the id of a new row; a rewritten row keeps its place and its
\* id; the last row takes the place of a removed one.
Appended(old, new, row) ==
  /\ Len(new) = Len(old) + 1 /\ new[Len(old) + 1] = row
  /\ \A j \in 1..Len(old) : new[j] = old[j] /\ IdOf(old[j]) # IdOf(row)

Rewritten(old, new, k) ==
  /\ k \in 1..Len(old) /\ Len(new) = Len(old) /\ IdOf(new[k]) = IdOf(old[k])
  /\ \A j \in 1..Len(old) : j # k => new[j] = old[j]

Removed(old, new, k) ==
  /\ k \in 1..Len(old) /\ Len(new) = Len(old) - 1
  /\ \A j \in 1..(Len(old) - 1) : new[j] = IF j = k THEN old[Len(old)] ELSE old[j]

LEMMA NewRowHasItsId ==
  ASSUME NEW id \in Ids, NEW cell
  PROVE  IdOf(NewRow(id, cell)) = id
BY DEF NewRow, IdOf, Str

LEMMA ChangesAre ==
  ASSUME rows \in Seq(TableRows), NEW id \in Ids, NEW cell \in Cells
  PROVE  /\ AddRow(id, cell) => Appended(rows, rows', NewRow(id, cell))
         /\ ChangeRow(id, cell) => Rewritten(rows, rows', Position(id))
         /\ RemoveRow(id) => Removed(rows, rows', Position(id))
<1> DEFINE n == Len(rows)
           k == Position(id)
           row == NewRow(id, cell)
<1>1. row \in TableRows /\ IdOf(row) = id
  BY NewRowsAre, NewRowHasItsId
<1>2. /\ n \in Nat /\ DOMAIN rows = 1..n /\ \A j \in 1..n : rows[j] \in TableRows
      /\ k > 0 => k \in 1..n /\ IdOf(rows[k]) = id
      /\ k = 0 => \A j \in 1..n : IdOf(rows[j]) # id
  BY ElementsAre, PositionIs
<1> HIDE DEF k, row
<1>3. ASSUME AddRow(id, cell)
      PROVE  Appended(rows, rows', row)
  <2>1. k = 0 /\ rows' = Append(rows, row)
    BY <1>3 DEF AddRow, k, row
  <2>2. Len(rows') = n + 1 /\ rows'[n + 1] = row /\ \A j \in 1..n : rows'[j] = rows[j]
    BY <1>1, <2>1, AppendIs
  <2> QED
    BY <1>1, <1>2, <2>1, <2>2 DEF Appended
<1>4. ASSUME ChangeRow(id, cell)
      PROVE  Rewritten(rows, rows', k)
  <2>1. k > 0 /\ rows' = [rows EXCEPT ![k] = row]
    BY <1>4 DEF ChangeRow, k, row
  <2>2. Len(rows') = n /\ \A j \in 1..n : rows'[j] = IF j = k THEN row ELSE rows[j]
    BY <1>1, <1>2, <2>1, ExceptSeq
  <2> QED
    BY <1>1, <1>2, <2>1, <2>2 DEF Rewritten
<1>5. ASSUME RemoveRow(id)
      PROVE  Removed(rows, rows', k)
  <2> DEFINE moved == [rows EXCEPT ![k] = rows[n]]
  <2>1. k > 0 /\ rows' = SubSeq(moved, 1, Len(moved) - 1)
    BY <1>5 DEF RemoveRow, k, Front, Last
  <2>2. k \in 1..n /\ rows[n] \in TableRows
    BY <1>2, <2>1
  <2>3. moved \in Seq(TableRows) /\ Len(moved) = n /\ \A j \in 1..n : moved[j] = IF j = k THEN rows[n] ELSE rows[j]
    BY <2>2, ExceptSeq
  <2> HIDE DEF moved
  <2>4. \A j \in 1..(n - 1) : moved[j] \in TableRows
    BY <1>2, <2>3
  <2>5. Len(rows') = n - 1 /\ \A j \in 1..(n - 1) : rows'[j] = moved[j]
    <3>1. n - 1 \in Int /\ 1 \in Int /\ rows' = SubSeq(moved, 1, n - 1)
      BY <1>2, <2>1, <2>3
    <3> DEFINE s == SubSeq(moved, 1, n - 1)
    <3>2. /\ Len(s) = (IF 1 <= n - 1 THEN (n - 1) - 1 + 1 ELSE 0)
          /\ \A j \in 1..((n - 1) - 1 + 1) : s[j] = moved[1 + j - 1]
      BY <2>4, <3>1, SubSeqProperties
    <3> HIDE DEF s
    <3>3. n >= 1 /\ (n - 1) - 1 + 1 = n - 1 /\ \A j \in 1..(n - 1) : 1 + j - 1 = j
      <4>1. n \in Nat /\ k \in 1..n
        BY <1>2, <2>2
      <4> HIDE DEF n
      <4> QED
        BY <4>1
    <3>4. Len(s) = n - 1 /\ \A j \in 1..(n - 1) : s[j] = moved[j]
      <4>1. n \in Nat
        BY <1>2
      <4> HIDE DEF n
      <4>2. Len(s) = n - 1
        BY <3>2, <3>3, <4>1
      <4> QED
        BY <3>2, <3>3, <4>1, <4>2
    <3> QED
      BY <3>1, <3>4 DEF s
  <2> QED
    BY <1>2, <2>2, <2>3, <2>5 DEF Removed
<1> QED
  BY <1>3, <1>4, <1>5 DEF k, row

\* No two rows have one id.
DistinctIds(table) == \A i, j \in 1..Len(table) : IdOf(table[i]) = IdOf(table[j]) => i = j

LEMMA IdsStayDistinct ==
  ASSUME NEW old \in Seq(TableRows), NEW new, DistinctIds(old)
  PROVE  /\ \A row : Appended(old, new, row) => DistinctIds(new)
         /\ \A k : Rewritten(old, new, k) => DistinctIds(new)
         /\ \A k : Removed(old, new, k) => DistinctIds(new)
<1> DEFINE n == Len(old)
<1>1. n \in Nat /\ \A i, j \in 1..n : IdOf(old[i]) = IdOf(old[j]) => i = j
  BY DEF DistinctIds
<1> HIDE DEF n
<1>2. ASSUME NEW row, Appended(old, new, row)
      PROVE  DistinctIds(new)
  <2>1. Len(new) = n + 1 /\ new[n + 1] = row /\ \A j \in 1..n : new[j] = old[j] /\ IdOf(old[j]) # IdOf(row)
    BY <1>2 DEF Appended, n
  <2>2. \A j \in 1..(n + 1) : j = n + 1 \/ j \in 1..n
    BY <1>1
  <2> QED
    BY <1>1, <2>1, <2>2 DEF DistinctIds
<1>3. ASSUME NEW k, Rewritten(old, new, k)
      PROVE  DistinctIds(new)
  <2>1. Len(new) = n /\ \A j \in 1..n : IdOf(new[j]) = IdOf(old[j])
    BY <1>3 DEF Rewritten, n
  <2> QED
    BY <1>1, <2>1 DEF DistinctIds
<1>4. ASSUME NEW k, Removed(old, new, k)
      PROVE  DistinctIds(new)
  <2>1. Len(new) = n - 1 /\ \A j \in 1..(n - 1) : new[j] = IF j = k THEN old[n] ELSE old[j]
    BY <1>4 DEF Removed, n
  <2>2. \A j \in 1..(n - 1) : j \in 1..n /\ j # n /\ n \in 1..n
    BY <1>1
  <2> QED
    BY <1>1, <2>1, <2>2 DEF DistinctIds
<1> QED
  BY <1>2, <1>3, <1>4

-----------------------------------------------------------------------------
(* The first matches of a table, and how changes move them.                *)

\* The positions of the first c.
Prefix(at, c) == {j \in at : Rank(at, j) <= c}

AtMostOne(S) == \A x, y \in S : x = y

LEMMA RankOfOneMore ==
  ASSUME NEW at, NEW k \in Nat \ {0}, k \notin at, NEW j \in Nat
  PROVE  Rank(at \cup {k}, j) = IF k <= j THEN Rank(at, j) + 1 ELSE Rank(at, j)
<1>1. IsFiniteSet(at \cap 1..j) /\ k \notin at \cap 1..j
  <2>1. IsFiniteSet(1..j)
    BY FS_Interval
  <2> QED
    BY <2>1, FS_Subset
<1>2. (at \cup {k}) \cap 1..j = IF k <= j THEN (at \cap 1..j) \cup {k} ELSE at \cap 1..j
  OBVIOUS
<1> QED
  BY <1>1, <1>2, FS_AddElement DEF Rank

LEMMA RanksAreDistinct ==
  ASSUME NEW at, at \subseteq Nat, NEW i \in at, NEW j \in at, Rank(at, i) = Rank(at, j)
  PROVE  i = j
<1>1. i \in Nat /\ j \in Nat /\ Rank(at, i) \in Nat
  BY RankIs
<1>2. i < j => Rank(at, i) < Rank(at, j)
  BY <1>1, RanksGrow
<1>3. j < i => Rank(at, j) < Rank(at, i)
  BY <1>1, RanksGrow
<1> QED
  BY <1>1, <1>2, <1>3

\* One more match adds itself to the first c, or pushes the last of them out.
LEMMA OneMoreMatch ==
  ASSUME NEW at, at \subseteq Nat \ {0}, NEW k \in Nat \ {0}, k \notin at, NEW c \in Nat
  PROVE  /\ Prefix(at \cup {k}, c) \ Prefix(at, c) \subseteq {k}
         /\ AtMostOne(Prefix(at, c) \ Prefix(at \cup {k}, c))
<1>1. \A j \in at : Rank(at, j) \in Nat /\ Rank(at \cup {k}, j) \in {Rank(at, j), Rank(at, j) + 1}
  BY RankOfOneMore, RankIs
<1>2. \A j \in at : Rank(at \cup {k}, j) <= c => Rank(at, j) <= c
  BY <1>1
<1>3. \A j \in at : Rank(at, j) <= c /\ ~(Rank(at \cup {k}, j) <= c) => Rank(at, j) = c
  BY <1>1
<1>4. \A i, j \in at : Rank(at, i) = c /\ Rank(at, j) = c => i = j
  BY RanksAreDistinct
<1> QED
  BY <1>2, <1>3, <1>4 DEF Prefix, AtMostOne

\* The ids of the first c matches.
Reached(table, q, c) == {IdOf(table[i]) : i \in Prefix(Matching(table, q), c)}

LEMMA MatchingIs ==
  ASSUME NEW S, NEW table \in Seq(S), NEW q
  PROVE  /\ \A j : j \in Matching(table, q) <=> j \in 1..Len(table) /\ MatchesAll(table[j], q)
         /\ Matching(table, q) \subseteq 1..Len(table) /\ Matching(table, q) \subseteq Nat \ {0}
         /\ Len(table) \in Nat
<1>1. DOMAIN table = 1..Len(table) /\ Len(table) \in Nat
  OBVIOUS
<1> QED
  BY <1>1 DEF Matching

\* An appended row hides nothing and is the only one that can be new.
LEMMA AppendingReaches ==
  ASSUME NEW old \in Seq(TableRows), NEW new \in Seq(TableRows), NEW row, Appended(old, new, row),
         NEW q, NEW c \in Nat
  PROVE  /\ Reached(old, q, c) \subseteq Reached(new, q, c)
         /\ Reached(new, q, c) \ Reached(old, q, c) \subseteq {IdOf(row)}
<1> DEFINE n == Len(old)
           A == Matching(old, q)
           B == Matching(new, q)
<1>1. n \in Nat /\ Len(new) = n + 1 /\ new[n + 1] = row /\ \A j \in 1..n : new[j] = old[j]
  BY MatchingIs DEF Appended
<1>2. /\ \A j : j \in A <=> j \in 1..n /\ MatchesAll(old[j], q)
      /\ \A j : j \in B <=> j \in 1..(n + 1) /\ MatchesAll(new[j], q)
      /\ A \subseteq 1..n
  BY <1>1, MatchingIs
<1> HIDE DEF A, B, n
<1>3. /\ \A j \in 1..n : j \in A <=> j \in B
      /\ B = A \/ B = A \cup {n + 1}
  <2>1. \A j : j \in 1..(n + 1) <=> j \in 1..n \/ j = n + 1
    BY <1>1
  <2>2. \A j \in 1..n : j \in A <=> j \in B
    BY <1>1, <1>2, <2>1
  <2>3. \A j \in B : j \in A \/ j = n + 1
    BY <1>2, <2>1, <2>2
  <2>4. A \subseteq B
    <3> SUFFICES ASSUME NEW j \in A PROVE j \in B
      OBVIOUS
    <3>1. j \in 1..n
      BY <1>2
    <3> QED
      BY <2>2, <3>1
  <2>5. CASE n + 1 \in B
    <3>1. B = A \cup {n + 1}
      BY <2>3, <2>4, <2>5
    <3> QED
      BY <2>2, <3>1
  <2>6. CASE n + 1 \notin B
    <3>1. B = A
      BY <2>3, <2>4, <2>6
    <3> QED
      BY <2>2, <3>1
  <2> QED
    BY <2>2, <2>5, <2>6
<1>4. ASSUME NEW j \in 1..n
      PROVE  Rank(B, j) = Rank(A, j)
  <2>1. n + 1 \in Nat \ {0} /\ n + 1 \notin A /\ ~(n + 1 <= j) /\ j \in Nat
    BY <1>1, <1>2
  <2> QED
    BY <1>3, <2>1, RankOfOneMore
<1>5. Prefix(A, c) \subseteq Prefix(B, c) /\ Prefix(B, c) \ Prefix(A, c) \subseteq {n + 1} /\ Prefix(A, c) \subseteq 1..n
  BY <1>2, <1>3, <1>4 DEF Prefix
<1> QED
  BY <1>1, <1>5 DEF Reached, A, B

\* A rewritten row costs one match at most, and so does the one it brings in.
LEMMA RewritingReaches ==
  ASSUME NEW old \in Seq(TableRows), NEW new \in Seq(TableRows), NEW k, Rewritten(old, new, k),
         NEW q, NEW c \in Nat
  PROVE  /\ AtMostOne(Reached(old, q, c) \ Reached(new, q, c))
         /\ AtMostOne(Reached(new, q, c) \ Reached(old, q, c))
<1> DEFINE n == Len(old)
           A == Matching(old, q)
           B == Matching(new, q)
<1>1. /\ n \in Nat /\ k \in 1..n /\ Len(new) = n
      /\ \A j \in 1..n : (j # k => new[j] = old[j]) /\ IdOf(new[j]) = IdOf(old[j])
  BY MatchingIs DEF Rewritten
<1>2. /\ \A j : j \in A <=> j \in 1..n /\ MatchesAll(old[j], q)
      /\ \A j : j \in B <=> j \in 1..n /\ MatchesAll(new[j], q)
      /\ A \subseteq 1..n /\ A \subseteq Nat \ {0} /\ B \subseteq 1..n /\ B \subseteq Nat \ {0}
  BY <1>1, MatchingIs
<1> HIDE DEF A, B, n
<1>3. \A j : j # k => (j \in A <=> j \in B)
  BY <1>1, <1>2
<1>4. \/ A = B
      \/ k \notin A /\ B = A \cup {k}
      \/ k \notin B /\ A = B \cup {k}
  <2>1. CASE k \in A <=> k \in B
    <3>1. \A j : j \in A <=> j \in B
      BY <1>3, <2>1
    <3> QED
      BY <3>1
  <2>2. CASE k \in B /\ k \notin A
    <3>1. \A j : j \in B <=> j \in A \cup {k}
      BY <1>3, <2>2
    <3> QED
      BY <2>2, <3>1
  <2>3. CASE k \in A /\ k \notin B
    <3>1. \A j : j \in A <=> j \in B \cup {k}
      BY <1>3, <2>3
    <3> QED
      BY <2>3, <3>1
  <2> QED
    BY <2>1, <2>2, <2>3
<1>5. AtMostOne(Prefix(A, c) \ Prefix(B, c)) /\ AtMostOne(Prefix(B, c) \ Prefix(A, c))
  <2>1. k \in Nat \ {0}
    BY <1>1
  <2>2. CASE A = B
    BY <2>2 DEF AtMostOne
  <2>3. CASE k \notin A /\ B = A \cup {k}
    BY <1>2, <2>1, <2>3, OneMoreMatch DEF AtMostOne
  <2>4. CASE k \notin B /\ A = B \cup {k}
    BY <1>2, <2>1, <2>4, OneMoreMatch DEF AtMostOne
  <2> QED
    BY <1>4, <2>2, <2>3, <2>4
<1>6. Prefix(A, c) \subseteq 1..n /\ Prefix(B, c) \subseteq 1..n
  BY <1>2 DEF Prefix
<1>7. \A x \in Reached(old, q, c) \ Reached(new, q, c) : \E j \in Prefix(A, c) \ Prefix(B, c) : x = IdOf(old[j])
  BY <1>1, <1>6 DEF Reached, A, B
<1>8. \A x \in Reached(new, q, c) \ Reached(old, q, c) : \E j \in Prefix(B, c) \ Prefix(A, c) : x = IdOf(new[j])
  BY <1>1, <1>6 DEF Reached, A, B
<1> QED
  BY <1>5, <1>7, <1>8 DEF AtMostOne

\* A removed row, with the last one in its place, costs one match at most, and
\* brings one in at most.
LEMMA RemovingReaches ==
  ASSUME NEW old \in Seq(TableRows), NEW new \in Seq(TableRows), NEW k, Removed(old, new, k),
         NEW q, NEW c \in Nat
  PROVE  /\ AtMostOne(Reached(old, q, c) \ Reached(new, q, c))
         /\ AtMostOne(Reached(new, q, c) \ Reached(old, q, c))
<1> DEFINE n == Len(old)
           A == Matching(old, q)
           B == Matching(new, q)
           rest == A \ {n}
           X == Reached(old, q, c)
           Y == Reached(new, q, c)
<1>1. /\ n \in Nat /\ k \in 1..n /\ n \in 1..n /\ Len(new) = n - 1
      /\ \A j \in 1..(n - 1) : new[j] = IF j = k THEN old[n] ELSE old[j]
  BY MatchingIs DEF Removed
<1>2. /\ \A j : j \in A <=> j \in 1..n /\ MatchesAll(old[j], q)
      /\ \A j : j \in B <=> j \in 1..(n - 1) /\ MatchesAll(new[j], q)
      /\ A \subseteq 1..n /\ A \subseteq Nat \ {0} /\ B \subseteq 1..(n - 1) /\ B \subseteq Nat \ {0}
  BY <1>1, MatchingIs
<1>3. /\ \A x \in X : \E j \in Prefix(A, c) : x = IdOf(old[j])
      /\ \A j \in Prefix(A, c) : IdOf(old[j]) \in X
      /\ \A x \in Y : \E j \in Prefix(B, c) : x = IdOf(new[j])
      /\ \A j \in Prefix(B, c) : IdOf(new[j]) \in Y
  BY DEF Reached
<1> HIDE DEF A, B, n, X, Y
<1>4. \A j : j \in 1..(n - 1) <=> j \in 1..n /\ j # n
  BY <1>1
<1>5. rest \subseteq 1..(n - 1) /\ rest \subseteq Nat \ {0} /\ n \notin rest /\ n \in Nat \ {0} /\ k \in Nat \ {0}
  BY <1>1, <1>2, <1>4
<1>6. \A j : j \notin {k, n} => (j \in rest <=> j \in B)
  BY <1>1, <1>2, <1>4
<1>7. k # n => (k \in B <=> n \in A)
  BY <1>1, <1>2, <1>4
<1>8. Prefix(rest, c) = Prefix(A, c) \ {n}
  <2>1. \A j \in rest : Rank(A, j) = Rank(rest, j)
    <3> SUFFICES ASSUME NEW j \in rest PROVE Rank(A, j) = Rank(rest, j)
      OBVIOUS
    <3>1. j \in Nat /\ ~(n <= j)
      BY <1>1, <1>5
    <3>2. A = rest \/ A = rest \cup {n}
      OBVIOUS
    <3> HIDE DEF rest
    <3> QED
      BY <1>5, <3>1, <3>2, RankOfOneMore
  <2>2. \A j : j \in rest <=> j \in A /\ j # n
    OBVIOUS
  <2> HIDE DEF rest
  <2>3. \A j : j \in Prefix(rest, c) <=> j \in Prefix(A, c) \ {n}
    BY <2>1, <2>2 DEF Prefix
  <2> QED
    BY <2>3
<1>9. Prefix(A, c) \subseteq A /\ Prefix(B, c) \subseteq B /\ Prefix(rest, c) \subseteq rest
  BY DEF Prefix
<1>10. CASE k = n
  <2>1. B = rest
    BY <1>2, <1>4, <1>6, <1>10
  <2>2. \A j \in Prefix(B, c) : new[j] = old[j]
    BY <1>1, <1>2, <1>4, <1>9, <1>10
  <2>3. \A x \in X \ Y : x = IdOf(old[n])
    <3> SUFFICES ASSUME NEW j \in Prefix(A, c), IdOf(old[j]) \notin Y
                 PROVE  j = n
      BY <1>3
    <3> SUFFICES ASSUME j # n PROVE FALSE
      OBVIOUS
    <3>1. j \in Prefix(B, c)
      BY <1>8, <2>1
    <3> QED
      BY <1>3, <2>2, <3>1
  <2>4. Y \subseteq X
    <3> SUFFICES ASSUME NEW x \in Y PROVE x \in X
      OBVIOUS
    <3>1. PICK j \in Prefix(B, c) : x = IdOf(new[j])
      BY <1>3
    <3>2. j \in Prefix(A, c) /\ new[j] = old[j]
      BY <1>8, <2>1, <2>2
    <3> QED
      BY <1>3, <3>1, <3>2
  <2> QED
    BY <2>3, <2>4 DEF AtMostOne, X, Y
<1>11. CASE k # n
  <2>1. k \in 1..(n - 1) /\ new[k] = old[n]
    BY <1>1, <1>4, <1>11
  <2>2. \A j \in Prefix(B, c) : j # k => new[j] = old[j]
    BY <1>1, <1>2, <1>9
  <2>3. CASE n \notin A
    <3>1. rest = A /\ k \notin B
      BY <1>7, <1>11, <2>3
    <3>2. B = A \/ (k \in A /\ A = B \cup {k})
      BY <1>2, <1>4, <1>6, <3>1, <2>3
    <3>3. Prefix(A, c) \ Prefix(B, c) \subseteq {k} /\ AtMostOne(Prefix(B, c) \ Prefix(A, c))
      BY <1>2, <1>5, <3>1, <3>2, OneMoreMatch DEF AtMostOne
    <3>4. \A j \in Prefix(B, c) : new[j] = old[j]
      BY <1>9, <2>2, <3>1
    <3>5. \A x \in X \ Y : x = IdOf(old[k])
      BY <1>3, <3>3, <3>4
    <3>6. \A x \in Y \ X : \E j \in Prefix(B, c) \ Prefix(A, c) : x = IdOf(new[j])
      BY <1>3, <3>4
    <3> QED
      BY <3>3, <3>5, <3>6 DEF AtMostOne, X, Y
  <2>4. CASE n \in A /\ k \in A
    <3>1. B = rest
      BY <1>2, <1>4, <1>6, <1>7, <1>11, <2>4
    <3>2. n \in Prefix(A, c) => k \in Prefix(B, c)
      <4>1. k \in Nat /\ n \in Nat /\ k <= n
        BY <1>1
      <4>2. Rank(A, k) <= Rank(A, n) /\ Rank(A, k) \in Nat /\ Rank(A, n) \in Nat
        BY <4>1, RanksGrow, RankIs
      <4>3. n \in Prefix(A, c) => k \in Prefix(A, c)
        BY <2>4, <4>2 DEF Prefix
      <4> QED
        BY <1>8, <1>11, <3>1, <4>3
    <3>3. \A x \in X \ Y : x = IdOf(old[k])
      <4> SUFFICES ASSUME NEW j \in Prefix(A, c), IdOf(old[j]) \notin Y
                   PROVE  j = k
        BY <1>3
      <4>1. CASE j = n
        BY <1>3, <2>1, <3>2, <4>1
      <4>2. CASE j # n /\ j # k
        <5>1. j \in Prefix(B, c)
          BY <1>8, <3>1, <4>2
        <5> QED
          BY <1>3, <2>2, <4>2, <5>1
      <4> QED
        BY <4>1, <4>2
    <3>4. \A x \in Y \ X : x = IdOf(old[n])
      <4> SUFFICES ASSUME NEW j \in Prefix(B, c), IdOf(new[j]) \notin X
                   PROVE  IdOf(new[j]) = IdOf(old[n])
        BY <1>3
      <4>1. j \in Prefix(A, c)
        BY <1>8, <3>1
      <4>2. j = k
        BY <1>3, <2>2, <4>1
      <4> QED
        BY <2>1, <4>2
    <3> QED
      BY <3>3, <3>4 DEF AtMostOne, X, Y
  <2>5. CASE n \in A /\ k \notin A
    <3>1. k \notin rest /\ B = rest \cup {k}
      BY <1>2, <1>4, <1>6, <1>7, <1>11, <2>5
    <3>2. Prefix(B, c) \ Prefix(rest, c) \subseteq {k} /\ AtMostOne(Prefix(rest, c) \ Prefix(B, c))
      BY <1>5, <3>1, OneMoreMatch
    <3>3. n \in Prefix(A, c) => Prefix(B, c) = B
      <4> SUFFICES ASSUME n \in Prefix(A, c), NEW j \in B
                   PROVE  Rank(B, j) <= c
        BY DEF Prefix
      <4>1. j \in Nat /\ n \in Nat /\ j <= n /\ k <= n
        BY <1>1, <1>2, <1>4
      <4>2. Rank(B, j) <= Rank(B, n)
        BY <4>1, RanksGrow
      <4>3. Rank(B, n) = Rank(rest, n) + 1
        BY <1>5, <3>1, <4>1, RankOfOneMore
      <4>4. Rank(A, n) = Rank(rest, n) + 1
        <5>1. A = rest \cup {n} /\ n <= n
          BY <2>5, <4>1
        <5> HIDE DEF rest
        <5> QED
          BY <1>5, <4>1, <5>1, RankOfOneMore
      <4>5. Rank(A, n) <= c /\ Rank(B, j) \in Nat /\ Rank(B, n) \in Nat
        BY <4>1, RankIs DEF Prefix
      <4> QED
        BY <4>2, <4>3, <4>4, <4>5
    <3>4. CASE n \in Prefix(A, c)
      <4>1. k \in Prefix(B, c) /\ Prefix(rest, c) \subseteq Prefix(B, c)
        BY <1>9, <3>1, <3>3, <3>4
      <4>2. X \subseteq Y
        <5> SUFFICES ASSUME NEW j \in Prefix(A, c) PROVE IdOf(old[j]) \in Y
          BY <1>3
        <5>1. CASE j = n
          BY <1>3, <2>1, <4>1, <5>1
        <5>2. CASE j # n
          <6>1. j \in Prefix(rest, c) /\ j # k
            BY <1>8, <1>9, <3>1, <5>2
          <6> QED
            BY <1>3, <2>2, <4>1, <6>1
        <5> QED
          BY <5>1, <5>2
      <4>3. Y \subseteq X
        <5> SUFFICES ASSUME NEW j \in Prefix(B, c) PROVE IdOf(new[j]) \in X
          BY <1>3
        <5>1. CASE j = k
          BY <1>3, <2>1, <3>4, <5>1
        <5>2. CASE j # k
          <6>1. j \in Prefix(A, c)
            BY <1>8, <3>2, <5>2
          <6> QED
            BY <1>3, <2>2, <5>2, <6>1
        <5> QED
          BY <5>1, <5>2
      <4> QED
        BY <4>2, <4>3 DEF AtMostOne, X, Y
    <3>5. CASE n \notin Prefix(A, c)
      <4>1. Prefix(rest, c) = Prefix(A, c)
        BY <1>8, <3>5
      <4>2. \A x \in X \ Y : \E j \in Prefix(rest, c) \ Prefix(B, c) : x = IdOf(old[j])
        <5> SUFFICES ASSUME NEW j \in Prefix(A, c), IdOf(old[j]) \notin Y
                     PROVE  j \in Prefix(rest, c) \ Prefix(B, c)
          BY <1>3
        <5>1. j \in Prefix(rest, c) /\ j # k
          BY <1>9, <3>1, <4>1
        <5> QED
          BY <1>3, <2>2, <5>1
      <4>3. \A x \in Y \ X : x = IdOf(old[n])
        <5> SUFFICES ASSUME NEW j \in Prefix(B, c), IdOf(new[j]) \notin X
                     PROVE  IdOf(new[j]) = IdOf(old[n])
          BY <1>3
        <5>1. CASE j = k
          BY <2>1, <5>1
        <5>2. CASE j # k
          <6>1. j \in Prefix(A, c)
            BY <3>2, <4>1, <5>2
          <6> QED
            BY <1>3, <2>2, <5>2, <6>1
        <5> QED
          BY <5>1, <5>2
      <4> QED
        BY <3>2, <4>2, <4>3 DEF AtMostOne, X, Y
    <3> QED
      BY <3>4, <3>5
  <2> QED
    BY <2>3, <2>4, <2>5
<1> QED
  BY <1>10, <1>11

-----------------------------------------------------------------------------
(* What a client has read, and what the changes meanwhile cost it.         *)

LEMMA AlmostAsMany ==
  ASSUME NEW S, NEW R, IsFiniteSet(S), IsFiniteSet(R)
  PROVE  /\ S \subseteq R => Cardinality(S) <= Cardinality(R)
         /\ AtMostOne(S \ R) => Cardinality(S) <= Cardinality(R) + 1
         /\ Cardinality(S) \in Nat /\ Cardinality(R) \in Nat
<1>1. Cardinality(S) \in Nat /\ Cardinality(R) \in Nat
  BY FS_CardinalityType
<1>2. S \subseteq R => Cardinality(S) <= Cardinality(R)
  BY FS_Subset
<1>3. ASSUME AtMostOne(S \ R)
      PROVE  Cardinality(S) <= Cardinality(R) + 1
  <2>1. CASE S \subseteq R
    BY <1>1, <1>2, <2>1
  <2>2. CASE ~(S \subseteq R)
    <3>1. PICK x \in S : x \notin R
      BY <2>2
    <3>2. S \subseteq R \cup {x}
      BY <1>3, <3>1 DEF AtMostOne
    <3>3. IsFiniteSet(R \cup {x}) /\ Cardinality(R \cup {x}) = Cardinality(R) + 1
      BY <3>1, FS_AddElement
    <3>4. Cardinality(S) <= Cardinality(R \cup {x})
      BY <3>2, <3>3, FS_Subset
    <3> QED
      BY <3>3, <3>4
  <2> QED
    BY <2>1, <2>2
<1> QED
  BY <1>1, <1>2, <1>3

LEMMA ImagesAreFinite ==
  ASSUME NEW n \in Nat, NEW f, DOMAIN f \subseteq 1..n
  PROVE  IsFiniteSet({f[i] : i \in DOMAIN f}) /\ IsFiniteSet(DOMAIN f)
<1> DEFINE g == [i \in DOMAIN f |-> f[i]]
<1>1. IsFiniteSet(DOMAIN f)
  <2>1. IsFiniteSet(1..n)
    BY FS_Interval
  <2> QED
    BY <2>1, FS_Subset
<1>2. g \in Surjection(DOMAIN f, {f[i] : i \in DOMAIN f})
  BY DEF Surjection
<1> QED
  BY <1>1, <1>2, FS_Surjection

LEMMA ReachedIsFinite ==
  ASSUME NEW table \in Seq(TableRows), NEW q, NEW c
  PROVE  IsFiniteSet(Reached(table, q, c))
<1> DEFINE f == [i \in Prefix(Matching(table, q), c) |-> IdOf(table[i])]
<1>1. Len(table) \in Nat /\ DOMAIN f \subseteq 1..Len(table)
  BY MatchingIs DEF Prefix
<1>2. Reached(table, q, c) = {f[i] : i \in DOMAIN f}
  BY DEF Reached
<1> HIDE DEF f
<1> QED
  BY <1>1, <1>2, ImagesAreFinite

LEMMA ElementsAreFinite ==
  ASSUME NEW S, NEW s \in Seq(S)
  PROVE  IsFiniteSet(ToSet(s))
<1>1. Len(s) \in Nat /\ DOMAIN s \subseteq 1..Len(s)
  OBVIOUS
<1> QED
  BY <1>1, ImagesAreFinite DEF ToSet

\* The matches are the rows in the order of their ranks.
LEMMA MatchesAre ==
  ASSUME NEW table \in Seq(TableRows), NEW q
  PROVE  LET A == Matching(table, q)
             matches == FilterRows(table, q)
         IN  /\ matches \in Seq(TableRows) /\ Len(matches) \in Nat
             /\ \A j \in A : Rank(A, j) \in 1..Len(matches) /\ matches[Rank(A, j)] = table[j]
             /\ \A l \in 1..Len(matches) : \E j \in A : Rank(A, j) = l
<1> DEFINE A == Matching(table, q)
           matches == FilterRows(table, q)
           n == Len(table)
<1>1. n \in Nat /\ A \subseteq 1..n /\ A \cap 1..n = A
  BY MatchingIs
<1>2. matches \in Seq(TableRows) /\ Len(matches) = Rank(A, n)
      /\ \A j \in A : matches[Rank(A, j)] = table[j]
  BY <1>1, RowsAtAre DEF FilterRows
<1> HIDE DEF A, matches, n
<1>3. ASSUME NEW j \in A
      PROVE  Rank(A, j) \in 1..Rank(A, n)
  <2>1. j \in Nat /\ n \in Nat /\ 0 < j /\ j <= n /\ 0 \in Nat
    BY <1>1
  <2>2. Rank(A, 0) = 0 /\ Rank(A, 0) < Rank(A, j) /\ Rank(A, j) <= Rank(A, n)
    BY <2>1, RankIs, RanksGrow
  <2>3. Rank(A, j) \in Nat /\ Rank(A, n) \in Nat
    <3>1. \A i \in Nat : Rank(A, i) \in 0..i
      BY RankIs
    <3> QED
      BY <2>1, <3>1
  <2> QED
    BY <2>2, <2>3
<1>4. Rank(A, n) \in Nat
  BY <1>1, RankIs
<1>5. \A l \in 1..Rank(A, n) : \E j \in A : Rank(A, j) = l
  BY <1>1, RanksReached
<1> QED
  BY <1>2, <1>3, <1>4, <1>5 DEF A, matches

IdsOf(data) == [i \in DOMAIN data |-> IdOf(data[i])]

LEMMA RowIds ==
  ASSUME NEW r \in TableRows
  PROVE  IdOf(r) \in Nat
<1>1. r["id"] \in Cells
  BY DEF TableRows
<1> QED
  BY <1>1, CellValues DEF IdOf, SortValues

\* The ids of the z matches after the first c are each there once, and are
\* those that reaching z more adds.
PageAdds(table, q, c, z) ==
  LET data == Slice(FilterRows(table, q), c, c + z)
      ids == IdsOf(data)
  IN  /\ ids \in Seq(Nat) /\ Cardinality(ToSet(ids)) = Len(ids) /\ IsFiniteSet(ToSet(ids))
      /\ Reached(table, q, c + z) = Reached(table, q, c) \cup ToSet(ids)
      /\ Reached(table, q, c) \cap ToSet(ids) = {}
      /\ data = <<>> => Len(FilterRows(table, q)) <= c

LEMMA NextPageReaches ==
  ASSUME NEW table \in Seq(TableRows), DistinctIds(table), NEW q, NEW c \in Nat, NEW z \in Nat, z > 0
  PROVE  PageAdds(table, q, c, z)
<1> DEFINE A == Matching(table, q)
           matches == FilterRows(table, q)
           data == Slice(matches, c, c + z)
           ids == IdsOf(data)
<1>1. /\ matches \in Seq(TableRows) /\ Len(matches) \in Nat
      /\ \A j \in A : Rank(A, j) \in 1..Len(matches) /\ matches[Rank(A, j)] = table[j]
      /\ \A l \in 1..Len(matches) : \E j \in A : Rank(A, j) = l
  BY MatchesAre
<1>2. A \subseteq 1..Len(table) /\ A \subseteq Nat
  BY MatchingIs
<1> HIDE DEF A, matches
<1>3. c + z \in Nat /\ c < c + z
  OBVIOUS
<1>4. /\ data \in Seq(TableRows)
      /\ \A i \in DOMAIN data : i \in Nat /\ i > 0 /\ c + i <= c + z /\ c + i \in 1..Len(matches) /\ data[i] = matches[c + i]
      /\ \A l \in (c + 1)..(c + z) : l \in 1..Len(matches) => l - c \in DOMAIN data
      /\ data = <<>> <=> c >= Len(matches)
  <2> DEFINE b == c + z
  <2>1. b \in Nat /\ c < b
    BY <1>3
  <2> HIDE DEF b
  <2>2. Slice(matches, c, b) \in Seq(TableRows)
    BY <1>1, <2>1, SliceIs
  <2>3. \A i \in DOMAIN Slice(matches, c, b) :
          i \in Nat /\ i > 0 /\ c + i <= b /\ c + i \in 1..Len(matches)
          /\ Slice(matches, c, b)[i] = matches[c + i]
    BY <1>1, <2>1, SliceIs
  <2>4. \A l \in (c + 1)..b : l \in 1..Len(matches) => l - c \in DOMAIN Slice(matches, c, b)
    BY <1>1, <2>1, SliceIs
  <2>5. Slice(matches, c, b) = <<>> <=> c >= Len(matches)
    BY <1>1, <2>1, SliceIs
  <2> QED
    BY <2>2, <2>3, <2>4, <2>5 DEF b
<1> HIDE DEF data
<1>5. DOMAIN data = 1..Len(data) /\ Len(data) \in Nat /\ \A i \in DOMAIN data : data[i] \in TableRows
  BY <1>4, ElementsAre
<1>6. DOMAIN ids = 1..Len(data) /\ \A i \in 1..Len(data) : ids[i] = IdOf(data[i]) /\ ids[i] \in Nat
  BY <1>5, RowIds DEF IdsOf
<1>7. ids \in Seq(Nat) /\ Len(ids) = Len(data)
  <2>1. ids = [i \in 1..Len(data) |-> ids[i]]
    BY <1>5 DEF IdsOf
  <2> QED
    BY <1>5, <1>6, <2>1
<1> HIDE DEF ids
<1>8. ASSUME NEW i \in 1..Len(data)
      PROVE  \E j \in A : Rank(A, j) = c + i /\ ids[i] = IdOf(table[j])
  <2>1. PICK j \in A : Rank(A, j) = c + i
    BY <1>1, <1>4, <1>5
  <2>2. data[i] = table[j]
    BY <1>1, <1>4, <1>5, <2>1
  <2> QED
    BY <1>6, <2>1, <2>2
<1>9. ASSUME NEW j \in A, NEW k \in A, IdOf(table[j]) = IdOf(table[k])
      PROVE  Rank(A, j) = Rank(A, k)
  BY <1>2, <1>9 DEF DistinctIds
<1>10. Cardinality(ToSet(ids)) = Len(ids) /\ IsFiniteSet(ToSet(ids))
  <2>1. ASSUME NEW i \in 1..Len(data), NEW k \in 1..Len(data), ids[i] = ids[k]
        PROVE  i = k
    <3>1. c + i = c + k
      BY <1>8, <1>9, <2>1
    <3> QED
      BY <1>5, <3>1
  <2>2. ids \in [1..Len(data) -> ToSet(ids)]
    <3>1. ids = [i \in 1..Len(data) |-> ids[i]]
      BY <1>6, <1>7
    <3> QED
      BY <1>6, <3>1 DEF ToSet
  <2>3. ids \in Surjection(1..Len(data), ToSet(ids))
    BY <1>6, <2>2 DEF Surjection, ToSet
  <2>4. ids \in Injection(1..Len(data), ToSet(ids))
    <3>1. \A i, k \in DOMAIN ids : ids[i] = ids[k] => i = k
      BY <1>6, <2>1
    <3> QED
      BY <2>2, <3>1 DEF Injection, IsInjective
  <2>5. IsFiniteSet(1..Len(data)) /\ Cardinality(1..Len(data)) = Len(data)
    <3> DEFINE n == Len(data)
    <3>1. n \in Nat
      BY <1>5
    <3> HIDE DEF n
    <3>2. IsFiniteSet(1..n) /\ Cardinality(1..n) = n
      BY <3>1, FS_Interval
    <3> QED
      BY <3>2 DEF n
  <2> QED
    BY <1>7, <2>3, <2>4, <2>5, FS_Surjection
<1>11. ASSUME NEW j \in A
       PROVE  /\ Rank(A, j) \in Nat
              /\ Rank(A, j) <= c + z /\ ~(Rank(A, j) <= c) => IdOf(table[j]) \in ToSet(ids)
  <2> DEFINE l == Rank(A, j)
  <2>1. l \in 1..Len(matches) /\ l \in Nat /\ matches[l] = table[j]
    BY <1>1
  <2> HIDE DEF l
  <2>2. ASSUME l <= c + z, ~(l <= c)
        PROVE  IdOf(table[j]) \in ToSet(ids)
    <3>1. l \in (c + 1)..(c + z) /\ l - c \in DOMAIN data /\ c + (l - c) = l
      BY <1>4, <2>1, <2>2
    <3>2. data[l - c] = table[j]
      BY <1>4, <2>1, <3>1
    <3> QED
      BY <1>5, <1>6, <3>1, <3>2 DEF ToSet
  <2> QED
    BY <2>1, <2>2 DEF l
<1>12. ToSet(ids) = {ids[i] : i \in 1..Len(data)}
  BY <1>6 DEF ToSet
<1>13. ASSUME NEW x \in ToSet(ids)
       PROVE  x \in Reached(table, q, c + z) /\ x \notin Reached(table, q, c)
  <2>1. PICK i \in 1..Len(data) : x = ids[i]
    BY <1>12
  <2>2. PICK j \in A : Rank(A, j) = c + i /\ x = IdOf(table[j])
    BY <1>8, <2>1
  <2>3. i \in Nat /\ i > 0 /\ c + i <= c + z /\ ~(c + i <= c)
    BY <1>4, <1>5
  <2>4. j \in Prefix(A, c + z) /\ j \notin Prefix(A, c)
    BY <2>2, <2>3 DEF Prefix
  <2>5. \A k \in A : IdOf(table[k]) = x => Rank(A, k) = c + i
    BY <1>9, <2>2
  <2> QED
    BY <2>2, <2>3, <2>4, <2>5 DEF Reached, Prefix, A
<1>14. Reached(table, q, c) \subseteq Reached(table, q, c + z)
  <2>1. \A j \in A : Rank(A, j) <= c => Rank(A, j) <= c + z
    BY <1>11
  <2> QED
    BY <2>1 DEF Reached, Prefix, A
<1>15. Reached(table, q, c + z) \subseteq Reached(table, q, c) \cup ToSet(ids)
  BY <1>11 DEF Reached, Prefix, A
<1> QED
  BY <1>4, <1>7, <1>10, <1>13, <1>14, <1>15 DEF ids, data, matches, PageAdds

\* A query that reads a page straight from the matches.
Simple(q) == q.sort = <<>> /\ q.group = "" /\ ~HasAggregates(q)

Passed(w) == w.page * Size(w.query)

\* What a client has seen of the matches its pages have passed: it has read no
\* more rows than those and one for every change, and missed of those that
\* matched throughout no more than one for every change.
WalkCosts(table, w) ==
  LET reached == Reached(table, w.query, Passed(w))
  IN  /\ w.seen \in Seq(Nat)
      /\ Len(w.seen) <= Cardinality(ToSet(w.seen) \cap reached) + w.changes
      /\ Cardinality((w.kept \cap reached) \ ToSet(w.seen)) <= w.changes
      /\ w.done => Len(FilterRows(table, w.query)) <= Passed(w)

WalkTyped ==
  /\ DOMAIN walk = {"query", "page", "seen", "changes", "done", "kept"}
  /\ walk.query \in config.walks /\ walk.page \in Nat /\ walk.changes \in Nat
  /\ walk.kept \subseteq {IdOf(rows[i]) : i \in Matching(rows, walk.query)}

WalkInv ==
  Walking =>
    WalkTyped /\ (Simple(walk.query) /\ Passed(walk) <= MaxInt => WalkCosts(rows, walk))

\* The first says which rows there are; the second is inductive only with it.
ReaderInv == QueryInv /\ DistinctIds(rows) /\ WalkInv

LEMMA WalkQueries ==
  ASSUME QueryInv, NEW q \in config.walks
  PROVE  /\ IsQuery(q) /\ q.wellFormed /\ q.page \in Int /\ q.size \in Int
         /\ Size(q) \in Nat /\ Size(q) > 0
<1>1. IsQuery(q) /\ q.wellFormed
  BY UseAssumption DEF QueryInv, TypeInv
<1> QED
  BY <1>1 DEF IsQuery, Size

\* One change may cost one row of those read, and one of those missed.
LEMMA ChangeCosts ==
  ASSUME NEW X, NEW Y, NEW T, NEW K, NEW L, IsFiniteSet(X), IsFiniteSet(Y), L \subseteq K
  PROVE  /\ AtMostOne(X \ Y) => Cardinality(T \cap X) <= Cardinality(T \cap Y) + 1
         /\ X \subseteq Y => Cardinality(T \cap X) <= Cardinality(T \cap Y)
         /\ AtMostOne(Y \ X) => Cardinality((L \cap Y) \ T) <= Cardinality((K \cap X) \ T) + 1
         /\ (Y \ X) \cap L = {} => Cardinality((L \cap Y) \ T) <= Cardinality((K \cap X) \ T)
         /\ Cardinality(T \cap X) \in Nat /\ Cardinality(T \cap Y) \in Nat
         /\ Cardinality((L \cap Y) \ T) \in Nat /\ Cardinality((K \cap X) \ T) \in Nat
<1>1. /\ IsFiniteSet(T \cap X) /\ IsFiniteSet(T \cap Y)
      /\ IsFiniteSet((L \cap Y) \ T) /\ IsFiniteSet((K \cap X) \ T)
  <2>1. T \cap X \subseteq X /\ T \cap Y \subseteq Y /\ (L \cap Y) \ T \subseteq Y /\ (K \cap X) \ T \subseteq X
    OBVIOUS
  <2> QED
    BY <2>1, FS_Subset
<1>2. (T \cap X) \ (T \cap Y) \subseteq X \ Y /\ (X \subseteq Y => T \cap X \subseteq T \cap Y)
  OBVIOUS
<1>3. /\ ((L \cap Y) \ T) \ ((K \cap X) \ T) \subseteq Y \ X
      /\ (Y \ X) \cap L = {} => (L \cap Y) \ T \subseteq (K \cap X) \ T
  OBVIOUS
<1>4. /\ AtMostOne(X \ Y) => AtMostOne((T \cap X) \ (T \cap Y))
      /\ AtMostOne(Y \ X) => AtMostOne(((L \cap Y) \ T) \ ((K \cap X) \ T))
  BY <1>2, <1>3 DEF AtMostOne
<1> DEFINE A == T \cap X
           B == T \cap Y
           C == (L \cap Y) \ T
           D == (K \cap X) \ T
<1> HIDE DEF A, B, C, D
<1>5. /\ A \subseteq B => Cardinality(A) <= Cardinality(B)
      /\ AtMostOne(A \ B) => Cardinality(A) <= Cardinality(B) + 1
      /\ Cardinality(A) \in Nat /\ Cardinality(B) \in Nat
  BY <1>1, AlmostAsMany DEF A, B
<1>6. /\ C \subseteq D => Cardinality(C) <= Cardinality(D)
      /\ AtMostOne(C \ D) => Cardinality(C) <= Cardinality(D) + 1
      /\ Cardinality(C) \in Nat /\ Cardinality(D) \in Nat
  BY <1>1, AlmostAsMany DEF C, D
<1> QED
  BY <1>2, <1>3, <1>4, <1>5, <1>6 DEF A, B, C, D

LEMMA WalkOverChange ==
  ASSUME ReaderInv, config' = config, rows' \in Seq(TableRows), NEW changed \in {0, 1}, Observe(changed),
         changed = 0 => \E row : Appended(rows, rows', row),
         changed = 1 => \E k : Rewritten(rows, rows', k) \/ Removed(rows, rows', k)
  PROVE  WalkInv'
<1> SUFFICES ASSUME Walking'
             PROVE  (WalkTyped /\ (Simple(walk.query) /\ Passed(walk) <= MaxInt => WalkCosts(rows, walk)))'
  BY DEF WalkInv
<1>1. Walking
  BY DEF Observe, Walking
<1> DEFINE q == walk.query
           L == {id \in walk.kept : \E i \in DOMAIN rows' : IdOf(rows'[i]) = id /\ MatchesAll(rows'[i], q)}
<1>2. walk' = [walk EXCEPT !.changes = @ + changed, !.kept = L] /\ ~walk.done
  BY <1>1 DEF Observe
<1>3. WalkTyped /\ (Simple(q) /\ Passed(walk) <= MaxInt => WalkCosts(rows, walk)) /\ rows \in Seq(TableRows)
  BY <1>1 DEF ReaderInv, WalkInv, QueryInv, TypeInv
<1>4. L \subseteq walk.kept /\ \A x \in L : \E i \in Matching(rows', q) : x = IdOf(rows'[i])
  BY DEF Matching
<1> HIDE DEF L
<1>5. /\ DOMAIN walk' = {"query", "page", "seen", "changes", "done", "kept"}
      /\ walk'.query = q /\ walk'.page = walk.page /\ walk'.seen = walk.seen /\ walk'.done = walk.done
      /\ walk'.changes = walk.changes + changed /\ walk'.kept = L
  BY <1>2, <1>3 DEF WalkTyped
<1>6. WalkTyped'
  BY <1>3, <1>4, <1>5 DEF WalkTyped
<1>7. ASSUME Simple(q), Passed(walk) <= MaxInt
      PROVE  WalkCosts(rows', walk')
  <2> DEFINE c == Passed(walk)
             X == Reached(rows, q, c)
             Y == Reached(rows', q, c)
             T == ToSet(walk.seen)
             K == walk.kept
  <2>1. c \in Nat
    <3>1. Size(q) \in Nat /\ walk.page \in Nat
      BY <1>3, WalkQueries DEF WalkTyped, ReaderInv
    <3>2. \A x, y \in Nat : x * y \in Nat
      OBVIOUS
    <3> QED
      BY <3>1, <3>2 DEF Passed
  <2>2. Passed(walk') = c
    BY <1>5 DEF Passed
  <2>3. /\ walk.seen \in Seq(Nat) /\ Len(walk.seen) <= Cardinality(T \cap X) + walk.changes
        /\ Cardinality((K \cap X) \ T) <= walk.changes
    BY <1>3, <1>7 DEF WalkCosts
  <2>4. IsFiniteSet(X) /\ IsFiniteSet(Y)
    BY <1>3, ReachedIsFinite
  <2>5. Len(walk.seen) \in Nat /\ walk.changes \in Nat
    BY <1>3, <2>3 DEF WalkTyped
  <2>6. CASE changed = 0
    <3>1. PICK row : Appended(rows, rows', row)
      BY <2>6
    <3>2. X \subseteq Y /\ Y \ X \subseteq {IdOf(row)}
      BY <1>3, <2>1, <3>1, AppendingReaches
    <3>3. IdOf(row) \notin K
      <4>1. \A x \in K : \E i \in Matching(rows, q) : x = IdOf(rows[i])
        BY <1>3 DEF WalkTyped
      <4>2. \A i \in Matching(rows, q) : i \in 1..Len(rows)
        BY <1>3, MatchingIs
      <4> QED
        BY <3>1, <4>1, <4>2 DEF Appended
    <3>4. (Y \ X) \cap L = {}
      BY <1>4, <3>2, <3>3
    <3> HIDE DEF X, Y, T, K
    <3>5. /\ Cardinality(T \cap X) <= Cardinality(T \cap Y) /\ Cardinality((L \cap Y) \ T) <= Cardinality((K \cap X) \ T)
          /\ Cardinality(T \cap X) \in Nat /\ Cardinality(T \cap Y) \in Nat
          /\ Cardinality((L \cap Y) \ T) \in Nat /\ Cardinality((K \cap X) \ T) \in Nat
      BY <1>4, <2>4, <3>2, <3>4, ChangeCosts DEF K
    <3>6. /\ Len(walk.seen) <= Cardinality(T \cap Y) + (walk.changes + changed)
          /\ Cardinality((L \cap Y) \ T) <= walk.changes + changed
      BY <2>3, <2>5, <2>6, <3>5
    <3> QED
      BY <1>2, <1>5, <2>2, <2>3, <3>6 DEF WalkCosts, Y, T
  <2>7. CASE changed = 1
    <3>1. PICK k : Rewritten(rows, rows', k) \/ Removed(rows, rows', k)
      BY <2>7
    <3>2. AtMostOne(X \ Y) /\ AtMostOne(Y \ X)
      <4>1. CASE Rewritten(rows, rows', k)
        BY <1>3, <2>1, <4>1, RewritingReaches
      <4>2. CASE Removed(rows, rows', k)
        BY <1>3, <2>1, <4>2, RemovingReaches
      <4> QED
        BY <3>1, <4>1, <4>2
    <3> HIDE DEF X, Y, T, K
    <3>3. /\ Cardinality(T \cap X) <= Cardinality(T \cap Y) + 1
          /\ Cardinality((L \cap Y) \ T) <= Cardinality((K \cap X) \ T) + 1
          /\ Cardinality(T \cap X) \in Nat /\ Cardinality(T \cap Y) \in Nat
          /\ Cardinality((L \cap Y) \ T) \in Nat /\ Cardinality((K \cap X) \ T) \in Nat
      BY <1>4, <2>4, <3>2, ChangeCosts DEF K
    <3>4. /\ Len(walk.seen) <= Cardinality(T \cap Y) + (walk.changes + changed)
          /\ Cardinality((L \cap Y) \ T) <= walk.changes + changed
      BY <2>3, <2>5, <2>7, <3>3
    <3> QED
      BY <1>2, <1>5, <2>2, <2>3, <3>4 DEF WalkCosts, Y, T
  <2> QED
    BY <2>6, <2>7
<1>8. Simple(walk'.query) /\ Passed(walk') <= MaxInt => WalkCosts(rows', walk')
  BY <1>5, <1>7 DEF Passed
<1> QED
  BY <1>6, <1>8

LEMMA ElementsOfBoth ==
  ASSUME NEW S, NEW s \in Seq(S), NEW t \in Seq(S)
  PROVE  ToSet(s \o t) = ToSet(s) \cup ToSet(t)
<1> DEFINE m == Len(s)
           n == Len(t)
<1>1. m \in Nat /\ n \in Nat /\ DOMAIN s = 1..m /\ DOMAIN t = 1..n
  OBVIOUS
<1>2. /\ DOMAIN (s \o t) = 1..(m + n)
      /\ \A i \in 1..(m + n) : (s \o t)[i] = IF i <= m THEN s[i] ELSE t[i - m]
  BY ConcatProperties
<1> HIDE DEF m, n
<1>3. \A i \in 1..(m + n) : i \in 1..m \/ (~(i <= m) /\ i - m \in 1..n)
  BY <1>1
<1>4. \A i \in 1..m : i \in 1..(m + n) /\ i <= m
  BY <1>1
<1>5. \A i \in 1..n : i + m \in 1..(m + n) /\ ~(i + m <= m) /\ (i + m) - m = i
  BY <1>1
<1>6. ToSet(s \o t) \subseteq ToSet(s) \cup ToSet(t)
  BY <1>1, <1>2, <1>3, <1>4 DEF ToSet
<1>7. ToSet(s) \subseteq ToSet(s \o t)
  BY <1>1, <1>2, <1>4 DEF ToSet
<1>8. ToSet(t) \subseteq ToSet(s \o t)
  <2> SUFFICES ASSUME NEW i \in 1..n PROVE t[i] \in ToSet(s \o t)
    BY <1>1 DEF ToSet
  <2>1. (s \o t)[i + m] = t[i] /\ i + m \in DOMAIN (s \o t)
    BY <1>2, <1>5
  <2> QED
    BY <2>1 DEF ToSet
<1> QED
  BY <1>6, <1>7, <1>8

AtPage(q, n) == [q EXCEPT !.page = n]

\* The answer to a query read straight from the matches is its slice of them.
LEMMA SimpleAnswer ==
  ASSUME NEW table, NEW q, IsQuery(q), q.wellFormed, Simple(q), NEW n \in Nat,
         (n + 1) * Size(q) <= MaxInt,
         NEW a \in QueryTableRows(table, AtPage(q, n + 1))
  PROVE  /\ n * Size(q) \in Nat /\ (n + 1) * Size(q) = n * Size(q) + Size(q)
         /\ a.data = Slice(FilterRows(table, q), n * Size(q), n * Size(q) + Size(q))
         /\ a.status = "empty" => a.data = <<>>
<1> DEFINE w == AtPage(q, n + 1)
<1>1. SameButPage(q, w) /\ w.page = n + 1 /\ w.wellFormed
  BY OtherPage DEF IsQuery, AtPage
<1>2. w.page \in Int /\ w.size \in Int /\ w.page > 0 /\ w.size = q.size /\ Size(w) = Size(q)
  BY <1>1 DEF SameButPage, Size, IsQuery
<1>3. PageFits(w)
  BY <1>1, <1>2 DEF PageFits
<1>4. FilterRows(table, w) = FilterRows(table, q) /\ (HasAggregates(w) <=> HasAggregates(q))
  BY <1>1, SameRows
<1>5. PageOnly(w)
  BY <1>1, <1>2, <1>4 DEF SameButPage, Simple, PageOnly
<1> HIDE DEF w
<1>6. a = FastAnswer(table, w)
  BY <1>1, <1>5 DEF QueryTableRows, w
<1>7. /\ Size(q) \in Nat /\ Start(w) = n * Size(q) /\ Start(w) \in Nat
      /\ (n + 1) * Size(q) = Start(w) + Size(q)
  <2>1. n + 1 - 1 = n
    OBVIOUS
  <2> QED
    BY <1>1, <1>2, <1>3, <2>1, PageIs
<1>8. a = MakeQueryResult(Slice(FilterRows(table, q), Start(w), Start(w) + Size(q)),
                          Len(FilterRows(table, q)), w.page, Size(q))
  BY <1>2, <1>4, <1>6, <1>7 DEF FastAnswer, Slice
<1> QED
  BY <1>7, <1>8 DEF MakeQueryResult

LEMMA WalkOverPage ==
  ASSUME ReaderInv, config' = config, ReadPage
  PROVE  WalkInv'
<1> DEFINE q == walk.query
           c == Passed(walk)
           z == Size(q)
<1>1. Walking /\ rows' = rows
  BY DEF ReadPage
<1>2. WalkTyped /\ (Simple(q) /\ c <= MaxInt => WalkCosts(rows, walk)) /\ rows \in Seq(TableRows) /\ DistinctIds(rows)
  BY <1>1 DEF ReaderInv, WalkInv, QueryInv, TypeInv
<1>3. PICK a \in QueryTableRows(rows, AtPage(q, walk.page + 1)) :
        walk' = [walk EXCEPT !.page = @ + 1, !.seen = @ \o IdsOf(a.data), !.done = a.status = "empty"]
  <2>1. IsQuery(q) /\ walk.page \in Nat
    BY <1>1, <1>2, WalkQueries DEF WalkTyped, ReaderInv
  <2>2. AtPage(q, walk.page + 1).page # 0
    BY <2>1 DEF AtPage, IsQuery
  <2> DEFINE w == AtPage(q, walk.page + 1)
  <2>3. PICK a \in Select(rows, w) :
          walk' = [walk EXCEPT !.page = @ + 1, !.seen = @ \o IdsOf(a.data), !.done = a.status = "empty"]
    BY DEF ReadPage, IdsOf, AtPage
  <2> HIDE DEF w
  <2>4. Select(rows, w) = QueryTableRows(rows, w)
    BY <2>2, WholePipeline DEF w
  <2> QED
    BY <2>3, <2>4 DEF w
<1>4. /\ DOMAIN walk' = {"query", "page", "seen", "changes", "done", "kept"}
      /\ walk'.query = q /\ walk'.page = walk.page + 1 /\ walk'.seen = walk.seen \o IdsOf(a.data)
      /\ walk'.done = (a.status = "empty") /\ walk'.changes = walk.changes /\ walk'.kept = walk.kept
  BY <1>2, <1>3 DEF WalkTyped
<1>5. WalkTyped'
  BY <1>1, <1>2, <1>4 DEF WalkTyped
<1>6. IsQuery(q) /\ q.wellFormed /\ z \in Nat /\ z > 0 /\ walk.page \in Nat /\ walk.changes \in Nat
  BY <1>2, WalkQueries DEF WalkTyped, ReaderInv
<1>7. ASSUME Simple(q), (walk.page + 1) * z <= MaxInt
      PROVE  WalkCosts(rows, walk')
  <2>1. /\ c \in Nat /\ (walk.page + 1) * z = c + z
        /\ a.data = Slice(FilterRows(rows, q), c, c + z) /\ (a.status = "empty" => a.data = <<>>)
    <3> HIDE DEF q, z
    <3>1. /\ walk.page * Size(q) \in Nat /\ (walk.page + 1) * Size(q) = walk.page * Size(q) + Size(q)
          /\ a.data = Slice(FilterRows(rows, q), walk.page * Size(q), walk.page * Size(q) + Size(q))
          /\ a.status = "empty" => a.data = <<>>
      BY <1>3, <1>6, <1>7, SimpleAnswer DEF z
    <3>2. c = walk.page * Size(q)
      BY DEF Passed, q
    <3> QED
      BY <3>1, <3>2 DEF z
  <2>2. c + z <= MaxInt /\ c <= MaxInt
    BY <1>6, <1>7, <2>1, QueryAssumption
  <2>3. Passed(walk') = c + z
    BY <1>4, <2>1 DEF Passed
  <2> DEFINE ids == IdsOf(a.data)
             X == Reached(rows, q, c)
             Y == Reached(rows, q, c + z)
             T == ToSet(walk.seen)
             I == ToSet(ids)
             K == walk.kept
  <2>4. /\ walk.seen \in Seq(Nat) /\ Len(walk.seen) <= Cardinality(T \cap X) + walk.changes
        /\ Cardinality((K \cap X) \ T) <= walk.changes
    BY <1>2, <1>7, <2>2 DEF WalkCosts
  <2>5. /\ ids \in Seq(Nat) /\ Cardinality(I) = Len(ids) /\ IsFiniteSet(I)
        /\ Y = X \cup I /\ X \cap I = {}
        /\ a.data = <<>> => Len(FilterRows(rows, q)) <= c
    <3>1. rows \in Seq(TableRows) /\ DistinctIds(rows) /\ z \in Nat /\ z > 0 /\ c \in Nat
      BY <1>2, <1>6, <2>1
    <3>2. PageAdds(rows, q, c, z)
      <4> HIDE DEF q, c, z
      <4> QED
        BY <3>1, NextPageReaches
    <3> QED
      BY <2>1, <3>2 DEF PageAdds
  <2>6. IsFiniteSet(X) /\ IsFiniteSet(T)
    BY <1>2, <2>4, ReachedIsFinite, ElementsAreFinite
  <2> HIDE DEF ids
  <2>7. walk'.seen = walk.seen \o ids
    BY <1>4 DEF ids
  <2>8. /\ walk'.seen \in Seq(Nat) /\ Len(walk'.seen) = Len(walk.seen) + Len(ids)
        /\ Len(walk.seen) \in Nat /\ Len(ids) \in Nat
    BY <2>4, <2>5, <2>7
  <2>9. ToSet(walk'.seen) = T \cup I
    BY <2>4, <2>5, <2>7, ElementsOfBoth
  <2> HIDE DEF X, Y, T, I, K
  <2>10. Cardinality((T \cup I) \cap Y) = Cardinality(T \cap X) + Cardinality(I)
         /\ Cardinality(T \cap X) \in Nat
    <3>1. (T \cup I) \cap Y = (T \cap X) \cup I \cup (T \cap I)
      BY <2>5
    <3>2. (T \cup I) \cap Y = (T \cap X) \cup I /\ (T \cap X) \cap I = {}
      BY <2>5, <3>1
    <3>3. IsFiniteSet(T \cap X)
      BY <2>6, FS_Intersection
    <3>4. /\ Cardinality((T \cap X) \cup I) = Cardinality(T \cap X) + Cardinality(I) - Cardinality((T \cap X) \cap I)
          /\ Cardinality(T \cap X) \in Nat /\ Cardinality(I) \in Nat
      BY <2>5, <3>3, FS_Union, FS_CardinalityType
    <3>5. Cardinality((T \cap X) \cap I) = 0
      BY <3>2, FS_EmptySet
    <3> DEFINE m == Cardinality(T \cap X)
               k == Cardinality(I)
               l == Cardinality((T \cap X) \cap I)
               n == Cardinality((T \cap X) \cup I)
    <3>6. n = m + k - l /\ m \in Nat /\ k \in Nat /\ l = 0
      BY <3>4, <3>5
    <3> HIDE DEF m, k, l, n
    <3>7. n = m + k
      BY <3>6
    <3> QED
      BY <3>2, <3>6, <3>7 DEF m, k, n
  <2>11. Cardinality((K \cap Y) \ (T \cup I)) <= walk.changes
    <3>1. (K \cap Y) \ (T \cup I) \subseteq (K \cap X) \ T
      BY <2>5
    <3>2. (K \cap X) \ T \subseteq X
      OBVIOUS
    <3>3. IsFiniteSet((K \cap X) \ T) /\ IsFiniteSet((K \cap Y) \ (T \cup I))
      BY <2>6, <3>1, <3>2, FS_Subset
    <3>4. /\ Cardinality((K \cap Y) \ (T \cup I)) <= Cardinality((K \cap X) \ T)
          /\ Cardinality((K \cap Y) \ (T \cup I)) \in Nat /\ Cardinality((K \cap X) \ T) \in Nat
      BY <3>1, <3>3, AlmostAsMany
    <3> QED
      BY <1>6, <2>4, <3>4
  <2>12. Len(walk'.seen) <= Cardinality((T \cup I) \cap Y) + walk.changes
    BY <1>6, <2>4, <2>5, <2>8, <2>10
  <2>13. walk'.done => Len(FilterRows(rows, q)) <= c + z
    <3>1. ASSUME walk'.done
          PROVE  Len(FilterRows(rows, q)) <= c
      BY <1>4, <2>1, <2>5, <3>1
    <3>2. Len(FilterRows(rows, q)) \in Nat
      BY <1>2, MatchesAre
    <3> QED
      BY <1>6, <2>1, <3>1, <3>2
  <2> QED
    BY <1>4, <2>3, <2>8, <2>9, <2>11, <2>12, <2>13 DEF WalkCosts, Y, K
<1>8. Simple(walk'.query) /\ Passed(walk') <= MaxInt => WalkCosts(rows', walk')
  BY <1>1, <1>4, <1>7 DEF Passed
<1> QED
  BY <1>5, <1>8 DEF WalkInv

\* A walk has reached nothing before its first page.
LEMMA WalkStarts ==
  ASSUME ReaderInv, config' = config, NEW q \in config.walks, StartWalk(q)
  PROVE  WalkInv'
<1>1. /\ rows' = rows /\ rows \in Seq(TableRows)
      /\ walk' = [query |-> q, page |-> 0, seen |-> <<>>, changes |-> 0, done |-> FALSE,
                  kept |-> {IdOf(rows[i]) : i \in Matching(rows, q)}]
  BY DEF StartWalk, Matching, ReaderInv, QueryInv, TypeInv
<1>2. WalkTyped'
  BY <1>1 DEF WalkTyped
<1>3. Passed(walk') = 0
  <2>1. Size(q) \in Nat
    BY WalkQueries DEF ReaderInv
  <2> QED
    BY <1>1, <2>1 DEF Passed
<1>4. Reached(rows, q, 0) = {}
  <2>1. \A j \in Matching(rows, q) : Rank(Matching(rows, q), j) \in 1..Len(FilterRows(rows, q))
    BY <1>1, MatchesAre
  <2>2. \A j \in Matching(rows, q) : ~(Rank(Matching(rows, q), j) <= 0)
    <3>1. Len(FilterRows(rows, q)) \in Nat
      BY <1>1, MatchesAre
    <3> QED
      BY <2>1, <3>1
  <2> QED
    BY <2>2 DEF Reached, Prefix
<1>5. WalkCosts(rows, walk')
  <2>1. /\ \A S : S \cap {} = {} /\ ({} \ S) = {}
        /\ Cardinality({}) = 0
    BY FS_EmptySet
  <2>2. /\ Cardinality(ToSet(walk'.seen) \cap {}) = 0
        /\ Cardinality((walk'.kept \cap {}) \ ToSet(walk'.seen)) = 0
    BY <2>1
  <2>3. /\ walk'.query = q /\ walk'.seen = <<>> /\ walk'.changes = 0 /\ ~walk'.done
        /\ Len(walk'.seen) = 0 /\ walk'.seen \in Seq(Nat)
    BY <1>1
  <2>4. Reached(rows, walk'.query, Passed(walk')) = {}
    BY <1>3, <1>4, <2>3
  <2> DEFINE m == Cardinality(ToSet(walk'.seen) \cap {})
             n == Cardinality((walk'.kept \cap {}) \ ToSet(walk'.seen))
  <2>5. m = 0 /\ n = 0
    BY <2>2
  <2> HIDE DEF m, n
  <2>6. Len(walk'.seen) <= m + walk'.changes /\ n <= walk'.changes
    BY <2>3, <2>5
  <2> QED
    BY <2>3, <2>4, <2>6 DEF WalkCosts, m, n
<1> QED
  BY <1>1, <1>2, <1>5 DEF WalkInv

LEMMA ReaderInvInit == Init => ReaderInv
<1> SUFFICES ASSUME Init PROVE ReaderInv
  OBVIOUS
<1>1. DistinctIds(rows)
  <2>1. Len(rows) = 0
    BY DEF Init
  <2> QED
    BY <2>1 DEF DistinctIds
<1> QED
  BY <1>1, QueryInvInit DEF Init, ReaderInv, WalkInv, Walking

LEMMA ReaderInvStep == ReaderInv /\ [Next]_<<config, vars>> => ReaderInv'
<1> SUFFICES ASSUME ReaderInv, [Next]_<<config, vars>>
             PROVE  DistinctIds(rows') /\ WalkInv'
  BY QueryInvStep DEF ReaderInv
<1>1. QueryInv /\ QueryInv' /\ DistinctIds(rows) /\ rows \in Seq(TableRows) /\ rows' \in Seq(TableRows)
  BY QueryInvStep DEF ReaderInv, QueryInv, TypeInv
<1>2. config' = config
  BY DEF Next, vars
<1>3. ASSUME NEW id \in Ids, NEW cell \in Cells,
             AddRow(id, cell) \/ ChangeRow(id, cell) \/ RemoveRow(id)
      PROVE  DistinctIds(rows') /\ WalkInv'
  <2>1. CASE AddRow(id, cell)
    <3>1. Appended(rows, rows', NewRow(id, cell)) /\ Observe(0)
      BY <1>1, <2>1, ChangesAre DEF AddRow
    <3>2. 0 \in {0, 1} /\ 0 # 1
      OBVIOUS
    <3> QED
      BY <1>1, <1>2, <3>1, <3>2, IdsStayDistinct, WalkOverChange
  <2>2. CASE ChangeRow(id, cell) \/ RemoveRow(id)
    <3>1. /\ Rewritten(rows, rows', Position(id)) \/ Removed(rows, rows', Position(id))
          /\ Observe(1)
      BY <1>1, <2>2, ChangesAre DEF ChangeRow, RemoveRow
    <3>2. 1 \in {0, 1} /\ 0 # 1
      OBVIOUS
    <3> QED
      BY <1>1, <1>2, <3>1, <3>2, IdsStayDistinct, WalkOverChange
  <2> QED
    BY <1>3, <2>1, <2>2
<1>4. ASSUME NEW id \in Ids, NEW cell \in config.cells, AddRow(id, cell) \/ ChangeRow(id, cell)
      PROVE  DistinctIds(rows') /\ WalkInv'
  BY <1>1, <1>3, <1>4, UseAssumption DEF QueryInv, TypeInv
<1>5. ASSUME NEW id \in Ids, RemoveRow(id)
      PROVE  DistinctIds(rows') /\ WalkInv'
  <2>1. Null \in Cells
    BY DEF Cells
  <2> QED
    BY <1>3, <1>5, <2>1
<1>6. ASSUME rows' = rows, walk' = walk
      PROVE  DistinctIds(rows') /\ WalkInv'
  BY <1>1, <1>2, <1>6 DEF ReaderInv, WalkInv, Walking, WalkTyped
<1>7. (\E q \in config.asks : Ask(q)) \/ TakeAnswer \/ UNCHANGED vars => rows' = rows /\ walk' = walk
  BY DEF Ask, TakeAnswer, vars
<1>8. ASSUME NEW q \in config.walks, StartWalk(q)
      PROVE  DistinctIds(rows') /\ WalkInv'
  BY <1>1, <1>2, <1>8, WalkStarts DEF StartWalk
<1>9. CASE ReadPage
  BY <1>1, <1>2, <1>9, WalkOverPage DEF ReadPage
<1>10. CASE EndWalk
  BY <1>1, <1>10 DEF EndWalk, WalkInv, Walking
<1> QED
  BY <1>4, <1>5, <1>6, <1>7, <1>8, <1>9, <1>10 DEF Next, vars

\* A client that reads an unsorted query page by page to its end, while other
\* calls change the table, misses no more of the rows that matched throughout
\* than rows were rewritten or removed meanwhile, and reads no more rows twice.
THEOREM ReadersMissLittle == Spec => []WalkErrorsBounded
<1>1. ASSUME ReaderInv
      PROVE  WalkErrorsBounded
  <2> DEFINE q == walk.query
             w == PageOf(walk)
             X == Reached(rows, q, Passed(walk))
             T == ToSet(walk.seen)
             K == walk.kept
  <2> SUFFICES ASSUME Walking, walk.done, PageOnly(w), PageFits(w)
               PROVE  Cardinality(Missed) <= walk.changes /\ Repeats <= walk.changes
    BY DEF WalkErrorsBounded
  <2>1. WalkTyped /\ (Simple(q) /\ Passed(walk) <= MaxInt => WalkCosts(rows, walk)) /\ rows \in Seq(TableRows)
    BY <1>1 DEF ReaderInv, WalkInv, QueryInv, TypeInv
  <2>2. IsQuery(q) /\ walk.changes \in Nat
    BY <1>1, <2>1, WalkQueries DEF WalkTyped, ReaderInv
  <2>3. SameButPage(q, w) /\ w.page = walk.page
    BY <2>2, OtherPage DEF PageOf
  <2> HIDE DEF w
  <2>4. Simple(q)
    <3>1. HasAggregates(w) <=> HasAggregates(q)
      BY <2>3, SameRows
    <3> QED
      BY <2>3, <3>1 DEF Simple, PageOnly, SameButPage
  <2>5. Passed(walk) <= MaxInt
    BY <2>3 DEF PageFits, Passed, SameButPage, Size
  <2>6. /\ walk.seen \in Seq(Nat) /\ Len(walk.seen) <= Cardinality(T \cap X) + walk.changes
        /\ Cardinality((K \cap X) \ T) <= walk.changes
        /\ Len(FilterRows(rows, q)) <= Passed(walk)
    BY <2>1, <2>4, <2>5 DEF WalkCosts
  <2>7. K \subseteq X
    <3>1. ASSUME NEW j \in Matching(rows, q)
          PROVE  Rank(Matching(rows, q), j) <= Passed(walk)
      <4> DEFINE r == Rank(Matching(rows, q), j)
                 n == Len(FilterRows(rows, q))
                 p == Passed(walk)
      <4>1. r \in 1..n /\ n \in Nat
        BY <2>1, MatchesAre
      <4>2. walk.page \in Nat /\ Size(q) \in Nat
        BY <1>1, <2>1, WalkQueries DEF WalkTyped, ReaderInv
      <4>3. \A x, y \in Nat : x * y \in Nat
        OBVIOUS
      <4>4. p \in Nat /\ n <= p
        BY <2>6, <4>2, <4>3 DEF Passed
      <4> HIDE DEF r, n, p
      <4>5. r <= p
        BY <4>1, <4>4
      <4> QED
        BY <4>5 DEF r, p
    <3>2. \A j \in Matching(rows, q) : IdOf(rows[j]) \in X
      BY <3>1 DEF Reached, Prefix
    <3> QED
      BY <2>1, <3>2 DEF WalkTyped
  <2>8. Cardinality(Missed) <= walk.changes
    <3>1. Missed = (K \cap X) \ T
      BY <2>7 DEF Missed
    <3> QED
      BY <2>6, <3>1
  <2>9. Repeats <= walk.changes
    <3>1. IsFiniteSet(T) /\ T \cap X \subseteq T
      BY <2>6, ElementsAreFinite
    <3> HIDE DEF T, X
    <3>2. IsFiniteSet(T \cap X)
      BY <3>1, FS_Subset
    <3>3. Cardinality(T \cap X) <= Cardinality(T) /\ Cardinality(T) \in Nat /\ Cardinality(T \cap X) \in Nat
      BY <3>1, <3>2, AlmostAsMany
    <3>4. Len(walk.seen) \in Nat
      BY <2>6
    <3>5. Len(walk.seen) - Cardinality(T) <= walk.changes
      BY <2>2, <2>6, <3>3, <3>4
    <3> QED
      BY <3>5 DEF Repeats, T
  <2> QED
    BY <2>8, <2>9
<1> QED
  BY <1>1, ReaderInvInit, ReaderInvStep, PTL DEF Spec
=============================================================================
