---------------------------- MODULE SearchProofs ----------------------------
(***************************************************************************)
(* Theorems about Search, for any credentials, payload fields, queries and *)
(* bounds: the types, that no index holds a credential that is deleted,    *)
(* that a query is answered by the credentials that meet it, and that the  *)
(* pages of a sorted query are that answer in the order of the index.      *)
(*                                                                         *)
(* That an index holds saved credentials only is not inductive: a deletion *)
(* clears the indexes that are on record for the schema, as far as the     *)
(* credential has their fields, and these have to be all it is in. Nor is  *)
(* that a query is answered rightly: for that, in every state a credential *)
(* which waits for no indexing has to be in all the indexes of its schema. *)
(*                                                                         *)
(* The lemmas on sequences are by induction over their length. The library *)
(* has its induction theorems for operators only; here induction is a fact *)
(* about sets of numbers, from that finite sets are well founded.          *)
(***************************************************************************)
EXTENDS Search, SequenceTheorems, FiniteSetTheorems, WellFoundedInduction, TLAPS

-----------------------------------------------------------------------------
(* Induction *)

\* A set of numbers has a least one: of the sets 1..k, for its k, one is minimal.
LEMMA Least ==
  ASSUME NEW T \in SUBSET Nat, T # {}
  PROVE  \E m \in T : \A n \in T : m <= n
<1> DEFINE U == {1..k : k \in T}
           R == StrictSubsetOrdering(Nat)
<1>1. U \subseteq FiniteSubsetsOf(Nat)
  <2>1. ASSUME NEW k \in Nat PROVE 1..k \in SUBSET Nat /\ IsFiniteSet(1..k)
    BY FS_Interval
  <2>2. QED
    BY <2>1 DEF FiniteSubsetsOf
<1>2. U # {}
  OBVIOUS
<1>3. IsWellFoundedOn(R, FiniteSubsetsOf(Nat))
  BY FS_StrictSubsetOrderingWellFounded
<1> HIDE DEF R
<1>4. \E x \in U : \A y \in U : ~ (<<y, x>> \in R)
  <2> HIDE DEF U
  <2>1. QED
    BY <1>1, <1>2, <1>3, WFMin
<1>5. PICK m \in T : \A y \in U : ~ (<<y, 1..m>> \in R)
  BY <1>4
<1>6. ASSUME NEW n \in T, n < m PROVE FALSE
  <2>1. 1..n \in U /\ 1..n \subseteq 1..m /\ 1..n # 1..m
    <3>1. m \in 1..m /\ m \notin 1..n
      BY <1>6
    <3>2. QED
      BY <1>6, <3>1
  <2>2. 1..n \in SUBSET Nat /\ 1..m \in SUBSET Nat
    OBVIOUS
  <2>3. <<1..n, 1..m>> \in R
    BY <2>1, <2>2 DEF R, StrictSubsetOrdering
  <2>4. QED
    BY <1>5, <2>1, <2>3
<1>7. QED
  BY <1>6

\* Induction over the numbers, for a set.
LEMMA Induction ==
  ASSUME NEW S, 0 \in S, \A n \in Nat : n \in S => n + 1 \in S
  PROVE  Nat \subseteq S
<1> SUFFICES ASSUME Nat \ S # {} PROVE FALSE
  OBVIOUS
<1>1. PICK m \in Nat \ S : \A n \in Nat \ S : m <= n
  BY Least
<1>2. m # 0 /\ m - 1 \in Nat /\ m - 1 \in S
  BY <1>1
<1>3. QED
  BY <1>2

-----------------------------------------------------------------------------
(* Sets in order *)

\* R is a strict and total order of S.
StrictOrder(R, S) ==
  /\ \A x \in S : <<x, x>> \notin R
  /\ \A x, y, z \in S : <<x, y>> \in R /\ <<y, z>> \in R => <<x, z>> \in R
  /\ \A x, y \in S : x = y \/ <<x, y>> \in R \/ <<y, x>> \in R

\* What is before an element.
Below(x, S, R) == {y \in S : <<y, x>> \in R}

\* Each element has another number of elements before it, from none to all but one.
LEMMA RankFacts ==
  ASSUME NEW S, IsFiniteSet(S), NEW R, StrictOrder(R, S)
  PROVE  /\ Cardinality(S) \in Nat
         /\ \A x \in S : Cardinality(Below(x, S, R)) \in 0..Cardinality(S) - 1
         /\ \A x, y \in S : <<x, y>> \in R
              => Cardinality(Below(x, S, R)) < Cardinality(Below(y, S, R))
         /\ \A k \in 1..Cardinality(S) : \E x \in S : Cardinality(Below(x, S, R)) = k - 1
<1> DEFINE n == Cardinality(S)
           rank == [x \in S |-> Cardinality(Below(x, S, R))]
           places == 0..n - 1
<1>1. n \in Nat
  BY FS_CardinalityType
<1>2. ASSUME NEW x \in S PROVE IsFiniteSet(Below(x, S, R)) /\ rank[x] \in Nat /\ rank[x] <= n - 1
  <2>1. IsFiniteSet(S \ {x}) /\ Cardinality(S \ {x}) = n - 1
    BY FS_RemoveElement
  <2>2. Below(x, S, R) \in SUBSET (S \ {x})
    BY DEF Below, StrictOrder
  <2>3. /\ IsFiniteSet(Below(x, S, R))
        /\ Cardinality(Below(x, S, R)) <= n - 1
    BY <2>1, <2>2, FS_Subset
  <2>4. QED
    BY <2>3, FS_CardinalityType
<1>3. ASSUME NEW x \in S, NEW y \in S, <<x, y>> \in R PROVE rank[x] < rank[y]
  <2>1. Below(x, S, R) \cup {x} \in SUBSET Below(y, S, R)
    BY <1>3 DEF Below, StrictOrder
  <2>2. Cardinality(Below(x, S, R) \cup {x}) = rank[x] + 1
    <3>1. x \notin Below(x, S, R)
      BY DEF Below, StrictOrder
    <3>2. QED
      BY <1>2, <3>1, FS_AddElement
  <2>3. Cardinality(Below(x, S, R) \cup {x}) <= rank[y]
    BY <1>2, <2>1, FS_Subset
  <2>4. QED
    BY <1>2, <2>2, <2>3
<1>4. rank \in Injection(S, places)
  <2>1. rank \in [S -> places]
    <3>1. \A x \in S : rank[x] \in places
      BY <1>1, <1>2
    <3>2. QED
      BY <3>1
  <2>2. ASSUME NEW x \in S, NEW y \in S, x # y PROVE rank[x] # rank[y]
    <3>1. <<x, y>> \in R \/ <<y, x>> \in R
      BY <2>2 DEF StrictOrder
    <3>2. rank[x] \in Nat /\ rank[y] \in Nat
      BY <1>2
    <3> HIDE DEF rank
    <3>3. QED
      BY <1>3, <3>1, <3>2
  <2>3. QED
    BY <2>1, <2>2 DEF Injection, IsInjective
<1>5. IsFiniteSet(places) /\ Cardinality(places) = n
  BY <1>1, FS_Interval
<1>6. rank \in Surjection(S, places)
  <2> HIDE DEF rank, places
  <2>1. QED
    BY <1>4, <1>5, FS_Injection
<1>7. ASSUME NEW k \in 1..n PROVE \E x \in S : rank[x] = k - 1
  <2>1. k - 1 \in places
    BY <1>1
  <2> HIDE DEF rank, places
  <2>2. QED
    BY <1>6, <2>1 DEF Surjection
<1>8. QED
  BY <1>1, <1>2, <1>3, <1>7

\* Elements with as many before them are the same.
LEMMA SameRank ==
  ASSUME NEW S, IsFiniteSet(S), NEW R, StrictOrder(R, S), NEW x \in S, NEW y \in S,
         Cardinality(Below(x, S, R)) = Cardinality(Below(y, S, R))
  PROVE  x = y
<1> DEFINE i == Cardinality(Below(x, S, R))
           j == Cardinality(Below(y, S, R))
<1>1. (<<x, y>> \in R => i < j) /\ (<<y, x>> \in R => j < i)
  BY RankFacts
<1>2. i \in Nat /\ i = j
  BY RankFacts
<1>3. x = y \/ <<x, y>> \in R \/ <<y, x>> \in R
  BY DEF StrictOrder
<1> HIDE DEF i, j
<1>4. QED
  BY <1>1, <1>2, <1>3

\* A set in an order: its elements, each once, and each before the next.
LEMMA InOrderFacts ==
  ASSUME NEW S, IsFiniteSet(S), NEW R, StrictOrder(R, S)
  PROVE  /\ Cardinality(S) \in Nat
         /\ InOrder(S, R) \in [1..Cardinality(S) -> S]
         /\ \A x \in S : \E k \in 1..Cardinality(S) : InOrder(S, R)[k] = x
         /\ \A k \in 1..Cardinality(S) : Cardinality(Below(InOrder(S, R)[k], S, R)) = k - 1
         /\ \A j, k \in 1..Cardinality(S) : j < k => <<InOrder(S, R)[j], InOrder(S, R)[k]>> \in R
         /\ \A j, k \in 1..Cardinality(S) : InOrder(S, R)[j] = InOrder(S, R)[k] => j = k
<1> DEFINE n == Cardinality(S)
           s == InOrder(S, R)
<1>1. /\ n \in Nat
      /\ \A x \in S : Cardinality(Below(x, S, R)) \in 0..n - 1
      /\ \A x, y \in S : <<x, y>> \in R => Cardinality(Below(x, S, R)) < Cardinality(Below(y, S, R))
      /\ \A k \in 1..n : \E x \in S : Cardinality(Below(x, S, R)) = k - 1
  BY RankFacts
<1>2. s = [k \in 1..n |-> CHOOSE x \in S : Cardinality(Below(x, S, R)) = k - 1]
  BY DEF InOrder, Below
<1>3. \A k \in 1..n : s[k] \in S /\ Cardinality(Below(s[k], S, R)) = k - 1
  BY <1>1, <1>2
<1>4. s \in [1..n -> S]
  BY <1>2, <1>3
<1> HIDE DEF s
<1>6. ASSUME NEW x \in S PROVE \E k \in 1..n : s[k] = x
  <2>1. PICK k \in 1..n : k = Cardinality(Below(x, S, R)) + 1
    BY <1>1
  <2>2. s[k] \in S /\ Cardinality(Below(s[k], S, R)) = Cardinality(Below(x, S, R))
    BY <1>1, <1>3, <2>1
  <2>3. QED
    BY <2>2, SameRank
<1>7. \A j, k \in 1..n : s[j] = s[k] => j = k
  <2>1. ASSUME NEW j \in 1..n, NEW k \in 1..n, s[j] = s[k] PROVE j = k
    <3>1. j - 1 = k - 1
      BY <1>3, <2>1
    <3>2. QED
      BY <1>1, <3>1
  <2>2. QED
    BY <2>1
<1>8. ASSUME NEW j \in 1..n, NEW k \in 1..n, j < k PROVE <<s[j], s[k]>> \in R
  <2>1. s[j] # s[k]
    BY <1>7, <1>8
  <2>2. CASE <<s[k], s[j]>> \in R
    <3>1. k - 1 < j - 1
      BY <1>1, <1>3, <2>2
    <3>2. QED
      BY <1>1, <1>8, <3>1
  <2>3. QED
    BY <1>3, <2>1, <2>2 DEF StrictOrder
<1>9. QED
  BY <1>1, <1>3, <1>4, <1>6, <1>7, <1>8 DEF s
\* A set has one sequence in an order.
LEMMA InOrderUnique ==
  ASSUME NEW S, IsFiniteSet(S), NEW R, StrictOrder(R, S),
         NEW n \in Nat, NEW s \in [1..n -> S], \A x \in S : \E k \in 1..n : s[k] = x,
         \A j, k \in 1..n : j < k => <<s[j], s[k]>> \in R
  PROVE  n = Cardinality(S) /\ s = InOrder(S, R)
<1>1. \A j, k \in 1..n : s[j] = s[k] => j = k
  <2>1. ASSUME NEW j \in 1..n, NEW k \in 1..n, j # k PROVE s[j] # s[k]
    <3>1. j < k \/ k < j
      BY <2>1
    <3>2. <<s[j], s[k]>> \in R \/ <<s[k], s[j]>> \in R
      BY <3>1
    <3>3. s[j] \in S /\ s[k] \in S
      OBVIOUS
    <3>4. QED
      BY <3>2, <3>3 DEF StrictOrder
  <2>2. QED
    BY <2>1
<1>2. ASSUME NEW m \in 0..n, NEW T, T = {s[j] : j \in 1..m}
      PROVE  Cardinality(T) = m
  <2> DEFINE t == [j \in 1..m |-> s[j]]
  <2>1. t \in [1..m -> T] /\ \A y \in T : \E j \in 1..m : t[j] = y
    BY <1>2
  <2>2. \A j, k \in 1..m : t[j] = t[k] => j = k
    BY <1>1
  <2>3. IsFiniteSet(1..m) /\ Cardinality(1..m) = m
    BY FS_Interval
  <2> HIDE DEF t
  <2>4. t \in Surjection(1..m, T) /\ t \in Injection(1..m, T)
    BY <2>1, <2>2 DEF Surjection, Injection, IsInjective
  <2>5. QED
    BY <2>3, <2>4, FS_Surjection
<1>3. n = Cardinality(S)
  <2>1. S = {s[j] : j \in 1..n}
    OBVIOUS
  <2>2. QED
    BY <1>2, <2>1
<1>4. ASSUME NEW k \in 1..n PROVE s[k] = InOrder(S, R)[k]
  <2>1. ASSUME NEW j \in 1..n, <<s[j], s[k]>> \in R PROVE j <= k - 1
    <3>1. s[j] \in S /\ s[k] \in S
      OBVIOUS
    <3>2. j # k /\ ~ (k < j)
      BY <2>1, <3>1 DEF StrictOrder
    <3>3. QED
      BY <3>2
  <2>2. Below(s[k], S, R) = {s[j] : j \in 1..k - 1}
    <3>1. ASSUME NEW y \in Below(s[k], S, R) PROVE \E j \in 1..k - 1 : y = s[j]
      <4>1. PICK j \in 1..n : y = s[j]
        BY DEF Below
      <4>2. j <= k - 1
        BY <2>1, <4>1 DEF Below
      <4>3. QED
        BY <4>1, <4>2
    <3>2. ASSUME NEW j \in 1..k - 1 PROVE s[j] \in Below(s[k], S, R)
      <4>1. j \in 1..n /\ j < k
        OBVIOUS
      <4>2. QED
        BY <4>1 DEF Below
    <3>3. QED
      BY <3>1, <3>2
  <2>3. k - 1 \in 0..n
    OBVIOUS
  <2>4. Cardinality(Below(s[k], S, R)) = k - 1
    BY <1>2, <2>2, <2>3
  <2>5. InOrder(S, R)[k] \in S /\ Cardinality(Below(InOrder(S, R)[k], S, R)) = k - 1
    BY <1>3, InOrderFacts
  <2>6. QED
    BY <2>4, <2>5, SameRank
<1>5. InOrder(S, R) \in [1..n -> S]
  BY <1>3, InOrderFacts
<1>6. QED
  BY <1>3, <1>4, <1>5

\* A set of numbers, from the least to the greatest.
LEMMA AscendingFacts ==
  ASSUME NEW S \in SUBSET Nat, IsFiniteSet(S)
  PROVE  /\ Cardinality(S) \in Nat
         /\ Ascending(S) \in [1..Cardinality(S) -> S]
         /\ \A x \in S : \E k \in 1..Cardinality(S) : Ascending(S)[k] = x
         /\ \A j, k \in 1..Cardinality(S) : j < k => Ascending(S)[j] < Ascending(S)[k]
         /\ \A j, k \in 1..Cardinality(S) : Ascending(S)[j] = Ascending(S)[k] => j = k
<1> DEFINE R == {p \in S \X S : p[1] < p[2]}
<1>1. \A x, y \in S : <<x, y>> \in R <=> x < y
  OBVIOUS
<1>2. \A x, y : <<x, y>> \in R => x < y
  OBVIOUS
<1>3. Ascending(S) = InOrder(S, R)
  BY DEF Ascending
<1> HIDE DEF R
<1>4. StrictOrder(R, S)
  BY <1>1 DEF StrictOrder
<1> DEFINE s == InOrder(S, R)
           n == Cardinality(S)
<1>5. /\ n \in Nat /\ s \in [1..n -> S]
      /\ \A x \in S : \E k \in 1..n : s[k] = x
      /\ \A j, k \in 1..n : j < k => <<s[j], s[k]>> \in R
      /\ \A j, k \in 1..n : s[j] = s[k] => j = k
  BY <1>4, InOrderFacts
<1> HIDE DEF s, n
<1>6. \A j, k \in 1..n : j < k => s[j] < s[k]
  BY <1>2, <1>5
<1>7. Ascending(S) = s
  BY <1>3 DEF s
<1>8. QED
  BY <1>5, <1>6, <1>7 DEF n

\* The m places of a sequence of length n that Among takes its elements from.
Picks(p, m, n, s, S) ==
  /\ p \in [1..m -> 1..n]
  /\ Among(s, S) = [i \in 1..m |-> s[p[i]]]
  /\ \A i, j \in 1..m : i < j => p[i] < p[j]
  /\ \A i, j \in 1..m : p[i] = p[j] => i = j
  /\ \A i \in 1..m : s[p[i]] \in S
  /\ \A k \in 1..n : s[k] \in S => \E i \in 1..m : p[i] = k

\* Among takes the elements that are in the set, in their order.
LEMMA AmongFacts ==
  ASSUME NEW n \in Nat, NEW s, DOMAIN s = 1..n, NEW S
  PROVE  \E m \in Nat : \E p : Picks(p, m, n, s, S)
<1> DEFINE K == {k \in DOMAIN s : s[k] \in S}
           m == Cardinality(K)
           p == Ascending(K)
<1>1. K \in SUBSET (1..n) /\ K \in SUBSET Nat
  OBVIOUS
<1>2. IsFiniteSet(K)
  BY <1>1, FS_Interval, FS_Subset
<1>3. /\ m \in Nat
      /\ p \in [1..m -> K]
      /\ \A x \in K : \E k \in 1..m : p[k] = x
      /\ \A i, j \in 1..m : i < j => p[i] < p[j]
      /\ \A i, j \in 1..m : p[i] = p[j] => i = j
  <2> HIDE DEF K
  <2>1. QED
    BY <1>1, <1>2, AscendingFacts
<1>4. Among(s, S) = [i \in DOMAIN p |-> s[p[i]]]
  BY DEF Among
<1>5. DOMAIN p = 1..m
  BY <1>3
<1>6. Among(s, S) = [i \in 1..m |-> s[p[i]]]
  <2> HIDE DEF p, m
  <2>1. QED
    BY <1>4, <1>5
<1>7. \A i \in 1..m : p[i] \in K
  BY <1>3
<1>8. p \in [1..m -> 1..n]
  <2> HIDE DEF p, m, K
  <2>1. QED
    BY <1>1, <1>3
<1>9. \A i \in 1..m : s[p[i]] \in S
  BY <1>7
<1>10. \A k \in 1..n : s[k] \in S => k \in K
  OBVIOUS
<1> HIDE DEF p, m, K
<1>11. Picks(p, m, n, s, S)
  BY <1>3, <1>6, <1>8, <1>9, <1>10 DEF Picks
<1>12. QED
  BY <1>3, <1>11

-----------------------------------------------------------------------------
(* Sequences *)

\* The k-th is the first k of some sequences, one after the other.
Joins(f, ss, n) == \A k \in 1..n : f[k] = IF k = 1 THEN ss[k] ELSE f[k - 1] \o ss[k]

\* There is a sequence of the first k of some sequences, one after the other, for each k ...
LEMMA FlattenExists ==
  ASSUME NEW T, NEW n \in Nat \ {0}, NEW ss \in [1..n -> Seq(T)]
  PROVE  \E f \in [1..n -> Seq(T)] : Joins(f, ss, n)
<1> DEFINE S == {m \in Nat : m + 1 \in 1..n => \E f \in [1..m + 1 -> Seq(T)] : Joins(f, ss, m + 1)}
<1>1. 0 \in S
  <2> DEFINE f == [k \in 1..1 |-> ss[k]]
  <2>1. f \in [1..0 + 1 -> Seq(T)] /\ Joins(f, ss, 0 + 1)
    BY DEF Joins
  <2> HIDE DEF f
  <2>2. QED
    BY <2>1
<1>2. ASSUME NEW m \in Nat, m \in S PROVE m + 1 \in S
  <2> SUFFICES ASSUME m + 2 \in 1..n PROVE \E g \in [1..m + 2 -> Seq(T)] : Joins(g, ss, m + 2)
    <3>1. (m + 1) + 1 = m + 2 /\ m + 1 \in Nat
      OBVIOUS
    <3>2. QED
      BY <3>1
  <2>1. PICK f \in [1..m + 1 -> Seq(T)] : Joins(f, ss, m + 1)
    <3>1. QED
      BY <1>2
  <2> DEFINE g == [k \in 1..m + 2 |-> IF k = m + 2 THEN f[m + 1] \o ss[m + 2] ELSE f[k]]
  <2>2. f[m + 1] \in Seq(T) /\ ss[m + 2] \in Seq(T)
    OBVIOUS
  <2>3. f[m + 1] \o ss[m + 2] \in Seq(T)
    BY <2>2, ConcatProperties
  <2>4. g \in [1..m + 2 -> Seq(T)]
    BY <2>3
  <2>5. ASSUME NEW k \in 1..m + 2
        PROVE  g[k] = IF k = 1 THEN ss[k] ELSE g[k - 1] \o ss[k]
    <3>1. CASE k = m + 2
      <4>1. k # 1 /\ k - 1 = m + 1 /\ m + 1 \in 1..m + 2 /\ m + 1 # m + 2
        BY <3>1
      <4>2. g[k] = f[m + 1] \o ss[k] /\ g[k - 1] = f[m + 1]
        BY <3>1, <4>1
      <4> HIDE DEF g
      <4>3. QED
        BY <4>1, <4>2
    <3>2. CASE k # m + 2
      <4>1. k \in 1..m + 1 /\ g[k] = f[k] /\ (k # 1 => k - 1 \in 1..m + 1 /\ g[k - 1] = f[k - 1])
        BY <3>2
      <4>2. f[k] = IF k = 1 THEN ss[k] ELSE f[k - 1] \o ss[k]
        BY <2>1, <4>1 DEF Joins
      <4> HIDE DEF g
      <4>3. QED
        BY <4>1, <4>2
    <3>3. QED
      BY <3>1, <3>2
  <2>6. Joins(g, ss, m + 2)
    BY <2>5 DEF Joins
  <2> HIDE DEF g
  <2>7. QED
    BY <2>4, <2>6
<1>3. Nat \subseteq S
  <2> HIDE DEF S
  <2>1. QED
    BY <1>1, <1>2, Induction
<1>4. n - 1 \in S /\ n - 1 + 1 = n
  <2> HIDE DEF S
  <2>1. n - 1 \in Nat /\ n - 1 + 1 = n
    OBVIOUS
  <2>2. QED
    BY <1>3, <2>1
<1>5. \E f \in [1..n -> Seq(T)] : Joins(f, ss, n)
  <2>1. QED
    BY <1>4
<1>6. QED
  BY <1>5

\* ... each is the last with one more ...
LEMMA JoinsFacts ==
  ASSUME NEW f, NEW ss, NEW n \in Nat \ {0}, Joins(f, ss, n)
  PROVE  f[1] = ss[1] /\ \A k \in Nat : k + 2 \in 1..n => f[k + 2] = f[k + 1] \o ss[k + 2]
<1>1. f[1] = ss[1]
  BY DEF Joins
<1>2. ASSUME NEW k \in Nat, k + 2 \in 1..n PROVE f[k + 2] = f[k + 1] \o ss[k + 2]
  <2>1. f[k + 2] = IF k + 2 = 1 THEN ss[k + 2] ELSE f[k + 2 - 1] \o ss[k + 2]
    BY <1>2 DEF Joins
  <2>2. k + 2 # 1 /\ k + 2 - 1 = k + 1
    OBVIOUS
  <2>3. QED
    BY <2>1, <2>2
<1>3. QED
  BY <1>1, <1>2

\* ... and FlattenSeq gives the last of them.
LEMMA FlattenFacts ==
  ASSUME NEW T, NEW n \in Nat \ {0}, NEW ss \in [1..n -> Seq(T)]
  PROVE  \E f \in [1..n -> Seq(T)] : Joins(f, ss, n) /\ FlattenSeq(ss) = f[n]
<1> DEFINE Joined(f) == f = [k \in 1..n |-> IF k = 1 THEN ss[k] ELSE f[k - 1] \o ss[k]]
<1>1. PICK f \in [1..n -> Seq(T)] : Joins(f, ss, n)
  BY FlattenExists
<1>2. f = [k \in 1..n |-> IF k = 1 THEN ss[k] ELSE f[k - 1] \o ss[k]]
  BY <1>1 DEF Joins
<1>3. ASSUME NEW g, Joined(g) PROVE g[n] = f[n]
  <2>1. Joins(g, ss, n)
    BY <1>3 DEF Joins
  <2> DEFINE S == {m \in Nat : m + 1 \in 1..n => g[m + 1] = f[m + 1]}
  <2>2. 0 \in S
    <3>1. f[1] = ss[1]
      BY <1>1, JoinsFacts
    <3>2. g[1] = ss[1]
      BY <2>1, JoinsFacts
    <3>3. 0 + 1 = 1
      OBVIOUS
    <3>4. QED
      BY <3>1, <3>2, <3>3
  <2>3. ASSUME NEW m \in Nat, m \in S PROVE m + 1 \in S
    <3> SUFFICES ASSUME m + 2 \in 1..n PROVE g[m + 2] = f[m + 2]
      BY <2>3
    <3>1. g[m + 1] = f[m + 1]
      BY <2>3
    <3>2. g[m + 2] = g[m + 1] \o ss[m + 2]
      BY <2>1, JoinsFacts
    <3>3. f[m + 2] = f[m + 1] \o ss[m + 2]
      BY <1>1, JoinsFacts
    <3>4. QED
      BY <3>1, <3>2, <3>3
  <2>4. Nat \subseteq S
    <3> HIDE DEF S
    <3>1. QED
      BY <2>2, <2>3, Induction
  <2>5. n - 1 \in S /\ n - 1 + 1 = n
    <3> HIDE DEF S
    <3>1. n - 1 \in Nat /\ n - 1 + 1 = n
      OBVIOUS
    <3>2. QED
      BY <2>4, <3>1
  <2>6. QED
    BY <2>5
<1>4. Len(ss) = n
  OBVIOUS
<1>5. FlattenSeq(ss) = (CHOOSE g : Joined(g))[n]
  BY <1>4 DEF FlattenSeq
<1>6. Joined(CHOOSE g : Joined(g))
  BY <1>2
<1>7. FlattenSeq(ss) = f[n]
  <2> HIDE DEF Joined
  <2>1. QED
    BY <1>3, <1>5, <1>6
<1>8. QED
  BY <1>1, <1>7

\* What is in two sequences, one after the other.
LEMMA ConcatFacts ==
  ASSUME NEW T, NEW a \in Seq(T), NEW b \in Seq(T)
  PROVE  /\ a \o b \in Seq(T) /\ Len(a \o b) = Len(a) + Len(b)
         /\ Range(a \o b) = Range(a) \cup Range(b)
         /\ IsInjective(a) /\ IsInjective(b) /\ Range(a) \cap Range(b) = {} => IsInjective(a \o b)
<1> DEFINE i == Len(a)
           j == Len(b)
           s == a \o b
<1>1. /\ i \in Nat /\ j \in Nat /\ DOMAIN a = 1..i /\ DOMAIN b = 1..j
      /\ s \in Seq(T) /\ Len(s) = i + j /\ DOMAIN s = 1..i + j
      /\ \A k \in 1..i + j : s[k] = IF k <= i THEN a[k] ELSE b[k - i]
  BY ConcatProperties, LenProperties
<1> HIDE DEF i, j, s
<1>2. \A k \in 1..i : k \in 1..i + j /\ s[k] = a[k]
  BY <1>1
<1>3. \A k \in 1..j : k + i \in 1..i + j /\ s[k + i] = b[k]
  BY <1>1
<1>4. \A k \in 1..i + j : \/ k \in 1..i
                          \/ k - i \in 1..j /\ s[k] = b[k - i]
  BY <1>1
<1>5. Range(s) = Range(a) \cup Range(b)
  <2>1. \A x \in Range(s) : x \in Range(a) \cup Range(b)
    BY <1>1, <1>2, <1>4 DEF Range
  <2>2. \A x \in Range(a) : x \in Range(s)
    BY <1>1, <1>2 DEF Range
  <2>3. \A x \in Range(b) : x \in Range(s)
    <3>1. \A x \in Range(b) : \E k \in 1..j : x = b[k]
      BY <1>1 DEF Range
    <3>2. \A k \in 1..i + j : s[k] \in Range(s)
      BY <1>1 DEF Range
    <3>3. QED
      BY <1>3, <3>1, <3>2
  <2>4. QED
    BY <2>1, <2>2, <2>3
<1>6. ASSUME IsInjective(a), IsInjective(b), Range(a) \cap Range(b) = {} PROVE IsInjective(s)
  <2> SUFFICES ASSUME NEW k \in 1..i + j, NEW m \in 1..i + j, s[k] = s[m] PROVE k = m
    BY <1>1 DEF IsInjective
  <2>1. \A x \in 1..i, y \in 1..j : a[x] # b[y]
    <3>1. \A x \in 1..i : a[x] \in Range(a)
      BY <1>1 DEF Range
    <3>2. \A y \in 1..j : b[y] \in Range(b)
      BY <1>1 DEF Range
    <3>3. QED
      BY <1>6, <3>1, <3>2
  <2>2. \A x, y \in 1..i : a[x] = a[y] => x = y
    BY <1>1, <1>6 DEF IsInjective
  <2>3. \A x, y \in 1..j : b[x] = b[y] => x = y
    BY <1>1, <1>6 DEF IsInjective
  <2>4. CASE k \in 1..i /\ m \in 1..i
    BY <1>2, <2>2, <2>4
  <2>5. CASE k \notin 1..i /\ m \notin 1..i
    <3>1. k - i \in 1..j /\ m - i \in 1..j /\ b[k - i] = b[m - i]
      BY <1>4, <2>5
    <3>2. k - i = m - i
      BY <2>3, <3>1
    <3>3. QED
      BY <1>1, <3>2
  <2>6. CASE k \in 1..i /\ m \notin 1..i
    BY <1>2, <1>4, <2>1, <2>6
  <2>7. CASE k \notin 1..i /\ m \in 1..i
    BY <1>2, <1>4, <2>1, <2>7
  <2>8. QED
    BY <2>4, <2>5, <2>6, <2>7
<1>7. QED
  BY <1>1, <1>5, <1>6 DEF i, j, s

\* Two parts can be told from the whole when the length of the first is known.
LEMMA ConcatCancel ==
  ASSUME NEW T, NEW a \in Seq(T), NEW b \in Seq(T), NEW c \in Seq(T), NEW d \in Seq(T),
         Len(a) = Len(c), a \o b = c \o d
  PROVE  a = c /\ b = d
<1>1. /\ Len(a) \in Nat /\ Len(b) \in Nat /\ Len(d) \in Nat
      /\ Len(a \o b) = Len(a) + Len(b) /\ Len(c \o d) = Len(c) + Len(d)
      /\ \A k \in 1..Len(a) + Len(b) : (a \o b)[k] = IF k <= Len(a) THEN a[k] ELSE b[k - Len(a)]
      /\ \A k \in 1..Len(c) + Len(d) : (c \o d)[k] = IF k <= Len(c) THEN c[k] ELSE d[k - Len(c)]
  BY ConcatProperties, LenProperties
<1>2. Len(b) = Len(d)
  BY <1>1
<1>3. ASSUME NEW k \in 1..Len(a) PROVE a[k] = c[k]
  <2>1. k \in 1..Len(a) + Len(b) /\ k <= Len(a)
    BY <1>1
  <2>2. (a \o b)[k] = a[k] /\ (c \o d)[k] = c[k]
    BY <1>1, <1>2, <2>1
  <2>3. QED
    BY <2>2
<1>4. ASSUME NEW k \in 1..Len(b) PROVE b[k] = d[k]
  <2>1. k + Len(a) \in 1..Len(a) + Len(b) /\ ~ (k + Len(a) <= Len(a)) /\ k + Len(a) - Len(a) = k
    BY <1>1
  <2>2. (a \o b)[k + Len(a)] = b[k] /\ (c \o d)[k + Len(a)] = d[k]
    BY <1>1, <1>2, <2>1
  <2>3. QED
    BY <2>2
<1>5. QED
  BY <1>2, <1>3, <1>4, SeqEqual

\* What is in the flattened sequence, and that it repeats nothing that its parts do not.
LEMMA FlattenContents ==
  ASSUME NEW T, NEW n \in Nat, NEW ss \in [1..n -> Seq(T)]
  PROVE  /\ FlattenSeq(ss) \in Seq(T)
         /\ \A x : x \in Range(FlattenSeq(ss)) <=> \E k \in 1..n : x \in Range(ss[k])
         /\ /\ \A k \in 1..n : IsInjective(ss[k])
            /\ \A j, k \in 1..n : j # k => Range(ss[j]) \cap Range(ss[k]) = {}
            => IsInjective(FlattenSeq(ss))
<1>1. CASE n = 0
  <2>1. ss = <<>> /\ Len(ss) = 0 /\ 1..n = {}
    BY <1>1
  <2>2. FlattenSeq(ss) = <<>>
    BY <2>1 DEF FlattenSeq
  <2>3. <<>> \in Seq(T) /\ DOMAIN (<<>>) = {}
    BY EmptySeq
  <2>4. Range(<<>>) = {} /\ IsInjective(<<>>)
    BY <2>3 DEF Range, IsInjective
  <2>5. QED
    BY <2>1, <2>2, <2>3, <2>4
<1>2. CASE n # 0
  <2>1. n \in Nat \ {0}
    BY <1>2
  <2>2. PICK f \in [1..n -> Seq(T)] : Joins(f, ss, n) /\ FlattenSeq(ss) = f[n]
    BY <2>1, FlattenFacts
  <2> DEFINE Holds0(m) == /\ \A x : x \in Range(f[m]) <=> \E k \in 1..m : x \in Range(ss[k])
                          /\ /\ \A k \in 1..n : IsInjective(ss[k])
                             /\ \A j, k \in 1..n : j # k => Range(ss[j]) \cap Range(ss[k]) = {}
                             => IsInjective(f[m])
             S == {m \in Nat : m + 1 \in 1..n => Holds0(m + 1)}
  <2>3. 0 \in S
    <3>1. 1 \in 1..n /\ 1..1 = {1} /\ 0 + 1 = 1
      BY <2>1
    <3>2. Holds0(1)
      <4>1. f[1] = ss[1]
        BY <2>1, <2>2, JoinsFacts
      <4>2. QED
        BY <3>1, <4>1
    <3> HIDE DEF Holds0
    <3>3. QED
      BY <3>1, <3>2
  <2>4. ASSUME NEW m \in Nat, m \in S PROVE m + 1 \in S
    <3> SUFFICES ASSUME m + 2 \in 1..n PROVE Holds0(m + 2)
      <4>1. m + 1 + 1 = m + 2
        OBVIOUS
      <4> HIDE DEF Holds0
      <4>2. QED
        BY <4>1
    <3>1. m + 1 \in 1..n
      OBVIOUS
    <3>2. Holds0(m + 1)
      <4> HIDE DEF Holds0
      <4>1. QED
        BY <2>4, <3>1
    <3>3. f[m + 2] = f[m + 1] \o ss[m + 2]
      BY <2>1, <2>2, JoinsFacts
    <3>4. f[m + 1] \in Seq(T) /\ ss[m + 2] \in Seq(T)
      BY <3>1
    <3>5. /\ Range(f[m + 2]) = Range(f[m + 1]) \cup Range(ss[m + 2])
          /\ IsInjective(f[m + 1]) /\ IsInjective(ss[m + 2]) /\ Range(f[m + 1]) \cap Range(ss[m + 2]) = {}
             => IsInjective(f[m + 2])
      BY <3>3, <3>4, ConcatFacts
    <3>6. ASSUME NEW x PROVE x \in Range(f[m + 2]) <=> \E k \in 1..m + 2 : x \in Range(ss[k])
      <4>1. 1..m + 2 = (1..m + 1) \cup {m + 2}
        OBVIOUS
      <4>2. QED
        BY <3>2, <3>5, <4>1
    <3>7. ASSUME \A k \in 1..n : IsInjective(ss[k]),
                 \A j, k \in 1..n : j # k => Range(ss[j]) \cap Range(ss[k]) = {}
          PROVE  IsInjective(f[m + 2])
      <4>1. Range(f[m + 1]) \cap Range(ss[m + 2]) = {}
        <5>1. ASSUME NEW x \in Range(f[m + 1]), x \in Range(ss[m + 2]) PROVE FALSE
          <6>1. PICK k \in 1..m + 1 : x \in Range(ss[k])
            BY <3>2
          <6>2. k \in 1..n /\ k # m + 2
            BY <3>1
          <6>3. QED
            BY <3>7, <5>1, <6>1, <6>2
        <5>2. QED
          BY <5>1
      <4>2. IsInjective(f[m + 1])
        BY <3>2, <3>7
      <4>3. QED
        BY <3>5, <3>7, <4>1, <4>2
    <3>8. QED
      BY <3>6, <3>7
  <2>5. Nat \subseteq S
    <3> HIDE DEF S
    <3>1. QED
      BY <2>3, <2>4, Induction
  <2>6. Holds0(n)
    <3>1. n - 1 \in Nat /\ n - 1 + 1 = n /\ n \in 1..n
      BY <2>1
    <3> HIDE DEF Holds0
    <3>2. QED
      BY <2>5, <3>1
  <2>7. f[n] \in Seq(T)
    BY <2>1
  <2>8. QED
    BY <2>2, <2>6, <2>7
<1>3. QED
  BY <1>1, <1>2

\* Two lists of n sequences that make the same sequence only when they are equal.
Unmixed(ss, tt, n) == FlattenSeq(ss) = FlattenSeq(tt) <=> \A k \in 1..n : ss[k] = tt[k]

\* Parts can be told from the flattened sequence when the lengths of all but the last are known.
LEMMA FlattenEqual ==
  ASSUME NEW T, NEW n \in Nat \ {0}, NEW ss \in [1..n -> Seq(T)], NEW tt \in [1..n -> Seq(T)],
         \A k \in 1..n - 1 : Len(ss[k]) = Len(tt[k])
  PROVE  Unmixed(ss, tt, n)
<1>1. ASSUME \A k \in 1..n : ss[k] = tt[k] PROVE FlattenSeq(ss) = FlattenSeq(tt)
  <2>1. ss = tt
    BY <1>1
  <2>2. QED
    BY <2>1
<1> SUFFICES ASSUME FlattenSeq(ss) = FlattenSeq(tt) PROVE \A k \in 1..n : ss[k] = tt[k]
  BY <1>1 DEF Unmixed
<1>2. PICK f \in [1..n -> Seq(T)] : Joins(f, ss, n) /\ FlattenSeq(ss) = f[n]
  BY FlattenFacts
<1>3. PICK g \in [1..n -> Seq(T)] : Joins(g, tt, n) /\ FlattenSeq(tt) = g[n]
  BY FlattenFacts
<1> DEFINE Alike(m) == /\ m < n => Len(f[m]) = Len(g[m])
                       /\ f[m] = g[m] => \A k \in 1..m : ss[k] = tt[k]
           S == {m \in Nat : m + 1 \in 1..n => Alike(m + 1)}
<1>4. 0 \in S
  <2>1. 0 + 1 = 1 /\ 1..1 = {1} /\ (1 < n => 1 \in 1..n - 1)
    OBVIOUS
  <2>2. Alike(1)
    <3>1. f[1] = ss[1]
      BY <1>2, JoinsFacts
    <3>2. g[1] = tt[1]
      BY <1>3, JoinsFacts
    <3>3. QED
      BY <2>1, <3>1, <3>2
  <2> HIDE DEF Alike
  <2>3. QED
    BY <2>1, <2>2
<1>5. ASSUME NEW m \in Nat, m \in S PROVE m + 1 \in S
  <2> SUFFICES ASSUME m + 2 \in 1..n PROVE Alike(m + 2)
    <3>1. m + 1 + 1 = m + 2
      OBVIOUS
    <3> HIDE DEF Alike
    <3>2. QED
      BY <3>1
  <2>1. m + 1 \in 1..n /\ m + 1 < n
    OBVIOUS
  <2>2. Alike(m + 1)
    <3> HIDE DEF Alike
    <3>1. QED
      BY <1>5, <2>1
  <2>3. f[m + 2] = f[m + 1] \o ss[m + 2] /\ g[m + 2] = g[m + 1] \o tt[m + 2]
    <3>1. f[m + 2] = f[m + 1] \o ss[m + 2]
      BY <1>2, JoinsFacts
    <3>2. g[m + 2] = g[m + 1] \o tt[m + 2]
      BY <1>3, JoinsFacts
    <3>3. QED
      BY <3>1, <3>2
  <2>4. /\ f[m + 1] \in Seq(T) /\ ss[m + 2] \in Seq(T)
        /\ g[m + 1] \in Seq(T) /\ tt[m + 2] \in Seq(T)
    BY <2>1
  <2>5. Len(f[m + 1]) = Len(g[m + 1])
    BY <2>1, <2>2
  <2>6. ASSUME m + 2 < n PROVE Len(f[m + 2]) = Len(g[m + 2])
    <3>1. Len(ss[m + 2]) = Len(tt[m + 2])
      BY <2>6
    <3>2. /\ Len(f[m + 2]) = Len(f[m + 1]) + Len(ss[m + 2])
          /\ Len(g[m + 2]) = Len(g[m + 1]) + Len(tt[m + 2])
      BY <2>3, <2>4, ConcatFacts
    <3>3. QED
      BY <2>5, <3>1, <3>2
  <2>7. ASSUME f[m + 2] = g[m + 2] PROVE \A k \in 1..m + 2 : ss[k] = tt[k]
    <3>1. f[m + 1] = g[m + 1] /\ ss[m + 2] = tt[m + 2]
      <4> DEFINE a == f[m + 1]
                 b == ss[m + 2]
                 c == g[m + 1]
                 d == tt[m + 2]
      <4>1. a \o b = c \o d
        BY <2>3, <2>7
      <4>2. a \in Seq(T) /\ b \in Seq(T) /\ c \in Seq(T) /\ d \in Seq(T) /\ Len(a) = Len(c)
        BY <2>4, <2>5
      <4> HIDE DEF a, b, c, d
      <4>3. a = c /\ b = d
        BY <4>1, <4>2, ConcatCancel
      <4>4. QED
        BY <4>3 DEF a, b, c, d
    <3>2. \A k \in 1..m + 2 : k \in 1..m + 1 \/ k = m + 2
      <4>1. \A l \in Nat : \A k \in 1..l + 2 : k \in 1..l + 1 \/ k = l + 2
        OBVIOUS
      <4>2. QED
        BY <4>1
    <3>3. QED
      BY <2>2, <3>1, <3>2
  <2>8. QED
    BY <2>6, <2>7
<1>6. Nat \subseteq S
  <2> HIDE DEF S
  <2>1. QED
    BY <1>4, <1>5, Induction
<1>7. Alike(n)
  <2>1. n - 1 \in Nat /\ n - 1 + 1 = n /\ n \in 1..n
    OBVIOUS
  <2> HIDE DEF Alike
  <2>2. QED
    BY <1>6, <2>1
<1>8. QED
  BY <1>2, <1>3, <1>7

\* What Among leaves of a sequence.
LEMMA AmongSeq ==
  ASSUME NEW T, NEW s \in Seq(T), NEW S
  PROVE  /\ Among(s, S) \in Seq(T)
         /\ \A x : x \in Range(Among(s, S)) <=> x \in Range(s) /\ x \in S
         /\ IsInjective(s) => IsInjective(Among(s, S))
<1> DEFINE n == Len(s)
<1>1. n \in Nat /\ DOMAIN s = 1..n /\ \A k \in 1..n : s[k] \in T
  BY LenProperties, ElementOfSeq
<1> HIDE DEF n
<1>2. PICK m \in Nat : \E p : Picks(p, m, n, s, S)
  BY <1>1, AmongFacts
<1>3. PICK p : Picks(p, m, n, s, S)
  BY <1>2
<1>4. /\ p \in [1..m -> 1..n]
      /\ Among(s, S) = [i \in 1..m |-> s[p[i]]]
      /\ \A i, j \in 1..m : p[i] = p[j] => i = j
      /\ \A i \in 1..m : s[p[i]] \in S
      /\ \A k \in 1..n : s[k] \in S => \E i \in 1..m : p[i] = k
  BY <1>3 DEF Picks
<1> DEFINE a == Among(s, S)
<1>5. DOMAIN a = 1..m /\ \A i \in 1..m : a[i] = s[p[i]]
  BY <1>4
<1>6. a \in Seq(T)
  <2>1. a \in [1..m -> T]
    BY <1>1, <1>4
  <2> HIDE DEF a
  <2>2. QED
    BY <2>1
<1> HIDE DEF a
<1>7. ASSUME NEW x PROVE x \in Range(a) <=> x \in Range(s) /\ x \in S
  <2>1. ASSUME x \in Range(a) PROVE x \in Range(s) /\ x \in S
    <3>1. PICK i \in 1..m : x = a[i]
      BY <1>5, <2>1 DEF Range
    <3>2. p[i] \in 1..n /\ x = s[p[i]]
      BY <1>5, <1>4, <3>1
    <3>3. QED
      BY <1>1, <1>4, <3>2 DEF Range
  <2>2. ASSUME x \in Range(s), x \in S PROVE x \in Range(a)
    <3>1. PICK k \in 1..n : x = s[k]
      BY <1>1, <2>2 DEF Range
    <3>2. PICK i \in 1..m : p[i] = k
      BY <1>4, <2>2, <3>1
    <3>3. a[i] = x
      BY <1>5, <3>1, <3>2
    <3>4. QED
      BY <1>5, <3>3 DEF Range
  <2>3. QED
    BY <2>1, <2>2
<1>8. ASSUME IsInjective(s) PROVE IsInjective(a)
  <2> SUFFICES ASSUME NEW i \in 1..m, NEW j \in 1..m, a[i] = a[j] PROVE i = j
    BY <1>5 DEF IsInjective
  <2>1. p[i] \in 1..n /\ p[j] \in 1..n /\ s[p[i]] = s[p[j]]
    BY <1>5, <1>4
  <2>2. p[i] = p[j]
    BY <1>1, <1>8, <2>1 DEF IsInjective
  <2>3. QED
    BY <1>4, <2>2
<1>9. QED
  BY <1>6, <1>7, <1>8 DEF a

\* What Among leaves of a sorted set is sorted.
LEMMA AmongSorted ==
  ASSUME NEW T, IsFiniteSet(T), NEW R, StrictOrder(R, T), NEW S,
         NEW Q, \A x, y \in T \cap S : <<x, y>> \in Q <=> <<x, y>> \in R
  PROVE  Among(InOrder(T, R), S) = InOrder(T \cap S, Q)
<1> DEFINE n == Cardinality(T)
           s == InOrder(T, R)
           U == T \cap S
<1>1. /\ n \in Nat /\ s \in [1..n -> T]
      /\ \A x \in T : \E k \in 1..n : s[k] = x
      /\ \A j, k \in 1..n : j < k => <<s[j], s[k]>> \in R
  BY InOrderFacts
<1> HIDE DEF n, s
<1>2. DOMAIN s = 1..n
  BY <1>1
<1>3. PICK m \in Nat : \E p : Picks(p, m, n, s, S)
  BY <1>1, <1>2, AmongFacts
<1>4. PICK p : Picks(p, m, n, s, S)
  BY <1>3
<1>5. /\ p \in [1..m -> 1..n]
      /\ Among(s, S) = [i \in 1..m |-> s[p[i]]]
      /\ \A i, j \in 1..m : i < j => p[i] < p[j]
      /\ \A i \in 1..m : s[p[i]] \in S
      /\ \A k \in 1..n : s[k] \in S => \E i \in 1..m : p[i] = k
  BY <1>4 DEF Picks
<1> DEFINE a == [i \in 1..m |-> s[p[i]]]
<1>6. a \in [1..m -> U] /\ \A i \in 1..m : a[i] = s[p[i]]
  BY <1>1, <1>5
<1> HIDE DEF a
<1>7. ASSUME NEW x \in U PROVE \E i \in 1..m : a[i] = x
  <2>1. PICK k \in 1..n : s[k] = x
    BY <1>1
  <2>2. PICK i \in 1..m : p[i] = k
    BY <1>5, <2>1
  <2>3. QED
    BY <1>6, <2>1, <2>2
<1>8. ASSUME NEW i \in 1..m, NEW j \in 1..m, i < j PROVE <<a[i], a[j]>> \in Q
  <2>1. p[i] \in 1..n /\ p[j] \in 1..n /\ p[i] < p[j]
    BY <1>5, <1>8
  <2>2. <<a[i], a[j]>> \in R
    BY <1>1, <1>6, <2>1
  <2>3. a[i] \in U /\ a[j] \in U
    BY <1>6
  <2>4. QED
    BY <2>2, <2>3
<1>9. IsFiniteSet(U)
  BY FS_Intersection
<1>10. StrictOrder(Q, U)
  BY DEF StrictOrder
<1>11. a = InOrder(U, Q)
  <2>1. /\ IsFiniteSet(U) /\ StrictOrder(Q, U) /\ m \in Nat /\ a \in [1..m -> U]
        /\ \A x \in U : \E i \in 1..m : a[i] = x
        /\ \A i, j \in 1..m : i < j => <<a[i], a[j]>> \in Q
    BY <1>6, <1>7, <1>8, <1>9, <1>10
  <2> HIDE DEF U
  <2>2. QED
    BY <2>1, InOrderUnique
<1>12. QED
  BY <1>5, <1>11 DEF a, s

\* The pages of a sequence, of any size, make the sequence.
LEMMA PagesJoin ==
  ASSUME NEW T, NEW s \in Seq(T), NEW n \in Nat, NEW limit \in Nat \ {0}, Len(s) <= n
  PROVE  FlattenSeq([k \in 1..n |-> Page(s, (k - 1) * limit, limit)]) = s
<1> DEFINE ss == [k \in 1..n |-> Page(s, (k - 1) * limit, limit)]
           len == Len(s)
           upto(k) == IF k * limit < len THEN k * limit ELSE len
<1>1. len \in Nat /\ \A i \in 1..len : s[i] \in T
  BY LenProperties, ElementOfSeq
<1>2. \A k \in Nat : k * limit \in Nat /\ (k + 1) * limit = k * limit + limit /\ k <= k * limit
  OBVIOUS
<1>3. ASSUME NEW k \in 1..n
      PROVE  ss[k] = SubSeq(s, (k - 1) * limit + 1, upto(k)) /\ ss[k] \in Seq(T)
  <2>1. (k - 1) * limit + limit = k * limit /\ (k - 1) * limit \in Nat /\ k * limit \in Nat
    BY <1>2
  <2>2. ss[k] = SubSeq(s, (k - 1) * limit + 1, upto(k))
    BY <2>1 DEF Page
  <2> DEFINE from == (k - 1) * limit + 1
             to == upto(k)
  <2>3. from \in Int /\ to \in Int /\ \A i \in from..to : i \in 1..len
    BY <1>1, <2>1
  <2> HIDE DEF from, to
  <2>4. SubSeq(s, from, to) \in Seq(T)
    BY <1>1, <2>3, SubSeqProperties
  <2>5. QED
    BY <2>2, <2>4 DEF from, to
<1>4. ss \in [1..n -> Seq(T)]
  BY <1>3
<1>5. CASE n = 0
  <2>1. ss = <<>> /\ s = <<>>
    BY <1>1, <1>5
  <2>2. Len(ss) = 0
    BY <2>1
  <2> HIDE DEF ss
  <2>3. QED
    BY <2>1, <2>2 DEF FlattenSeq, ss
<1>6. CASE n # 0
  <2> HIDE DEF ss
  <2>1. PICK f \in [1..n -> Seq(T)] : Joins(f, ss, n) /\ FlattenSeq(ss) = f[n]
    BY <1>4, <1>6, FlattenFacts
  <2>2. f[1] = ss[1] /\ \A k \in Nat : k + 2 \in 1..n => f[k + 2] = f[k + 1] \o ss[k + 2]
    BY <1>6, <2>1, JoinsFacts
  <2> DEFINE S == {m \in Nat : m + 1 \in 1..n => f[m + 1] = SubSeq(s, 1, upto(m + 1))}
  <2>3. 0 \in S
    <3>1. 1 \in 1..n /\ 0 + 1 = 1 /\ (1 - 1) * limit + 1 = 1
      BY <1>6
    <3>2. f[1] = SubSeq(s, 1, upto(1))
      BY <1>3, <2>2, <3>1
    <3> HIDE DEF upto
    <3>3. QED
      BY <3>1, <3>2
  <2>4. ASSUME NEW m \in Nat, m \in S PROVE m + 1 \in S
    <3> SUFFICES ASSUME m + 2 \in 1..n PROVE f[m + 2] = SubSeq(s, 1, upto(m + 2))
      <4>1. m + 1 + 1 = m + 2
        OBVIOUS
      <4> HIDE DEF upto
      <4>2. QED
        BY <4>1
    <3>1. m + 1 \in 1..n /\ m + 2 - 1 = m + 1
      OBVIOUS
    <3>2. f[m + 1] = SubSeq(s, 1, upto(m + 1))
      <4> HIDE DEF upto
      <4>1. QED
        BY <2>4, <3>1
    <3>3. ss[m + 2] = SubSeq(s, (m + 1) * limit + 1, upto(m + 2))
      <4> HIDE DEF upto
      <4>1. QED
        BY <1>3, <3>1
    <3>4. f[m + 2] = SubSeq(s, 1, upto(m + 1)) \o SubSeq(s, (m + 1) * limit + 1, upto(m + 2))
      <4> HIDE DEF upto
      <4>1. QED
        BY <2>2, <3>2, <3>3
    <3> DEFINE a == (m + 1) * limit
    <3>5. a \in Nat /\ (m + 2) * limit = a + limit
      BY <1>2
    <3>6. CASE a < len
      <4>1. upto(m + 1) = a /\ upto(m + 2) \in a..len
        <5>1. upto(m + 2) = IF a + limit < len THEN a + limit ELSE len
          BY <3>5
        <5> HIDE DEF a
        <5>2. upto(m + 2) \in a..len
          BY <1>1, <3>5, <3>6, <5>1
        <5>3. QED
          BY <3>6, <5>2 DEF a
      <4> HIDE DEF a, upto
      <4>2. 1 \in 1..len + 1 /\ a \in 0..len
        BY <1>1, <3>5, <3>6
      <4>3. SubSeq(s, 1, a) \o SubSeq(s, a + 1, upto(m + 2)) = SubSeq(s, 1, upto(m + 2))
        <5> DEFINE to == upto(m + 2)
        <5>1. 1 \in 1..Len(s) + 1 /\ a \in 1 - 1..Len(s) /\ to \in a..Len(s)
          BY <4>1, <4>2 DEF len
        <5> HIDE DEF to
        <5>2. SubSeq(s, 1, a) \o SubSeq(s, a + 1, to) = SubSeq(s, 1, to)
          BY <5>1, ConcatAdjacentSubSeq
        <5>3. QED
          BY <5>2 DEF to
      <4>4. QED
        BY <3>4, <4>1, <4>3 DEF a
    <3>7. CASE ~ (a < len)
      <4>1. upto(m + 1) = len /\ upto(m + 2) = len /\ len < a + 1
        <5>1. upto(m + 2) = IF a + limit < len THEN a + limit ELSE len
          BY <3>5
        <5>2. upto(m + 1) = IF a < len THEN a ELSE len
          OBVIOUS
        <5> HIDE DEF a, upto
        <5>3. QED
          BY <1>1, <3>5, <3>7, <5>1, <5>2
      <4> HIDE DEF a, upto
      <4>2. SubSeq(s, a + 1, len) = <<>>
        BY <1>1, <3>5, <4>1, SubSeqEmpty
      <4>3. SubSeq(s, 1, len) \in Seq(T)
        BY <1>1, SubSeqProperties
      <4>4. SubSeq(s, 1, len) \o <<>> = SubSeq(s, 1, len)
        BY <4>3, ConcatEmptySeq
      <4>5. QED
        BY <3>4, <4>1, <4>2, <4>4 DEF a
    <3>8. QED
      BY <3>6, <3>7
  <2>5. Nat \subseteq S
    <3> HIDE DEF S
    <3>1. QED
      BY <2>3, <2>4, Induction
  <2>6. f[n] = SubSeq(s, 1, upto(n))
    <3>1. n - 1 \in Nat /\ n - 1 + 1 = n /\ n \in 1..n
      BY <1>6
    <3> HIDE DEF upto
    <3>2. QED
      BY <2>5, <3>1
  <2>7. upto(n) = len
    <3>1. n * limit \in Nat /\ n <= n * limit /\ len <= n
      BY <1>2
    <3> DEFINE all == n * limit
    <3>2. upto(n) = IF all < len THEN all ELSE len
      OBVIOUS
    <3> HIDE DEF all, len, upto
    <3>3. all \in Nat /\ n <= all
      BY <3>1 DEF all
    <3>4. QED
      BY <1>1, <3>1, <3>2, <3>3
  <2>8. QED
    BY <2>1, <2>6, <2>7, SubSeqFull DEF ss
<1>7. QED
  BY <1>5, <1>6

-----------------------------------------------------------------------------
(* The order of keys *)

\* v comes before w, with which it agrees on the first k places.
BeforeAt(v, w, k) ==
  /\ k <= Len(v) /\ k < Len(w)
  /\ \A i \in 1..k : v[i] = w[i]
  /\ k = Len(v) \/ v[k + 1] < w[k + 1]

\* Sequences begin with the same k elements when they agree on the first k places.
LEMMA PrefixEqual ==
  ASSUME NEW v \in Seq(Nat), NEW w \in Seq(Nat), NEW k \in Nat, k <= Len(v), k <= Len(w)
  PROVE  SubSeq(v, 1, k) = SubSeq(w, 1, k) <=> \A i \in 1..k : v[i] = w[i]
<1>1. ASSUME NEW u \in Seq(Nat), k <= Len(u)
      PROVE  /\ SubSeq(u, 1, k) \in Seq(Nat) /\ Len(SubSeq(u, 1, k)) = k
             /\ \A i \in 1..k : SubSeq(u, 1, k)[i] = u[i]
  <2>1. Len(u) \in Nat /\ \A i \in 1..k : u[i] \in Nat
    <3> DEFINE l == Len(u)
    <3>1. l \in Nat /\ k <= l /\ \A i \in 1..l : u[i] \in Nat
      BY <1>1, LenProperties, ElementOfSeq
    <3> HIDE DEF l
    <3>2. \A i \in 1..k : i \in 1..l
      BY <3>1
    <3>3. QED
      BY <3>1, <3>2 DEF l
  <2>2. /\ SubSeq(u, 1, k) \in Seq(Nat)
        /\ Len(SubSeq(u, 1, k)) = IF 1 <= k THEN k - 1 + 1 ELSE 0
        /\ \A i \in 1..k - 1 + 1 : SubSeq(u, 1, k)[i] = u[1 + i - 1]
    BY <2>1, SubSeqProperties
  <2>3. \A i \in 1..k : i \in 1..k - 1 + 1 /\ 1 + i - 1 = i
    OBVIOUS
  <2>4. k = IF 1 <= k THEN k - 1 + 1 ELSE 0
    OBVIOUS
  <2>5. QED
    BY <2>2, <2>3, <2>4
<1> DEFINE a == SubSeq(v, 1, k)
           b == SubSeq(w, 1, k)
<1>2. /\ a \in Seq(Nat) /\ b \in Seq(Nat) /\ Len(a) = k /\ Len(b) = k
      /\ \A i \in 1..k : a[i] = v[i] /\ b[i] = w[i]
  BY <1>1
<1> HIDE DEF a, b
<1>3. a = b <=> \A i \in 1..k : v[i] = w[i]
  BY <1>2, SeqEqual
<1>4. QED
  BY <1>3 DEF a, b

\* Before, place by place.
LEMMA BeforeMeans ==
  ASSUME NEW v \in Seq(Nat), NEW w \in Seq(Nat)
  PROVE  Before(v, w) <=> \E k \in Nat : BeforeAt(v, w, k)
<1>1. Len(v) \in Nat /\ Len(w) \in Nat
  BY LenProperties
<1>2. ASSUME NEW k \in Nat, k <= Len(v), k < Len(w)
      PROVE  SubSeq(v, 1, k) = SubSeq(w, 1, k) <=> \A i \in 1..k : v[i] = w[i]
  <2> DEFINE l == Len(v)
             n == Len(w)
  <2>1. l \in Nat /\ n \in Nat /\ k <= l /\ k < n
    BY <1>1, <1>2
  <2> HIDE DEF l, n
  <2>2. k <= l /\ k <= n
    BY <2>1
  <2>3. k <= Len(v) /\ k <= Len(w)
    BY <2>2 DEF l, n
  <2>4. QED
    BY <2>3, PrefixEqual
<1>3. \A k : k \in 0..Len(v) <=> k \in Nat /\ k <= Len(v)
  BY <1>1
<1>4. QED
  BY <1>2, <1>3 DEF Before, BeforeAt

\* The order of keys is strict and total.
LEMMA BeforeFacts ==
  ASSUME NEW u \in Seq(Nat), NEW v \in Seq(Nat), NEW w \in Seq(Nat)
  PROVE  /\ ~ Before(v, v)
         /\ Before(u, v) /\ Before(v, w) => Before(u, w)
         /\ v = w \/ Before(v, w) \/ Before(w, v)
<1>1. /\ Len(u) \in Nat /\ Len(v) \in Nat /\ Len(w) \in Nat
      /\ \A i \in 1..Len(u) : u[i] \in Nat
      /\ \A i \in 1..Len(v) : v[i] \in Nat
      /\ \A i \in 1..Len(w) : w[i] \in Nat
  BY LenProperties, ElementOfSeq
<1>2. ~ Before(v, v)
  <2>1. ASSUME NEW k \in Nat, BeforeAt(v, v, k) PROVE FALSE
    <3>1. k < Len(v) /\ v[k + 1] < v[k + 1]
      BY <1>1, <2>1 DEF BeforeAt
    <3>2. k + 1 \in 1..Len(v)
      BY <1>1, <3>1
    <3>3. QED
      BY <1>1, <3>1, <3>2
  <2>2. QED
    BY <2>1, BeforeMeans
<1>3. ASSUME Before(u, v), Before(v, w) PROVE Before(u, w)
  <2>1. PICK j \in Nat : BeforeAt(u, v, j)
    BY <1>3, BeforeMeans
  <2>2. PICK k \in Nat : BeforeAt(v, w, k)
    BY <1>3, BeforeMeans
  <2>3. /\ j <= Len(u) /\ j < Len(v) /\ \A i \in 1..j : u[i] = v[i]
        /\ j = Len(u) \/ u[j + 1] < v[j + 1]
        /\ k <= Len(v) /\ k < Len(w) /\ \A i \in 1..k : v[i] = w[i]
        /\ k = Len(v) \/ v[k + 1] < w[k + 1]
    BY <2>1, <2>2 DEF BeforeAt
  <2>4. CASE j < k
    <3>1. j + 1 \in 1..k /\ \A i \in 1..j : i \in 1..k
      BY <2>4
    <3>2. v[j + 1] = w[j + 1] /\ \A i \in 1..j : u[i] = w[i]
      BY <2>3, <3>1
    <3>3. j < Len(w)
      BY <1>1, <2>3, <2>4
    <3>4. BeforeAt(u, w, j)
      BY <2>3, <3>2, <3>3 DEF BeforeAt
    <3>5. QED
      BY <3>4, BeforeMeans
  <2>5. CASE k < j
    <3>1. k + 1 \in 1..j /\ \A i \in 1..k : i \in 1..j
      BY <2>5
    <3>2. u[k + 1] = v[k + 1] /\ \A i \in 1..k : u[i] = w[i]
      BY <2>3, <3>1
    <3>3. k # Len(v) /\ k <= Len(u)
      BY <1>1, <2>3, <2>5
    <3>4. BeforeAt(u, w, k)
      BY <2>3, <3>2, <3>3 DEF BeforeAt
    <3>5. QED
      BY <3>4, BeforeMeans
  <2>6. CASE j = k
    <3>1. v[k + 1] < w[k + 1] /\ \A i \in 1..k : u[i] = w[i]
      BY <1>1, <2>3, <2>6
    <3>2. k = Len(u) \/ u[k + 1] < w[k + 1]
      <4>1. CASE u[k + 1] < v[k + 1] /\ k < Len(u)
        <5>1. u[k + 1] \in Nat /\ v[k + 1] \in Nat /\ w[k + 1] \in Nat
          <6>1. k < Len(u) /\ k < Len(v) /\ k < Len(w)
            BY <2>3, <2>6, <4>1
          <6>2. k + 1 \in 1..Len(u) /\ k + 1 \in 1..Len(v) /\ k + 1 \in 1..Len(w)
            BY <1>1, <6>1
          <6>3. QED
            BY <1>1, <6>2
        <5>2. u[k + 1] < v[k + 1] /\ v[k + 1] < w[k + 1]
          BY <3>1, <4>1
        <5> DEFINE x == u[k + 1]
                   y == v[k + 1]
                   z == w[k + 1]
        <5> HIDE DEF x, y, z
        <5>3. x < z
          BY <5>1, <5>2 DEF x, y, z
        <5>4. QED
          BY <5>3 DEF x, z
      <4>2. QED
        BY <1>1, <2>3, <2>6, <4>1
    <3>3. BeforeAt(u, w, k)
      BY <2>3, <2>6, <3>1, <3>2 DEF BeforeAt
    <3>4. QED
      BY <3>3, BeforeMeans
  <2>7. QED
    BY <2>4, <2>5, <2>6
<1>4. v = w \/ Before(v, w) \/ Before(w, v)
  <2> DEFINE D == {k \in Nat : /\ k <= Len(v) /\ k <= Len(w)
                               /\ k = Len(v) \/ k = Len(w) \/ v[k + 1] # w[k + 1]}
  <2>1. D # {}
    <3>1. Len(v) \in D \/ Len(w) \in D
      BY <1>1
    <3>2. QED
      BY <3>1
  <2>2. PICK k \in D : \A n \in D : k <= n
    <3>1. D \in SUBSET Nat
      OBVIOUS
    <3> HIDE DEF D
    <3>2. QED
      BY <2>1, <3>1, Least
  <2>3. ASSUME NEW i \in 1..k PROVE v[i] = w[i]
    <3>1. i - 1 \in Nat /\ ~ (k <= i - 1) /\ i - 1 + 1 = i
      OBVIOUS
    <3>2. i - 1 \notin D
      BY <2>2, <3>1
    <3>3. i - 1 < Len(v) /\ i - 1 < Len(w)
      BY <1>1, <3>1
    <3>4. QED
      BY <1>1, <3>1, <3>2, <3>3
  <2>4. /\ k \in Nat /\ k <= Len(v) /\ k <= Len(w)
        /\ k = Len(v) \/ k = Len(w) \/ v[k + 1] # w[k + 1]
    OBVIOUS
  <2> HIDE DEF D
  <2>5. CASE k = Len(v) /\ k = Len(w)
    BY <2>3, <2>5, SeqEqual
  <2>6. CASE k = Len(v) /\ k # Len(w)
    <3>1. BeforeAt(v, w, k)
      BY <1>1, <2>3, <2>4, <2>6 DEF BeforeAt
    <3>2. QED
      BY <2>4, <3>1, BeforeMeans
  <2>7. CASE k # Len(v) /\ k = Len(w)
    <3>1. BeforeAt(w, v, k)
      BY <1>1, <2>3, <2>4, <2>7 DEF BeforeAt
    <3>2. QED
      BY <2>4, <3>1, BeforeMeans
  <2>8. CASE k # Len(v) /\ k # Len(w)
    <3>1. k + 1 \in 1..Len(v) /\ k + 1 \in 1..Len(w) /\ k < Len(v) /\ k < Len(w)
      BY <1>1, <2>4, <2>8
    <3>2. v[k + 1] < w[k + 1] \/ w[k + 1] < v[k + 1]
      BY <1>1, <2>4, <2>8, <3>1
    <3>3. BeforeAt(v, w, k) \/ BeforeAt(w, v, k)
      BY <2>3, <2>4, <3>1, <3>2 DEF BeforeAt
    <3>4. QED
      BY <2>4, <3>3, BeforeMeans
  <2>9. QED
    BY <2>5, <2>6, <2>7, <2>8
<1>5. QED
  BY <1>2, <1>3, <1>4

-----------------------------------------------------------------------------
(* The names of indexes *)

\* Schemas have sequences of names, all of which are names of indexes.
LEMMA GeneratedFacts ==
  \A s \in Schemas : /\ Generated[s] \in Seq(Names)
                     /\ Len(Generated[s]) \in Nat
                     /\ DOMAIN Generated[s] = 1..Len(Generated[s])
<1> SUFFICES ASSUME NEW s \in Schemas
             PROVE  /\ Generated[s] \in Seq(Names)
                    /\ Len(Generated[s]) \in Nat
                    /\ DOMAIN Generated[s] = 1..Len(Generated[s])
  OBVIOUS
<1> DEFINE A == << <<"s">>, <<"i">>, <<"ri">>, <<"i", "s">> >>
           B == IF "a-i" \in Range(Payload[s]) THEN << <<"a-i">>, <<"a-i", "s">> >> ELSE <<>>
           C == OfPayload(Payload[s])
           T == Range(A) \cup Range(B) \cup Range(C)
<1>1. Len(Payload[s]) \in Nat
  BY PayloadAssumption, LenProperties DEF Schemas
<1>2. C \in Seq(Range(C)) /\ A \in Seq(Range(A)) /\ B \in Seq(Range(B))
  <2>1. C \in Seq(Range(C))
    <3>1. 6 * Len(Payload[s]) \in Nat
      BY <1>1
    <3>2. DOMAIN C = 1..(6 * Len(Payload[s]))
      BY DEF OfPayload
    <3>3. C \in [1..(6 * Len(Payload[s])) -> Range(C)]
      BY <3>2 DEF OfPayload, Range
    <3>4. QED
      BY <3>1, <3>3
  <2>2. A \in Seq(Range(A))
    <3>1. A \in [1..4 -> Range(A)]
      BY DEF Range
    <3>2. QED
      BY <3>1
  <2>3. B \in Seq(Range(B))
    <3>1. CASE "a-i" \in Range(Payload[s])
      <4>1. B \in [1..2 -> Range(B)]
        BY <3>1 DEF Range
      <4>2. ASSUME NEW S, B \in [1..2 -> S] PROVE B \in Seq(S)
        BY <4>2
      <4>3. QED
        BY <4>1, <4>2
    <3>2. CASE "a-i" \notin Range(Payload[s])
      BY <3>2, EmptySeq
    <3>3. QED
      BY <3>1, <3>2
  <2>4. QED
    BY <2>1, <2>2, <2>3
<1>3. A \in Seq(T) /\ B \in Seq(T) /\ C \in Seq(T)
  BY <1>2, SeqMonotonic
<1>4. A \o B \o C \in Seq(T)
  BY <1>3, ConcatProperties
<1>5. Generated[s] = A \o B \o C
  BY DEF Generated
<1>6. Generated[s] \in Seq(Range(Generated[s]))
  BY <1>4, <1>5, SeqOfRange
<1>7. Range(Generated[s]) \subseteq Names
  BY DEF Names
<1>8. Generated[s] \in Seq(Names)
  BY <1>6, <1>7, SeqMonotonic
<1>9. QED
  BY <1>8, LenProperties

\* What of a schema is on record, and what a credential's indexing gets to.
LEMMA PrefixRange ==
  ASSUME NEW s \in Schemas, NEW n \in 0..Len(Generated[s])
  PROVE  Range(SubSeq(Generated[s], 1, n)) = {Generated[s][k] : k \in 1..n}
<1>1. Generated[s] \in Seq(Names) /\ Len(Generated[s]) \in Nat
  BY GeneratedFacts
<1>2. \A i \in 1..n : Generated[s][i] \in Names
  BY <1>1, ElementOfSeq
<1>3. /\ SubSeq(Generated[s], 1, n) \in Seq(Names)
      /\ Len(SubSeq(Generated[s], 1, n)) = n
      /\ \A i \in 1..n : SubSeq(Generated[s], 1, n)[i] = Generated[s][i]
  <2>1. /\ SubSeq(Generated[s], 1, n) \in Seq(Names)
        /\ Len(SubSeq(Generated[s], 1, n)) = IF 1 <= n THEN n - 1 + 1 ELSE 0
        /\ \A i \in 1..n - 1 + 1 : SubSeq(Generated[s], 1, n)[i] = Generated[s][1 + i - 1]
    BY <1>1, <1>2, SubSeqProperties
  <2>2. QED
    BY <1>1, <2>1
<1>4. Range(SubSeq(Generated[s], 1, n)) = {SubSeq(Generated[s], 1, n)[i] : i \in 1..n}
  BY <1>3, RangeEquality
<1>5. QED
  BY <1>3, <1>4

\* A schema's credentials have its names; the names that an indexing of n gets to grow with n.
LEMMA ReachedFacts ==
  ASSUME NEW c \in Creds
  PROVE  /\ Schema(c) \in Schemas
         /\ Usable[c] \subseteq 1..Len(Generated[Schema(c)])
         /\ \A n \in 0..Len(Generated[Schema(c)]) :
              /\ Reached[c][n] = {Generated[Schema(c)][k] : k \in 1..n \cap Usable[c]}
              /\ \A name \in Reached[c][n] : name \in Names /\ c \in Keyed(name)
              /\ \A m \in 0..n : Reached[c][m] \subseteq Reached[c][n]
         /\ Reached[c][0] = {}
<1> DEFINE s == Schema(c)
<1>1. s \in Schemas
  BY SadAssumption DEF Schema, Schemas
<1>2. /\ Generated[s] \in Seq(Names) /\ Len(Generated[s]) \in Nat
      /\ DOMAIN Generated[s] = 1..Len(Generated[s])
  BY <1>1, GeneratedFacts
<1>3. Usable[c] = {k \in 1..Len(Generated[s]) : \A j \in 1..k : c \in Keyed(Generated[s][j])}
  BY <1>2 DEF Usable
<1>4. \A n \in 0..Len(Generated[s]) :
        Reached[c][n] = {Generated[s][k] : k \in 1..n \cap Usable[c]}
  BY <1>2 DEF Reached
<1>5. ASSUME NEW k \in Usable[c] PROVE Generated[s][k] \in Names /\ c \in Keyed(Generated[s][k])
  <2>1. k \in 1..Len(Generated[s]) /\ k \in 1..k
    BY <1>2, <1>3
  <2>2. QED
    BY <1>2, <1>3, <2>1, ElementOfSeq
<1>6. \A n \in 0..Len(Generated[s]) : \A m \in 0..n : 1..m \subseteq 1..n /\ m \in 0..Len(Generated[s])
  BY <1>2
<1>7. Reached[c][0] = {}
  <2>1. 0 \in 0..Len(Generated[s]) /\ 1..0 = {}
    BY <1>2
  <2>2. QED
    BY <1>4, <2>1
<1>8. ASSUME NEW n \in 0..Len(Generated[s]), NEW m \in 0..n PROVE Reached[c][m] \subseteq Reached[c][n]
  BY <1>4, <1>6
<1>9. QED
  BY <1>1, <1>3, <1>4, <1>5, <1>7, <1>8

\* How many names a schema has on record, what Worked makes of it, and what is on record then.
LEMMA RecordFacts ==
  ASSUME TypeOK, NEW c \in Creds
  PROVE  /\ schIdx[Schema(c)] \in 0..Len(Generated[Schema(c)])
         /\ Worked(c) \in 0..Len(Generated[Schema(c)])
         /\ schIdx[Schema(c)] <= Worked(c)
         /\ schIdx[Schema(c)] > 0 => Worked(c) = schIdx[Schema(c)]
BY ReachedFacts, GeneratedFacts DEF TypeOK, Worked

\* The names of a schema's indexes are static ones or those of its payload fields; every payload
\* field has all of its names.
LEMMA GeneratedNames ==
  ASSUME NEW s \in Schemas
  PROVE  /\ \A name \in Range(Generated[s]) :
              \/ name \in {<<"s">>, <<"i">>, <<"ri">>, <<"i", "s">>}
              \/ "a-i" \in Range(Payload[s]) /\ name \in {<<"a-i">>, <<"a-i", "s">>}
              \/ \E p \in Range(Payload[s]) : name \in Range(OfField(p))
         /\ \A p \in Range(Payload[s]) : Range(OfField(p)) \subseteq Range(Generated[s])
<1> DEFINE A == << <<"s">>, <<"i">>, <<"ri">>, <<"i", "s">> >>
           B == IF "a-i" \in Range(Payload[s]) THEN << <<"a-i">>, <<"a-i", "s">> >> ELSE <<>>
           C == OfPayload(Payload[s])
           n == Len(Payload[s])
<1>1. n \in Nat /\ DOMAIN Payload[s] = 1..n
  BY PayloadAssumption, LenProperties DEF Schemas
<1>2. DOMAIN C = 1..6 * n /\ \A k \in 1..6 * n : C[k] = OfField(Payload[s][(k + 5) \div 6])[((k - 1) % 6) + 1]
  BY DEF OfPayload
<1>3. /\ Range(A) = {<<"s">>, <<"i">>, <<"ri">>, <<"i", "s">>}
      /\ Range(B) = IF "a-i" \in Range(Payload[s]) THEN {<<"a-i">>, <<"a-i", "s">>} ELSE {}
  <2>1. Range(A) = {A[k] : k \in 1..4}
    BY DEF Range
  <2>2. CASE "a-i" \in Range(Payload[s])
    <3>1. Range(B) = {B[k] : k \in 1..2}
      BY <2>2 DEF Range
    <3>2. QED
      BY <2>1, <2>2, <3>1
  <2>3. CASE "a-i" \notin Range(Payload[s])
    <3>1. B = <<>> /\ DOMAIN (<<>>) = {}
      BY <2>3
    <3>2. Range(B) = {}
      BY <3>1 DEF Range
    <3>3. QED
      BY <2>1, <2>3, <3>2
  <2>4. QED
    BY <2>2, <2>3
<1>4. ASSUME NEW p PROVE DOMAIN OfField(p) = 1..6 /\ Range(OfField(p)) = {OfField(p)[j] : j \in 1..6}
  BY DEF OfField, Range
<1>5. ASSUME NEW name \in Range(C) PROVE \E p \in Range(Payload[s]) : name \in Range(OfField(p))
  <2>1. PICK k \in 1..6 * n : name = C[k]
    BY <1>2 DEF Range
  <2>2. (k + 5) \div 6 \in 1..n /\ ((k - 1) % 6) + 1 \in 1..6
    BY <1>1
  <2> DEFINE p == Payload[s][(k + 5) \div 6]
             j == ((k - 1) % 6) + 1
  <2>3. p \in Range(Payload[s]) /\ name = OfField(p)[j] /\ j \in 1..6
    BY <1>1, <1>2, <2>1, <2>2 DEF Range
  <2> HIDE DEF p, j
  <2>4. QED
    BY <1>4, <2>3
<1>6. ASSUME NEW p \in Range(Payload[s]), NEW name \in Range(OfField(p)) PROVE name \in Range(C)
  <2>1. PICK i \in 1..n : p = Payload[s][i]
    BY <1>1 DEF Range
  <2>2. PICK j \in 1..6 : name = OfField(p)[j]
    BY <1>4
  <2> DEFINE k == 6 * (i - 1) + j
  <2>3. k \in 1..6 * n /\ (k + 5) \div 6 = i /\ ((k - 1) % 6) + 1 = j
    BY <1>1
  <2> HIDE DEF k
  <2>4. C[k] = name
    BY <1>2, <2>1, <2>2, <2>3
  <2>5. QED
    BY <1>2, <2>3, <2>4 DEF Range
<1>7. Range(Generated[s]) = Range(A) \cup Range(B) \cup Range(C)
  <2> DEFINE T == Range(A) \cup Range(B) \cup Range(C)
  <2>1. A \in Seq(T)
    <3>1. A \in [1..4 -> T]
      BY DEF Range
    <3> HIDE DEF T, A
    <3>2. ASSUME NEW m \in Nat, A \in [1..m -> T] PROVE A \in Seq(T)
      BY <3>2
    <3>3. QED
      BY <3>1, <3>2
  <2>2. B \in Seq(T)
    <3>1. CASE "a-i" \in Range(Payload[s])
      <4>1. B \in [1..2 -> T]
        BY <3>1 DEF Range
      <4> HIDE DEF T, B
      <4>2. QED
        BY <4>1
    <3>2. CASE "a-i" \notin Range(Payload[s])
      BY <3>2, EmptySeq
    <3>3. QED
      BY <3>1, <3>2
  <2>3. C \in Seq(T)
    <3>1. C \in [1..6 * n -> T] /\ 6 * n \in Nat
      BY <1>1, <1>2 DEF Range, OfPayload
    <3> HIDE DEF T, C, n
    <3>2. QED
      BY <3>1
  <2>4. Generated[s] = A \o B \o C
    BY DEF Generated
  <2> HIDE DEF T, A, B, C
  <2>5. A \o B \in Seq(T) /\ Range(A \o B) = Range(A) \cup Range(B)
    BY <2>1, <2>2, ConcatFacts
  <2>6. Range(A \o B \o C) = Range(A \o B) \cup Range(C)
    <3> DEFINE D == A \o B
    <3>1. D \in Seq(T)
      BY <2>5
    <3> HIDE DEF D
    <3>2. Range(D \o C) = Range(D) \cup Range(C)
      BY <2>3, <3>1, ConcatFacts
    <3>3. QED
      BY <3>2 DEF D
  <2>7. QED
    BY <2>4, <2>5, <2>6
<1> HIDE DEF A, B, C
<1>8. QED
  BY <1>3, <1>5, <1>6, <1>7

\* The fields of names that are not in Static, by their place.
LEMMA OfFieldFacts ==
  ASSUME NEW p, NEW name \in Range(OfField(p))
  PROVE  \E n \in 1..3 : /\ DOMAIN name = 1..n /\ Len(name) = n /\ name[n] = p
                         /\ \A k \in 1..n - 1 : name[k] \in {"s", "i", "a-i"}
<1>1. name \in {OfField(p)[j] : j \in 1..6}
  BY DEF OfField, Range
<1>2. name \in {<<p>>, <<"s", p>>, <<"i", p>>, <<"i", "s", p>>, <<"a-i", p>>, <<"a-i", "s", p>>}
  BY <1>1 DEF OfField
<1>3. CASE name = <<p>>
  BY <1>3
<1>4. CASE name \in {<<"s", p>>, <<"i", p>>, <<"a-i", p>>}
  <2>1. DOMAIN name = 1..2 /\ Len(name) = 2 /\ name[2] = p /\ name[1] \in {"s", "i", "a-i"}
    BY <1>4
  <2>2. 2 \in 1..3 /\ 1..2 - 1 = {1}
    OBVIOUS
  <2>3. QED
    BY <2>1, <2>2
<1>5. CASE name \in {<<"i", "s", p>>, <<"a-i", "s", p>>}
  <2>1. /\ DOMAIN name = 1..3 /\ Len(name) = 3 /\ name[3] = p
        /\ name[1] \in {"s", "i", "a-i"} /\ name[2] \in {"s", "i", "a-i"}
    BY <1>5
  <2>2. 3 \in 1..3 /\ 1..3 - 1 = {1, 2}
    OBVIOUS
  <2>3. QED
    BY <2>1, <2>2
<1>6. QED
  BY <1>2, <1>3, <1>4, <1>5

\* Names are sequences of at least one field, and so are the fields they take their keys from.
LEMMA NameFields ==
  ASSUME NEW name \in Names
  PROVE  /\ \E n \in Nat \ {0} : DOMAIN name = 1..n /\ Len(name) = n
         /\ \E n \in Nat : DOMAIN Paths(name) = 1..n
<1>1. \E n \in Nat \ {0} : DOMAIN name = 1..n /\ Len(name) = n
  <2>1. CASE name \in Static \cup {<<"s">>, <<"i">>, <<"ri">>, <<"i", "s">>, <<"a-i">>, <<"a-i", "s">>}
    <3>1. name \in {<<"s">>, <<"i">>, <<"ri">>, <<"a-i">>} \/ name \in {<<"i", "s">>, <<"a-i", "s">>}
      BY <2>1 DEF Static
    <3>2. CASE name \in {<<"s">>, <<"i">>, <<"ri">>, <<"a-i">>}
      <4>1. DOMAIN name = 1..1 /\ Len(name) = 1
        BY <3>2
      <4>2. QED
        BY <4>1
    <3>3. CASE name \in {<<"i", "s">>, <<"a-i", "s">>}
      <4>1. DOMAIN name = 1..2 /\ Len(name) = 2
        BY <3>3
      <4>2. QED
        BY <4>1
    <3>4. QED
      BY <3>1, <3>2, <3>3
  <2>2. ASSUME NEW s \in Schemas, NEW p \in Range(Payload[s]), name \in Range(OfField(p))
        PROVE  \E n \in Nat \ {0} : DOMAIN name = 1..n /\ Len(name) = n
    <3>1. PICK n \in 1..3 : DOMAIN name = 1..n /\ Len(name) = n
      BY <2>2, OfFieldFacts
    <3>2. QED
      BY <3>1
  <2>3. QED
    BY <2>1, <2>2, GeneratedNames DEF Names
<1>2. DOMAIN (<<name[1]>>) = 1..1
  OBVIOUS
<1>3. QED
  BY <1>1, <1>2 DEF Paths

-----------------------------------------------------------------------------
(* The keys *)

\* Keys are sequences of numbers.
LEMMA KeysType ==
  ASSUME NEW name \in Names
  PROVE  /\ Keyed(name) = {c \in Creds : Range(Paths(name)) \subseteq Texts(c)}
         /\ \A c \in Keyed(name) : /\ Keys[name][c] \in Seq(Nat)
                                   /\ Keys[name][c] = FlattenSeq([k \in DOMAIN Paths(name) |-> Sad[c][Paths(name)[k]]])
<1>1. Keyed(name) = {c \in Creds : Range(Paths(name)) \subseteq Texts(c)}
  BY DEF Keyed, Keys
<1>2. ASSUME NEW c \in Keyed(name)
      PROVE  /\ Keys[name][c] \in Seq(Nat)
             /\ Keys[name][c] = FlattenSeq([k \in DOMAIN Paths(name) |-> Sad[c][Paths(name)[k]]])
  <2> DEFINE ss == [k \in DOMAIN Paths(name) |-> Sad[c][Paths(name)[k]]]
  <2>1. Keys[name][c] = FlattenSeq(ss)
    BY <1>1 DEF Keys
  <2>2. PICK n \in Nat : DOMAIN Paths(name) = 1..n
    BY NameFields
  <2>3. Sad[c] \in [DOMAIN Sad[c] -> Seq(Nat)]
    BY <1>1, SadAssumption
  <2>4. \A k \in 1..n : Paths(name)[k] \in DOMAIN Sad[c]
    BY <1>1, <2>2 DEF Range, Texts
  <2>5. ss \in [1..n -> Seq(Nat)]
    BY <2>2, <2>3, <2>4
  <2> HIDE DEF ss
  <2>6. FlattenSeq(ss) \in Seq(Nat)
    BY <2>5, FlattenContents
  <2>7. QED
    BY <2>1, <2>6 DEF ss
<1>3. QED
  BY <1>1, <1>2

\* The order of an index.
LEMMA PrecedesOrder ==
  ASSUME NEW name \in Names, NEW S, S \subseteq Keyed(name)
  PROVE  /\ IsFiniteSet(S) /\ S \subseteq Nat
         /\ StrictOrder({p \in S \X S : Precedes(name, p[1], p[2])}, S)
<1> DEFINE R == {p \in S \X S : Precedes(name, p[1], p[2])}
<1>1. S \subseteq Creds /\ S \subseteq Nat /\ \A c \in S : Keys[name][c] \in Seq(Nat)
  BY KeysType, CredsAssumption
<1>2. IsFiniteSet(S)
  BY <1>1, CredsAssumption, FS_Subset
<1>3. \A x, y \in S : <<x, y>> \in R <=> Precedes(name, x, y)
  OBVIOUS
<1> HIDE DEF R
<1>4. ASSUME NEW x \in S PROVE <<x, x>> \notin R
  <2>1. ~ Before(Keys[name][x], Keys[name][x]) /\ x \in Nat
    BY <1>1, BeforeFacts
  <2>2. ~ Precedes(name, x, x)
    BY <2>1 DEF Precedes
  <2>3. QED
    BY <1>3, <2>2
<1>5. ASSUME NEW x \in S, NEW y \in S, NEW z \in S, <<x, y>> \in R, <<y, z>> \in R PROVE <<x, z>> \in R
  <2> DEFINE u == Keys[name][x]
             v == Keys[name][y]
             w == Keys[name][z]
  <2>1. Precedes(name, x, y) /\ Precedes(name, y, z)
    BY <1>3, <1>5
  <2>2. (Before(u, v) \/ (u = v /\ x < y)) /\ (Before(v, w) \/ (v = w /\ y < z))
    BY <2>1 DEF Precedes
  <2>3. u \in Seq(Nat) /\ v \in Seq(Nat) /\ w \in Seq(Nat)
    BY <1>1
  <2>4. Before(u, v) /\ Before(v, w) => Before(u, w)
    <3> HIDE DEF u, v, w
    <3>1. QED
      BY <2>3, BeforeFacts
  <2>5. x < y /\ y < z => x < z
    BY <1>1
  <2>6. Before(u, w) \/ (u = w /\ x < z)
    <3> HIDE DEF u, v, w
    <3>1. QED
      BY <2>2, <2>4, <2>5
  <2>7. Precedes(name, x, z)
    BY <2>6 DEF Precedes
  <2>8. QED
    BY <1>3, <2>7
<1>6. ASSUME NEW x \in S, NEW y \in S PROVE x = y \/ <<x, y>> \in R \/ <<y, x>> \in R
  <2> DEFINE u == Keys[name][x]
             v == Keys[name][y]
  <2>1. u \in Seq(Nat) /\ v \in Seq(Nat)
    BY <1>1
  <2>2. u = v \/ Before(u, v) \/ Before(v, u)
    <3> HIDE DEF u, v
    <3>1. QED
      BY <2>1, BeforeFacts
  <2>3. x = y \/ x < y \/ y < x
    BY <1>1
  <2>4. x = y \/ Precedes(name, x, y) \/ Precedes(name, y, x)
    BY <2>2, <2>3 DEF Precedes
  <2>5. QED
    BY <1>3, <2>4
<1>7. StrictOrder(R, S)
  BY <1>4, <1>5, <1>6 DEF StrictOrder
<1>8. QED
  BY <1>1, <1>2, <1>7 DEF R

\* A set in an order is a sequence of its elements, each once.
LEMMA InOrderSeq ==
  ASSUME NEW S, IsFiniteSet(S), NEW R, StrictOrder(R, S)
  PROVE  /\ InOrder(S, R) \in Seq(S) /\ Len(InOrder(S, R)) = Cardinality(S)
         /\ Range(InOrder(S, R)) = S /\ IsInjective(InOrder(S, R))
<1> DEFINE s == InOrder(S, R)
           n == Cardinality(S)
<1>1. /\ n \in Nat /\ s \in [1..n -> S]
      /\ \A x \in S : \E k \in 1..n : s[k] = x
      /\ \A j, k \in 1..n : s[j] = s[k] => j = k
  BY InOrderFacts
<1> HIDE DEF s, n
<1>2. s \in Seq(S) /\ Len(s) = n /\ DOMAIN s = 1..n
  BY <1>1
<1>3. Range(s) = S
  BY <1>1, <1>2 DEF Range
<1>4. IsInjective(s)
  BY <1>1, <1>2 DEF IsInjective
<1>5. QED
  BY <1>2, <1>3, <1>4 DEF s, n

\* What of an index is sorted is its elements, each once ...
LEMMA SortedFacts ==
  ASSUME NEW name \in Names, NEW S, S \subseteq Keyed(name)
  PROVE  /\ Sorted(name, S) \in Seq(S) /\ Len(Sorted(name, S)) = Cardinality(S)
         /\ Range(Sorted(name, S)) = S /\ IsInjective(Sorted(name, S))
<1> DEFINE R == {p \in S \X S : Precedes(name, p[1], p[2])}
<1>1. IsFiniteSet(S) /\ StrictOrder(R, S)
  BY PrecedesOrder
<1>2. Sorted(name, S) = InOrder(S, R)
  BY DEF Sorted
<1> HIDE DEF R
<1>3. QED
  BY <1>1, <1>2, InOrderSeq

\* ... and so are credentials in the order of their SAIDs.
LEMMA BySaidFacts ==
  ASSUME NEW S, S \subseteq Creds
  PROVE  BySaid(S) \in Seq(S) /\ Range(BySaid(S)) = S /\ IsInjective(BySaid(S))
<1> DEFINE s == Ascending(S)
           n == Cardinality(S)
<1>1. S \in SUBSET Nat /\ IsFiniteSet(S)
  BY CredsAssumption, FS_Subset
<1>2. /\ n \in Nat /\ s \in [1..n -> S]
      /\ \A x \in S : \E k \in 1..n : s[k] = x
      /\ \A j, k \in 1..n : s[j] = s[k] => j = k
  BY <1>1, AscendingFacts
<1> HIDE DEF s, n
<1>3. s \in Seq(S) /\ DOMAIN s = 1..n
  BY <1>2
<1>4. Range(s) = S /\ IsInjective(s)
  BY <1>2, <1>3 DEF Range, IsInjective
<1>5. QED
  BY <1>3, <1>4 DEF s, BySaid

\* A sorted part of an index is what is left of the sorted index.
LEMMA AmongIndex ==
  ASSUME NEW name \in Names, NEW T, T \subseteq Keyed(name), NEW S, S \subseteq T
  PROVE  Among(Sorted(name, T), S) = Sorted(name, S)
<1> DEFINE R == {p \in T \X T : Precedes(name, p[1], p[2])}
           Q == {p \in S \X S : Precedes(name, p[1], p[2])}
<1>1. IsFiniteSet(T) /\ StrictOrder(R, T)
  BY PrecedesOrder
<1>2. \A x, y \in S : <<x, y>> \in Q <=> <<x, y>> \in R
  OBVIOUS
<1>3. Sorted(name, T) = InOrder(T, R) /\ Sorted(name, S) = InOrder(S, Q)
  BY DEF Sorted
<1> HIDE DEF R, Q
<1>4. T \cap S = S
  OBVIOUS
<1>5. Among(InOrder(T, R), S) = InOrder(T \cap S, Q)
  BY <1>1, <1>2, <1>4, AmongSorted
<1>6. QED
  BY <1>3, <1>4, <1>5

-----------------------------------------------------------------------------
(* What the stores hold *)

\* A credential is in indexes only that are on record for its schema and that index gets to.
IndexedInv ==
  \A name \in Names : \A c \in table[name] : c \in saved /\ name \in Reached[c][schIdx[Schema(c)]]

IInv == TypeOK /\ Len(cues) <= saves /\ IndexedInv

-----------------------------------------------------------------------------
(* The steps *)

\* What a step may do to the stores: schemas get more names on record, the indexes of those names
\* are there, and each credential is in indexes it is allowed to be in.
StoresInv ==
  /\ schIdx \in [Schemas -> Nat] /\ \A s \in Schemas : schIdx[s] <= Len(Generated[s])
  /\ Static \subseteq indexes /\ indexes \subseteq Names
  /\ \A s \in Schemas : \A k \in 1..schIdx[s] : Generated[s][k] \in indexes
  /\ table \in [Names -> SUBSET Creds]
  /\ IndexedInv

\* On record are the first names of a schema, as many as its schIdx.
LEMMA RecordedNames ==
  ASSUME NEW s \in Schemas, schIdx[s] \in 0..Len(Generated[s])
  PROVE  Range(Recorded(s)) = {Generated[s][k] : k \in 1..schIdx[s]}
BY PrefixRange DEF Recorded

\* The types, and that entries are allowed, are what the stores have to keep ...
LEMMA StoresOfTypes == TypeOK /\ IndexedInv => StoresInv
<1> SUFFICES ASSUME TypeOK, IndexedInv PROVE StoresInv
  OBVIOUS
<1>1. ASSUME NEW s \in Schemas, NEW k \in 1..schIdx[s] PROVE Generated[s][k] \in indexes
  <2>1. schIdx[s] \in 0..Len(Generated[s])
    BY GeneratedFacts DEF TypeOK
  <2>2. Range(Recorded(s)) \subseteq indexes
    BY DEF TypeOK
  <2>3. QED
    BY <2>1, <2>2, RecordedNames
<1>2. QED
  BY <1>1 DEF TypeOK, StoresInv

\* ... and with the types of the other variables, all they have to keep.
LEMMA TypesOfStores ==
  /\ saved \subseteq Creds
  /\ cues \in Seq(Creds) /\ Len(cues) <= saves
  /\ saves \in 0..MaxSaves /\ crashes \in 0..MaxCrashes
  /\ StoresInv
  => IInv
<1> SUFFICES ASSUME saved \subseteq Creds, cues \in Seq(Creds), Len(cues) <= saves,
                    saves \in 0..MaxSaves, crashes \in 0..MaxCrashes, StoresInv
             PROVE  IInv
  OBVIOUS
<1>1. \A s \in Schemas : schIdx[s] \in 0..Len(Generated[s])
  BY GeneratedFacts DEF StoresInv
<1>2. ASSUME NEW s \in Schemas PROVE Range(Recorded(s)) \subseteq indexes
  BY <1>1, RecordedNames DEF StoresInv
<1>3. ASSUME NEW name \in Names, NEW c \in table[name] PROVE c \in Keyed(name) /\ name \in indexes
  <2>1. c \in Creds /\ name \in Reached[c][schIdx[Schema(c)]]
    BY DEF StoresInv, IndexedInv
  <2>2. Schema(c) \in Schemas /\ schIdx[Schema(c)] \in 0..Len(Generated[Schema(c)])
    BY <2>1, <1>1, ReachedFacts
  <2>3. c \in Keyed(name)
    BY <2>1, <2>2, ReachedFacts
  <2>4. \E k \in 1..schIdx[Schema(c)] : name = Generated[Schema(c)][k]
    BY <2>1, <2>2, ReachedFacts
  <2>5. QED
    BY <2>2, <2>3, <2>4 DEF StoresInv
<1>4. \A name \in Names : table[name] \subseteq Keyed(name) /\ (name \notin indexes => table[name] = {})
  BY <1>3
<1>5. Len(cues) \in Nat /\ saves \in Nat /\ MaxSaves \in Nat
  BY BoundAssumption, LenProperties
<1>6. Len(cues) <= MaxSaves
  BY <1>5
<1>7. TypeOK
  BY <1>2, <1>4, <1>6 DEF TypeOK, StoresInv
<1>8. QED
  BY <1>7 DEF IInv, StoresInv

\* A step keeps them that puts a schema's first n names on record, if none are yet, and in the
\* indexes puts none but saved credentials of the schema, where they are allowed.
LEMMA FiledStep ==
  ASSUME TypeOK, IndexedInv, NEW s \in Schemas, NEW n \in 0..Len(Generated[s]),
         n = schIdx[s] \/ schIdx[s] = 0,
         schIdx' = [schIdx EXCEPT ![s] = n],
         indexes \subseteq indexes', indexes' \subseteq Names,
         \A k \in 1..n : Generated[s][k] \in indexes',
         table' \in [Names -> SUBSET Creds],
         \A name \in Names : \A c \in table'[name] :
           /\ c \in saved'
           /\ c \in table[name] \/ (Schema(c) = s /\ name \in Reached[c][n])
  PROVE  StoresInv'
<1>1. StoresInv
  BY StoresOfTypes
<1>2. schIdx' \in [Schemas -> Nat] /\ \A r \in Schemas : schIdx'[r] <= Len(Generated[r])
  BY <1>1, GeneratedFacts DEF StoresInv
<1>3. \A r \in Schemas : schIdx'[r] = IF r = s THEN n ELSE schIdx[r]
  BY <1>1 DEF StoresInv
<1>4. \A r \in Schemas : \A k \in 1..schIdx'[r] : Generated[r][k] \in indexes'
  BY <1>1, <1>3 DEF StoresInv
<1>5. ASSUME NEW name \in Names, NEW c \in table'[name]
      PROVE  c \in saved' /\ name \in Reached[c][schIdx'[Schema(c)]]
  <2>1. c \in Creds /\ c \in saved' /\ Schema(c) \in Schemas /\ Reached[c][0] = {}
    BY ReachedFacts
  <2>2. CASE c \in table[name]
    <3>1. name \in Reached[c][schIdx[Schema(c)]]
      BY <1>1, <2>2 DEF IndexedInv, StoresInv
    <3>2. schIdx'[Schema(c)] = schIdx[Schema(c)]
      BY <1>3, <2>1, <3>1
    <3>3. QED
      BY <2>1, <3>1, <3>2
  <2>3. CASE Schema(c) = s /\ name \in Reached[c][n]
    BY <1>3, <2>1, <2>3
  <2>4. QED
    BY <2>2, <2>3
<1>6. IndexedInv'
  BY <1>5 DEF IndexedInv
<1>7. QED
  BY <1>1, <1>2, <1>4, <1>6 DEF StoresInv

\* A step keeps them that leaves the stores alone and forgets no credential.
LEMMA UnmovedStep ==
  ASSUME TypeOK, IndexedInv, UNCHANGED stores, saved \subseteq saved'
  PROVE  StoresInv'
<1>1. StoresInv
  BY StoresOfTypes
<1>2. IndexedInv'
  BY DEF IndexedInv, stores
<1>3. QED
  BY <1>1, <1>2 DEF StoresInv, stores

\* So does the indexing of a saved credential, wherever it is cut short.
LEMMA IndexStep ==
  ASSUME TypeOK, IndexedInv, NEW c \in saved, NEW m \in 0..Worked(c),
         schIdx' = [schIdx EXCEPT ![Schema(c)] = Worked(c)],
         indexes' = indexes \cup Range(SubSeq(Generated[Schema(c)], 1, Worked(c))),
         table' = Filled(c, m), saved' = saved
  PROVE  StoresInv'
<1> DEFINE s == Schema(c)
           n == Worked(c)
           N == Range(SubSeq(Generated[s], 1, n))
<1>1. c \in Creds /\ s \in Schemas
  BY ReachedFacts DEF TypeOK
<1>2. n \in 0..Len(Generated[s]) /\ (n = schIdx[s] \/ schIdx[s] = 0)
  BY <1>1, RecordFacts
<1>3. N = {Generated[s][k] : k \in 1..n}
  BY <1>1, <1>2, PrefixRange
<1>4. N \subseteq Names
  BY <1>1, <1>2, <1>3, GeneratedFacts, ElementOfSeq
<1>5. Reached[c][m] \subseteq Reached[c][n]
  BY <1>1, <1>2, ReachedFacts
<1>6. ASSUME NEW name \in Names
      PROVE  table'[name] = IF name \in Reached[c][m] THEN table[name] \cup {c} ELSE table[name]
  BY DEF Filled, With
<1>7. table' \in [Names -> SUBSET Creds]
  BY <1>1 DEF Filled, With, TypeOK
<1>8. ASSUME NEW name \in Names, NEW d \in table'[name]
      PROVE  /\ d \in saved'
             /\ d \in table[name] \/ (Schema(d) = s /\ name \in Reached[d][n])
  BY <1>5, <1>6, <1>8 DEF IndexedInv
<1>9. /\ indexes \subseteq indexes' /\ indexes' \subseteq Names
      /\ \A k \in 1..n : Generated[s][k] \in indexes'
  BY <1>3, <1>4 DEF TypeOK
<1> HIDE DEF n
<1>10. QED
  BY <1>1, <1>2, <1>7, <1>8, <1>9, FiledStep DEF n

\* So does a deletion, which may forget the credential only when it has cleared all the indexes
\* of its schema that are on record: it is in no other.
LEMMA ClearStep ==
  ASSUME TypeOK, IndexedInv, NEW c \in saved, NEW n \in 0..schIdx[Schema(c)],
         UNCHANGED <<schIdx, indexes>>, table' = Cleared(c, n),
         saved' = saved \/ (n = schIdx[Schema(c)] /\ saved' = saved \ {c})
  PROVE  StoresInv'
<1>1. c \in Creds /\ Schema(c) \in Schemas
  BY ReachedFacts DEF TypeOK
<1>2. ASSUME NEW name \in Names
      PROVE  table'[name] = IF name \in Reached[c][n] THEN table[name] \ {c} ELSE table[name]
  BY DEF Cleared, Without
<1>3. table' \in [Names -> SUBSET Creds]
  BY DEF Cleared, Without, TypeOK
<1>4. ASSUME NEW name \in Names, NEW d \in table'[name] PROVE d \in saved' /\ d \in table[name]
  BY <1>2, <1>4 DEF IndexedInv
<1>5. schIdx' = [schIdx EXCEPT ![Schema(c)] = schIdx[Schema(c)]]
  BY <1>1 DEF TypeOK
<1>6. \A k \in 1..schIdx[Schema(c)] : Generated[Schema(c)][k] \in indexes'
  BY <1>1, StoresOfTypes DEF StoresInv
<1>7. schIdx[Schema(c)] \in 0..Len(Generated[Schema(c)])
  BY <1>1, RecordFacts
<1>8. indexes \subseteq indexes' /\ indexes' \subseteq Names
  BY DEF TypeOK
<1>9. QED
  BY <1>1, <1>3, <1>4, <1>5, <1>6, <1>7, <1>8, FiledStep

\* So does a stop while the names of a schema are put on record.
LEMMA GenerateStep ==
  ASSUME TypeOK, IndexedInv, NEW s \in Schemas, schIdx[s] = 0,
         NEW n \in 0..Len(Generated[s]), NEW m \in {n, n + 1} \cap DOMAIN Generated[s],
         schIdx' = [schIdx EXCEPT ![s] = n],
         indexes' = indexes \cup Range(SubSeq(Generated[s], 1, m)),
         UNCHANGED <<saved, table>>
  PROVE  StoresInv'
<1> DEFINE N == Range(SubSeq(Generated[s], 1, m))
<1>1. m \in 0..Len(Generated[s]) /\ n <= m /\ n \in Nat /\ m \in Nat
  BY GeneratedFacts
<1>2. N = {Generated[s][k] : k \in 1..m}
  BY <1>1, PrefixRange
<1>3. N \subseteq Names
  BY <1>1, <1>2, GeneratedFacts, ElementOfSeq
<1>4. /\ indexes \subseteq indexes' /\ indexes' \subseteq Names
      /\ \A k \in 1..n : Generated[s][k] \in indexes'
  <2>1. indexes' = indexes \cup N /\ indexes \subseteq Names
    BY DEF TypeOK
  <2>2. \A k \in 1..n : Generated[s][k] \in N
    BY <1>1, <1>2
  <2> HIDE DEF N
  <2>3. QED
    BY <1>3, <2>1, <2>2
<1>5. \A name \in Names : \A c \in table'[name] : c \in saved' /\ c \in table[name]
  BY DEF IndexedInv
<1>6. table' \in [Names -> SUBSET Creds]
  BY DEF TypeOK
<1>7. QED
  BY <1>4, <1>5, <1>6, FiledStep

-----------------------------------------------------------------------------
(* The theorems *)

\* The invariant holds in the initial state.
LEMMA InitInv == Init => IInv
<1> SUFFICES ASSUME Init PROVE IInv
  OBVIOUS
<1>1. StoresInv
  BY GeneratedFacts DEF Init, StoresInv, IndexedInv, Names
<1>2. cues \in Seq(Creds) /\ Len(cues) = 0 /\ saved \subseteq Creds
  BY EmptySeq DEF Init
<1>3. saves \in 0..MaxSaves /\ crashes \in 0..MaxCrashes /\ saves = 0
  BY BoundAssumption DEF Init
<1>4. QED
  BY <1>1, <1>2, <1>3, TypesOfStores

\* The queue of cues has no more credentials than were saved.
CuesInv ==
  /\ saved \subseteq Creds
  /\ cues \in Seq(Creds) /\ Len(cues) <= saves
  /\ saves \in 0..MaxSaves /\ crashes \in 0..MaxCrashes

\* A stop loses the cues.
LEMMA StopStep ==
  ASSUME IInv, Stop
  PROVE  CuesInv'
<1>1. cues' \in Seq(Creds) /\ Len(cues') = 0
  BY EmptySeq DEF Stop
<1>2. QED
  BY <1>1, BoundAssumption DEF Stop, IInv, TypeOK, CuesInv

\* Every step keeps the invariant.
LEMMA NextInv == IInv /\ [Next]_vars => IInv'
<1> SUFFICES ASSUME IInv, [Next]_vars PROVE CuesInv' /\ StoresInv'
  BY TypesOfStores, PTL DEF CuesInv
<1>1. TypeOK /\ IndexedInv
  BY DEF IInv
<1>2. CASE SeekerDoer
  <2> DEFINE c == Head(cues)
  <2>1. c \in Creds /\ Tail(cues) \in Seq(Creds) /\ Len(Tail(cues)) = Len(cues) - 1 /\ Len(cues) \in Nat
    BY <1>1, <1>2, HeadTailProperties, LenProperties DEF SeekerDoer, TypeOK
  <2>2. /\ Append(Tail(cues), c) \in Seq(Creds)
        /\ Len(Append(Tail(cues), c)) = Len(cues)
    BY <2>1, AppendProperties
  <2>3. cues' = Tail(cues) \/ cues' = Append(Tail(cues), c)
    BY <1>2 DEF SeekerDoer
  <2>4. CuesInv'
    <3>1. cues' \in Seq(Creds) /\ Len(cues') \in Nat /\ Len(cues') <= Len(cues)
      <4> HIDE DEF c
      <4>1. QED
        BY <2>1, <2>2, <2>3
    <3>2. UNCHANGED <<saved, saves, crashes>>
      BY <1>2 DEF SeekerDoer
    <3>3. saved \subseteq Creds /\ Len(cues) <= saves /\ saves \in 0..MaxSaves /\ crashes \in 0..MaxCrashes
      BY DEF IInv, TypeOK
    <3>4. QED
      BY <2>1, <3>1, <3>2, <3>3, BoundAssumption DEF CuesInv
  <2>5. StoresInv'
    <3>1. CASE c \notin saved
      BY <1>1, <1>2, <3>1, UnmovedStep DEF SeekerDoer
    <3>2. CASE c \in saved
      <4>1. IndexCredential(c) /\ saved' = saved
        BY <1>2, <3>2 DEF SeekerDoer
      <4>2. Worked(c) \in 0..Worked(c)
        BY <1>1, <2>1, RecordFacts
      <4>3. QED
        BY <1>1, <3>2, <4>1, <4>2, IndexStep DEF IndexCredential
    <3>3. QED
      BY <3>1, <3>2
  <2>6. QED
    BY <2>4, <2>5
<1>3. CASE Kill
  BY <1>1, <1>3, StopStep, UnmovedStep DEF Kill, Stop
<1>4. ASSUME NEW n \in Nat, NEW m \in {n, n + 1}, KillGenerate(n, m) PROVE CuesInv' /\ StoresInv'
  <2> DEFINE s == Schema(Head(cues))
  <2>1. s \in Schemas
    BY <1>1, <1>4, ReachedFacts DEF KillGenerate, TypeOK
  <2>2. CuesInv'
    BY <1>4, StopStep DEF KillGenerate
  <2>3. /\ schIdx[s] = 0 /\ n \in 0..Len(Generated[s]) /\ m \in {n, n + 1} \cap DOMAIN Generated[s]
        /\ schIdx' = [schIdx EXCEPT ![s] = n]
        /\ indexes' = indexes \cup Range(SubSeq(Generated[s], 1, m))
        /\ UNCHANGED <<saved, table>>
    BY <1>4 DEF KillGenerate, Stop
  <2> HIDE DEF s
  <2>4. StoresInv'
    BY <1>1, <2>1, <2>3, GenerateStep
  <2>5. QED
    BY <2>2, <2>4
<1>5. ASSUME NEW n \in Nat, KillIndex(n) PROVE CuesInv' /\ StoresInv'
  <2> DEFINE c == Head(cues)
  <2>1. CuesInv'
    BY <1>5, StopStep DEF KillIndex
  <2>2. /\ c \in saved /\ n \in 1..Worked(c)
        /\ schIdx' = [schIdx EXCEPT ![Schema(c)] = Worked(c)]
        /\ indexes' = indexes \cup Range(SubSeq(Generated[Schema(c)], 1, Worked(c)))
        /\ table' = Filled(c, n) /\ saved' = saved
    BY <1>5 DEF KillIndex, Stop
  <2> HIDE DEF c
  <2>3. n \in 0..Worked(c)
    BY <2>2
  <2>4. StoresInv'
    BY <1>1, <2>2, <2>3, IndexStep
  <2>5. QED
    BY <2>1, <2>4
<1>6. ASSUME NEW c \in Creds, NEW n \in Nat, KillDelete(c, n) PROVE CuesInv' /\ StoresInv'
  <2>1. CuesInv'
    BY <1>6, StopStep DEF KillDelete
  <2>2. c \in saved /\ n \in 0..schIdx[Schema(c)] /\ saved' = saved
    BY <1>6 DEF KillDelete, Stop
  <2>3. StoresInv'
    BY <1>1, <1>6, <2>2, ClearStep DEF KillDelete
  <2>4. QED
    BY <2>1, <2>3
<1>7. ASSUME NEW c \in Creds, Save(c) PROVE CuesInv' /\ StoresInv'
  <2>1. Append(cues, c) \in Seq(Creds) /\ Len(Append(cues, c)) = Len(cues) + 1 /\ Len(cues) \in Nat
    BY <1>1, AppendProperties, LenProperties DEF TypeOK
  <2>2. CuesInv'
    BY <1>1, <1>7, <2>1, BoundAssumption DEF Save, IInv, TypeOK, CuesInv
  <2>3. StoresInv'
    BY <1>1, <1>7, UnmovedStep DEF Save
  <2>4. QED
    BY <2>2, <2>3
<1>8. ASSUME NEW c \in Creds, Delete(c) PROVE CuesInv' /\ StoresInv'
  <2>1. CuesInv'
    BY <1>1, <1>8 DEF Delete, IInv, TypeOK, CuesInv
  <2>2. c \in saved /\ schIdx[Schema(c)] \in 0..schIdx[Schema(c)]
    BY <1>1, <1>8, RecordFacts DEF Delete
  <2>3. saved' = saved \/ saved' = saved \ {c}
    BY <1>8 DEF Delete
  <2>4. StoresInv'
    BY <1>1, <1>8, <2>2, <2>3, ClearStep DEF Delete
  <2>5. QED
    BY <2>1, <2>4
<1>9. CASE UNCHANGED vars
  BY <1>1, <1>9, UnmovedStep DEF vars, stores, IInv, TypeOK, CuesInv
<1>10. ASSUME NEW n \in UNION {0..Len(Generated[s]) : s \in Schemas}
       PROVE  n \in Nat
  BY GeneratedFacts
<1>11. QED
  BY <1>2, <1>3, <1>4, <1>5, <1>6, <1>7, <1>8, <1>9, <1>10 DEF Next, Kills

\* So it holds always.
LEMMA Invariant == Spec => []IInv
BY InitInv, NextInv, PTL DEF Spec

\* What the stores and the queue hold: an index that is on record is there, holds only credentials
\* that have its fields, and none before it is created (Seeker.createIndex, Seeker.index).
THEOREM TypeCorrect == Spec => []TypeOK
<1>1. IInv => TypeOK
  BY DEF IInv
<1>2. QED
  BY <1>1, Invariant, PTL

\* A credential that is deleted is in no index, wherever a deletion or an indexing was cut short
\* (CredentialResourceEnd.on_delete, Seeker.unindex).
THEOREM DeletedUnindexed == Spec => []DeletedIsUnindexed
<1>1. IInv => DeletedIsUnindexed
  BY DEF IInv, IndexedInv, DeletedIsUnindexed
<1>2. QED
  BY <1>1, Invariant, PTL

-----------------------------------------------------------------------------
(* The indexes of a process that does not stop *)

\* Unless the process stops, a schema has all of its names on record or none, and a saved
\* credential that waits for no indexing is in all the indexes of its schema.
IndexedFully ==
  crashes = 0 =>
    /\ \A s \in Schemas : schIdx[s] \in {0, Len(Generated[s])}
    /\ \A c \in saved \ Range(cues) : \A name \in Range(Generated[Schema(c)]) : c \in table[name]

\* A credential gets to all the names of its schema that come before one that it does not get to.
LEMMA CompleteFacts ==
  ASSUME NEW c \in Creds
  PROVE  /\ \A n \in 0..Len(Generated[Schema(c)]) : 1..n \subseteq Usable[c]
              => Reached[c][n] = {Generated[Schema(c)][k] : k \in 1..n}
         /\ Range(Generated[Schema(c)]) = {Generated[Schema(c)][k] : k \in 1..Len(Generated[Schema(c)])}
         /\ Range(Generated[Schema(c)]) \subseteq Names
<1> DEFINE s == Schema(c)
<1>1. s \in Schemas
  BY ReachedFacts
<1>2. DOMAIN Generated[s] = 1..Len(Generated[s])
  BY <1>1, GeneratedFacts
<1>3. Range(Generated[s]) = {Generated[s][k] : k \in 1..Len(Generated[s])}
  BY <1>2 DEF Range
<1>4. ASSUME NEW n \in 0..Len(Generated[s]), 1..n \subseteq Usable[c]
      PROVE  Reached[c][n] = {Generated[s][k] : k \in 1..n}
  <2>1. Reached[c][n] = {Generated[s][k] : k \in 1..n \cap Usable[c]}
    BY ReachedFacts
  <2>2. 1..n \cap Usable[c] = 1..n
    BY <1>4
  <2>3. QED
    BY <2>1, <2>2
<1>5. Range(Generated[s]) \subseteq Names
  BY <1>1 DEF Names
<1>6. QED
  BY <1>3, <1>4, <1>5

\* What is in a queue.
LEMMA QueueRange ==
  ASSUME NEW T, NEW s \in Seq(T), NEW x \in T
  PROVE  Range(Append(s, x)) = Range(s) \cup {x} /\ Range(<<x>> \o s) = Range(s) \cup {x}
<1> DEFINE one == <<x>>
<1>1. one \in Seq(T) /\ Range(one) = {x} /\ Append(s, x) = s \o one
  BY AppendIsConcat DEF Range
<1> HIDE DEF one
<1>2. Range(s \o one) = Range(s) \cup Range(one) /\ Range(one \o s) = Range(one) \cup Range(s)
  BY <1>1, ConcatFacts
<1>3. QED
  BY <1>1, <1>2 DEF one

\* It holds in the initial state ...
LEMMA InitFully == Init => IndexedFully
BY DEF Init, IndexedFully

\* ... and every step keeps it: one that indexes a credential only in part leaves its cue, and a
\* deletion that fails is of a credential with a cue.
LEMMA NextFully == IInv /\ IndexedFully /\ [Next]_vars => IndexedFully'
<1> SUFFICES ASSUME IInv, IndexedFully, [Next]_vars, crashes' = 0
             PROVE  /\ \A s \in Schemas : schIdx'[s] \in {0, Len(Generated[s])}
                    /\ \A c \in saved' \ Range(cues') :
                         \A name \in Range(Generated[Schema(c)]) : c \in table'[name]
  BY DEF IndexedFully
<1> DEFINE Records == \A s \in Schemas : schIdx'[s] \in {0, Len(Generated[s])}
           Entered == \A c \in saved' \ Range(cues') :
                        \A name \in Range(Generated[Schema(c)]) : c \in table'[name]
<1>1. TypeOK /\ IndexedInv
  BY DEF IInv
<1>2. ~ Kills
  <2>1. crashes \in Nat
    BY <1>1, BoundAssumption DEF TypeOK
  <2>2. ~ Stop
    BY <2>1 DEF Stop
  <2>3. QED
    BY <2>2 DEF Kills, Kill, KillGenerate, KillIndex, KillDelete
<1>3. /\ cues \in Seq(Creds) /\ saved \subseteq Creds
      /\ schIdx \in [Schemas -> Nat] /\ table \in [Names -> SUBSET Creds]
  BY <1>1 DEF TypeOK
<1>4. CASE SeekerDoer
  <2> DEFINE c == Head(cues)
  <2>1. crashes = 0 /\ cues # <<>> /\ saved' = saved
    BY <1>4 DEF SeekerDoer
  <2>2. /\ \A s \in Schemas : schIdx[s] \in {0, Len(Generated[s])}
        /\ \A d \in saved \ Range(cues) : \A name \in Range(Generated[Schema(d)]) : d \in table[name]
    BY <2>1 DEF IndexedFully
  <2>3. /\ c \in Creds /\ Tail(cues) \in Seq(Creds)
        /\ Range(cues) = {c} \cup Range(Tail(cues))
        /\ Range(Append(Tail(cues), c)) = Range(cues)
    <3>1. c \in Creds /\ Tail(cues) \in Seq(Creds) /\ cues = <<c>> \o Tail(cues)
      BY <1>3, <2>1, HeadTailProperties
    <3> DEFINE s == Tail(cues)
    <3>2. cues = <<c>> \o s /\ s \in Seq(Creds) /\ c \in Creds
      BY <3>1
    <3> HIDE DEF c, s
    <3>3. Range(Append(s, c)) = Range(s) \cup {c} /\ Range(<<c>> \o s) = Range(s) \cup {c}
      BY <3>2, QueueRange
    <3>4. Range(cues) = {c} \cup Range(s) /\ Range(Append(s, c)) = Range(cues)
      BY <3>2, <3>3
    <3>5. QED
      BY <3>2, <3>4 DEF s
  <2>4. CASE c \notin saved
    <3>1. cues' = Append(Tail(cues), c) /\ UNCHANGED stores
      BY <1>4, <2>4 DEF SeekerDoer
    <3>2. QED
      BY <2>1, <2>2, <2>3, <3>1 DEF stores
  <2>5. CASE c \in saved
    <3>1. /\ IndexCredential(c)
          /\ cues' = IF Complete(c) THEN Tail(cues) ELSE Append(Tail(cues), c)
      BY <1>4, <2>5 DEF SeekerDoer
    <3> HIDE DEF c
    <3>2. Schema(c) \in Schemas /\ Worked(c) = Len(Generated[Schema(c)]) /\ Worked(c) \in 0..Len(Generated[Schema(c)])
      BY <1>1, <2>2, <2>3, ReachedFacts, RecordFacts DEF Worked
    <3>3. Records
      BY <1>3, <2>2, <3>1, <3>2 DEF IndexCredential
    <3>4. \A name \in Names : table'[name] = IF name \in Reached[c][Worked(c)] THEN table[name] \cup {c} ELSE table[name]
      BY <3>1 DEF IndexCredential, Filled, With
    <3>5. ASSUME NEW d \in saved' \ Range(cues'), NEW name \in Range(Generated[Schema(d)])
          PROVE  d \in table'[name]
      <4>1. d \in saved /\ d \in Creds /\ name \in Names
        BY <1>3, <2>1, CompleteFacts
      <4>2. CASE d \in Range(cues)
        <5>1. Complete(c) /\ d = c
          BY <2>3, <3>1, <3>5, <4>2
        <5>2. Reached[c][Worked(c)] = Range(Generated[Schema(c)])
          BY <2>3, <3>2, <5>1, CompleteFacts DEF Complete
        <5>3. QED
          BY <3>4, <3>5, <4>1, <5>1, <5>2
      <4>3. CASE d \notin Range(cues)
        BY <2>2, <3>4, <3>5, <4>1, <4>3
      <4>4. QED
        BY <4>2, <4>3
    <3>6. QED
      BY <3>3, <3>5
  <2>6. QED
    BY <2>4, <2>5
<1>5. ASSUME NEW c \in Creds, Save(c) PROVE Records /\ Entered
  <2>1. crashes = 0 /\ UNCHANGED stores /\ saved' = saved \cup {c} /\ cues' = Append(cues, c)
    BY <1>5 DEF Save
  <2>2. Range(cues') = Range(cues) \cup {c}
    <3> DEFINE s == cues
    <3>1. s \in Seq(Creds)
      BY <1>3
    <3> HIDE DEF s
    <3>2. /\ Range(Append(s, c)) = Range(s) \cup {c}
          /\ Range(<<c>> \o s) = Range(s) \cup {c}
      BY <3>1, QueueRange
    <3>3. Range(Append(cues, c)) = Range(cues) \cup {c}
      BY <3>2 DEF s
    <3>4. QED
      BY <2>1, <3>3
  <2>3. saved' \ Range(cues') \subseteq saved \ Range(cues)
    BY <2>1, <2>2
  <2>4. QED
    BY <2>1, <2>3 DEF IndexedFully, stores
<1>6. ASSUME NEW c \in Creds, Delete(c) PROVE Records /\ Entered
  <2>1. /\ crashes = 0 /\ cues' = cues /\ schIdx' = schIdx
        /\ c \in saved /\ table' = Cleared(c, schIdx[Schema(c)])
        /\ saved' = IF Complete(c) THEN saved \ {c} ELSE saved
    BY <1>6 DEF Delete
  <2>2. /\ \A s \in Schemas : schIdx[s] \in {0, Len(Generated[s])}
        /\ \A d \in saved \ Range(cues) : \A name \in Range(Generated[Schema(d)]) : d \in table[name]
    BY <2>1 DEF IndexedFully
  <2>3. \A name \in Names : \A d \in table[name] : d # c => d \in table'[name]
    BY <2>1 DEF Cleared, Without
  <2>4. c \in saved \ Range(cues) => Complete(c)
    <3> SUFFICES ASSUME c \in saved \ Range(cues), NEW k \in 1..Worked(c) PROVE k \in Usable[c]
      BY DEF Complete
    <3>1. /\ Schema(c) \in Schemas /\ Worked(c) \in 0..Len(Generated[Schema(c)])
          /\ DOMAIN Generated[Schema(c)] = 1..Len(Generated[Schema(c)])
          /\ Len(Generated[Schema(c)]) \in Nat
      BY <1>1, ReachedFacts, RecordFacts, GeneratedFacts
    <3>2. \A j \in 1..k : j \in DOMAIN Generated[Schema(c)]
      BY <3>1
    <3>3. ASSUME NEW j \in 1..k PROVE c \in Keyed(Generated[Schema(c)][j])
      <4>1. Generated[Schema(c)][j] \in Range(Generated[Schema(c)])
        BY <3>2 DEF Range
      <4>2. Generated[Schema(c)][j] \in Names
        BY <4>1, CompleteFacts
      <4>3. QED
        BY <1>1, <2>2, <4>1, <4>2 DEF TypeOK
    <3>4. k \in DOMAIN Generated[Schema(c)]
      BY <3>2, <3>1
    <3>5. QED
      BY <3>3, <3>4 DEF Usable
  <2>5. ASSUME NEW d \in saved' \ Range(cues'), NEW name \in Range(Generated[Schema(d)])
        PROVE  d \in table'[name]
    <3>1. d \in saved \ Range(cues) /\ d # c
      BY <2>1, <2>4
    <3>2. name \in Names
      BY <1>3, <3>1, CompleteFacts
    <3>3. QED
      BY <2>2, <2>3, <3>1, <3>2
  <2>6. QED
    BY <2>1, <2>2, <2>5
<1>7. CASE UNCHANGED vars
  BY <1>7 DEF vars, stores, IndexedFully
<1>8. QED
  BY <1>2, <1>4, <1>5, <1>6, <1>7 DEF Next

\* When nothing is to be indexed, an index has the saved credentials whose schema has its name.
LEMMA SettledIndex ==
  ASSUME IInv, IndexedFully, crashes = 0, Settled, NEW name \in Names
  PROVE  /\ table[name] = {c \in saved : name \in Range(Generated[Schema(c)])}
         /\ table[name] \subseteq Keyed(name) /\ saved \subseteq Creds
         /\ indexes \subseteq Names /\ Static \subseteq indexes
         /\ name \notin indexes => table[name] = {}
<1>1. /\ saved \subseteq Creds /\ table[name] \subseteq Creds /\ table[name] \subseteq Keyed(name)
      /\ indexes \subseteq Names /\ Static \subseteq indexes /\ (name \notin indexes => table[name] = {})
  BY DEF IInv, TypeOK
<1>2. ASSUME NEW c \in table[name] PROVE c \in saved /\ name \in Range(Generated[Schema(c)])
  <2>1. c \in saved /\ name \in Reached[c][schIdx[Schema(c)]] /\ c \in Creds
    BY <1>1 DEF IInv, IndexedInv
  <2>2. schIdx[Schema(c)] \in 0..Len(Generated[Schema(c)])
    BY <2>1, RecordFacts DEF IInv
  <2>3. /\ Len(Generated[Schema(c)]) \in Nat
        /\ DOMAIN Generated[Schema(c)] = 1..Len(Generated[Schema(c)])
    BY <2>1, ReachedFacts, GeneratedFacts
  <2>4. PICK k \in 1..schIdx[Schema(c)] : name = Generated[Schema(c)][k]
    BY <2>1, <2>2, ReachedFacts
  <2>5. k \in DOMAIN Generated[Schema(c)]
    BY <2>2, <2>3
  <2>6. QED
    BY <2>1, <2>4, <2>5 DEF Range
<1>3. ASSUME NEW c \in saved, name \in Range(Generated[Schema(c)]) PROVE c \in table[name]
  BY <1>3 DEF IndexedFully, Settled
<1>4. QED
  BY <1>1, <1>2, <1>3

-----------------------------------------------------------------------------
(* The answers *)

\* The states of which FindExact speaks.
Quiet == IInv /\ IndexedFully /\ crashes = 0 /\ Settled

\* A right answer: each credential that meets all the operators, once.
Meets(ops)         == {c \in saved : \A op \in Range(ops) : Holds(op, c)}
Exact(answer, ops) ==
  /\ answer.ok /\ answer.saids \in Seq(saved) /\ IsInjective(answer.saids)
  /\ Range(answer.saids) = Meets(ops)

\* What the indexes hold in such a state.
LEMMA QuietFacts ==
  ASSUME Quiet
  PROVE  /\ saved \subseteq Creds /\ indexes \subseteq Names /\ Static \subseteq indexes
         /\ \A name \in Names : /\ table[name] = {c \in saved : name \in Range(Generated[Schema(c)])}
                                /\ table[name] \subseteq Keyed(name)
                                /\ name \notin indexes => table[name] = {}
<1>1. saved \subseteq Creds /\ indexes \subseteq Names /\ Static \subseteq indexes
  BY DEF Quiet, IInv, TypeOK
<1>2. ASSUME NEW name \in Names
      PROVE  /\ table[name] = {c \in saved : name \in Range(Generated[Schema(c)])}
             /\ table[name] \subseteq Keyed(name)
             /\ name \notin indexes => table[name] = {}
  BY SettledIndex DEF Quiet
<1>3. QED
  BY <1>1, <1>2

\* The names every schema has are those of indexes that have all saved credentials.
LEMMA EverywhereFacts ==
  ASSUME Quiet, NEW name \in Names, Everywhere(name)
  PROVE  table[name] = saved /\ (name \in indexes \/ saved = {})
<1>1. \A c \in saved : name \in Range(Generated[Schema(c)])
  BY QuietFacts, ReachedFacts DEF Everywhere
<1>2. table[name] = saved
  BY <1>1, QuietFacts
<1>3. QED
  BY <1>2, QuietFacts

\* The entries of an index that an operator takes are the credentials it holds for.
LEMMA EntriesFacts ==
  ASSUME Quiet, NEW op, Askable(op.field), Indexed(op)
  PROVE  /\ Entries(op) \in Seq(saved) /\ IsInjective(Entries(op))
         /\ Range(Entries(op)) = {c \in saved : Holds(op, c)}
<1> DEFINE name == <<op.field>>
           S == {c \in table[name] : Holds(op, c)}
<1>1. name \in Names
  BY QuietFacts DEF Indexed
<1>2. S \subseteq Keyed(name) /\ S \subseteq saved
  BY <1>1, QuietFacts
<1>3. \A c \in Creds : op.field \in Texts(c) => name \in Range(Generated[Schema(c)])
  BY <1>1 DEF Askable
<1>4. S = {c \in saved : Holds(op, c)}
  <2>1. \A c \in saved : Holds(op, c) => c \in table[name]
    BY <1>1, <1>3, QuietFacts DEF Holds
  <2>2. QED
    BY <1>2, <2>1
<1>5. Entries(op) = Sorted(name, S)
  BY DEF Entries
<1> HIDE DEF S, name
<1>6. Sorted(name, S) \in Seq(S) /\ Range(Sorted(name, S)) = S /\ IsInjective(Sorted(name, S))
  BY <1>1, <1>2, SortedFacts
<1>7. Entries(op) \in Seq(saved)
  BY <1>2, <1>5, <1>6, SeqMonotonic
<1>8. QED
  BY <1>4, <1>5, <1>6, <1>7

\* A field that has no index, unless nothing is saved, is one of all credentials.
LEMMA UnindexedFacts ==
  ASSUME Quiet, NEW f, Askable(f), <<f>> \notin indexes, saved # {}
  PROVE  <<f>> \notin Names /\ \A c \in Creds : f \in Texts(c)
<1>1. <<f>> \notin Static
  BY QuietFacts
<1>2. ~ (<<f>> \in Names /\ Everywhere(<<f>>))
  BY EverywhereFacts
<1>3. Everywhere(<<f>>) => <<f>> \in Names
  <2>1. Schemas # {}
    BY QuietFacts, ReachedFacts
  <2>2. QED
    BY <2>1 DEF Everywhere, Names
<1>4. QED
  BY <1>1, <1>2, <1>3 DEF Askable

\* A scan of credentials that finds those its one operator holds of, each once.
FindsHolders(s, ops) ==
  LET answer == TableScan(s, ops)
  IN /\ answer.ok /\ answer.saids \in Seq(saved) /\ IsInjective(answer.saids)
     /\ Range(answer.saids) = {c \in Range(s) : Holds(ops[1], c)}

\* A scan for one operator, whose field all credentials have.
LEMMA ScanOne ==
  ASSUME saved \subseteq Creds, NEW s \in Seq(saved), IsInjective(s), NEW ops, DOMAIN ops = 1..1,
         \A c \in Creds : ops[1].field \in Texts(c)
  PROVE  FindsHolders(s, ops)
<1> DEFINE n == Len(s)
           times(k) == Cardinality({i \in DOMAIN ops : Holds(ops[i], s[k])})
           ss == [k \in DOMAIN s |-> [j \in 1..times(k) |-> s[k]]]
           found == FlattenSeq(ss)
<1>1. n \in Nat /\ DOMAIN s = 1..n /\ \A k \in 1..n : s[k] \in saved
  BY LenProperties, ElementOfSeq
<1>2. \A c \in Creds, i \in DOMAIN ops : ~ Fails(ops[i], c)
  BY DEF Fails, Texts
<1>3. TableScan(s, ops) = Answer(found)
  <2>1. \A k \in DOMAIN s : s[k] \in saved /\ \A i \in DOMAIN ops : ~ Fails(ops[i], s[k])
    BY <1>1, <1>2
  <2>2. QED
    BY <2>1 DEF TableScan
<1>4. ASSUME NEW k \in 1..n PROVE times(k) = IF Holds(ops[1], s[k]) THEN 1 ELSE 0
  <2>1. CASE Holds(ops[1], s[k])
    <3>1. {i \in DOMAIN ops : Holds(ops[i], s[k])} = {1}
      BY <2>1
    <3>2. QED
      BY <2>1, <3>1, FS_Singleton
  <2>2. CASE ~ Holds(ops[1], s[k])
    <3>1. {i \in DOMAIN ops : Holds(ops[i], s[k])} = {}
      BY <2>2
    <3>2. QED
      BY <2>2, <3>1, FS_EmptySet
  <2>3. QED
    BY <2>1, <2>2
<1>5. ASSUME NEW k \in 1..n
      PROVE  /\ ss[k] \in Seq(saved) /\ IsInjective(ss[k])
             /\ Range(ss[k]) = IF Holds(ops[1], s[k]) THEN {s[k]} ELSE {}
  <2>1. ss[k] = [j \in 1..times(k) |-> s[k]]
    BY <1>1
  <2>2. times(k) \in Nat /\ times(k) <= 1
    BY <1>4
  <2>3. ss[k] \in [1..times(k) -> saved]
    BY <1>1, <2>1
  <2>4. DOMAIN ss[k] = 1..times(k) /\ \A j \in 1..times(k) : ss[k][j] = s[k]
    BY <2>1
  <2>5. Range(ss[k]) = IF Holds(ops[1], s[k]) THEN {s[k]} ELSE {}
    <3> HIDE DEF ss, times
    <3>1. Range(ss[k]) = {ss[k][j] : j \in 1..times(k)}
      BY <2>4 DEF Range
    <3>2. CASE Holds(ops[1], s[k])
      <4>1. 1..times(k) = {1}
        BY <1>4, <3>2
      <4>2. QED
        BY <2>4, <3>1, <3>2, <4>1
    <3>3. CASE ~ Holds(ops[1], s[k])
      <4>1. 1..times(k) = {}
        BY <1>4, <3>3
      <4>2. QED
        BY <3>1, <3>3, <4>1
    <3>4. QED
      BY <3>2, <3>3
  <2> HIDE DEF ss, times
  <2>6. ss[k] \in Seq(saved)
    BY <2>2, <2>3
  <2>7. IsInjective(ss[k])
    BY <2>2, <2>4 DEF IsInjective
  <2>8. QED
    BY <2>5, <2>6, <2>7
<1>6. ss \in [1..n -> Seq(saved)]
  BY <1>1, <1>5
<1>7. \A j, k \in 1..n : j # k => Range(ss[j]) \cap Range(ss[k]) = {}
  <2>1. \A j, k \in 1..n : j # k => s[j] # s[k]
    BY <1>1 DEF IsInjective
  <2> HIDE DEF ss
  <2>2. QED
    BY <1>5, <2>1
<1> HIDE DEF ss
<1>8. /\ found \in Seq(saved)
      /\ \A x : x \in Range(found) <=> \E k \in 1..n : x \in Range(ss[k])
      /\ /\ \A k \in 1..n : IsInjective(ss[k])
         /\ \A j, k \in 1..n : j # k => Range(ss[j]) \cap Range(ss[k]) = {}
         => IsInjective(found)
  BY <1>1, <1>6, FlattenContents
<1> HIDE DEF found
<1>9. Range(found) = {c \in Range(s) : Holds(ops[1], c)}
  <2>1. \A x : x \in Range(s) <=> \E k \in 1..n : x = s[k]
    BY <1>1 DEF Range
  <2>2. \A x : x \in Range(found) <=> \E k \in 1..n : x = s[k] /\ Holds(ops[1], x)
    BY <1>5, <1>8
  <2>3. QED
    BY <2>1, <2>2
<1>10. Answer(found).ok /\ Answer(found).saids = found
  BY DEF Answer
<1>11. IsInjective(found)
  BY <1>5, <1>7, <1>8
<1>12. QED
  BY <1>3, <1>8, <1>9, <1>10, <1>11 DEF FindsHolders

\* A sequence of operators.
IsFilter(ops) ==
  /\ Len(ops) \in Nat /\ DOMAIN ops = 1..Len(ops) /\ (ops = <<>> <=> Len(ops) = 0)
  /\ ops \in Seq(Range(ops))
  /\ Range(ops) = {ops[k] : k \in 1..Len(ops)}
  /\ \A k \in 1..Len(ops) : ops[k].test \in {"eq", "begins"} /\ ops[k].value \in Seq(Nat)

\* The operators of a query.
LEMMA FilterFacts ==
  ASSUME NEW q \in Queries
  PROVE  IsFilter(q.filter)
<1> DEFINE ops == q.filter
<1> DEFINE Ops == [field : STRING, test : {"eq", "begins"}, value : Seq(Nat)]
<1>1. ops \in Seq(Ops)
  BY QueryAssumption
<1> HIDE DEF Ops, ops
<1>2. Len(ops) \in Nat /\ DOMAIN ops = 1..Len(ops) /\ \A k \in 1..Len(ops) : ops[k] \in Ops
  BY <1>1, LenProperties, ElementOfSeq
<1>3. ops = <<>> <=> Len(ops) = 0
  BY <1>1, EmptySeq
<1>4. ops \in Seq(Range(ops))
  BY <1>1, SeqOfRange
<1>5. \A op \in Ops : op.test \in {"eq", "begins"} /\ op.value \in Seq(Nat)
  BY DEF Ops
<1>6. QED
  BY <1>2, <1>3, <1>4, <1>5 DEF Range, IsFilter, ops

\* A field with names of its own is a payload field of the schemas that have its single index.
LEMMA PayloadField ==
  ASSUME NEW s \in Schemas, NEW p \in Range(Payload[s]), NEW r \in Schemas
  PROVE  /\ <<p>> \in Names
         /\ <<p>> \in Range(Generated[r]) => Range(OfField(p)) \subseteq Range(Generated[r])
<1>1. <<p>> \in Range(OfField(p))
  <2>1. DOMAIN OfField(p) = 1..6 /\ OfField(p)[1] = <<p>>
    BY DEF OfField
  <2>2. QED
    BY <2>1 DEF Range
<1>2. <<p>> \in Names
  BY <1>1, GeneratedNames DEF Names
<1>3. p \notin {"i", "s", "ri"}
  BY PayloadAssumption DEF Schemas
<1>4. ASSUME <<p>> \in Range(Generated[r]) PROVE p \in Range(Payload[r])
  <2>1. <<p>> \notin {<<"s">>, <<"i">>, <<"ri">>, <<"i", "s">>}
    BY <1>3
  <2>2. CASE "a-i" \in Range(Payload[r]) /\ <<p>> \in {<<"a-i">>, <<"a-i", "s">>}
    <3>1. p = "a-i"
      BY <2>2
    <3>2. QED
      BY <2>2, <3>1
  <2>3. ASSUME NEW f \in Range(Payload[r]), <<p>> \in Range(OfField(f)) PROVE p = f
    <3>1. PICK n \in 1..3 : DOMAIN (<<p>>) = 1..n /\ Len(<<p>>) = n /\ (<<p>>)[n] = f
      BY <2>3, OfFieldFacts
    <3>2. n = 1
      BY <3>1
    <3>3. QED
      BY <3>1, <3>2
  <2>4. QED
    BY <1>4, <2>1, <2>2, <2>3, GeneratedNames
<1>5. QED
  BY <1>2, <1>4, GeneratedNames

\* The index of the filter's fields, in their order.
LEMMA TogetherExact ==
  ASSUME Quiet, NEW q \in Queries, Plain(q), NEW ops, ops = q.filter,
         Fields(ops) \in indexes, Len(ops) # 0, Len(ops) # 1,
         \A op \in Range(ops) : op.test = "eq"
  PROVE  Exact(Answer(BySaid({c \in table[Fields(ops)] : Keys[Fields(ops)][c] = Together(ops)})), ops)
<1> DEFINE F == Fields(ops)
           n == Len(ops)
           S == {c \in table[F] : Keys[F][c] = Together(ops)}
<1>1. /\ n \in Nat /\ DOMAIN ops = 1..n /\ Range(ops) = {ops[k] : k \in 1..n}
      /\ \A k \in 1..n : ops[k].value \in Seq(Nat)
  <2>1. IsFilter(ops)
    BY FilterFacts
  <2>2. QED
    BY <2>1 DEF IsFilter
<1>2. DOMAIN F = 1..n /\ \A k \in 1..n : F[k] = ops[k].field
  BY <1>1 DEF Fields
<1>3. F \in Names /\ F \notin Static
  BY QuietFacts DEF Plain
<1>4. PICK s \in Schemas : F \in Range(Generated[s])
  BY <1>3 DEF Names
<1>5. PICK p \in Range(Payload[s]) : F \in Range(OfField(p))
  <2>1. F \notin {<<"s">>, <<"i">>, <<"ri">>, <<"i", "s">>} /\ F \notin {<<"a-i">>, <<"a-i", "s">>}
    BY <1>3 DEF Static
  <2> HIDE DEF F
  <2>2. QED
    BY <1>4, <2>1, GeneratedNames
<1>6. /\ n \in 1..3 /\ F[n] = p
      /\ \A k \in 1..n - 1 : F[k] \in {"s", "i", "a-i"}
  <2>1. PICK m \in 1..3 : /\ DOMAIN F = 1..m /\ F[m] = p
                          /\ \A k \in 1..m - 1 : F[k] \in {"s", "i", "a-i"}
    <3> HIDE DEF F
    <3>1. QED
      BY <1>5, OfFieldFacts
  <2>2. m = n
    <3>1. 1..m = 1..n
      BY <1>2, <2>1
    <3>2. m \in 1..n
      BY <3>1
    <3>3. n \in 1..m
      BY <1>1, <3>1, <3>2
    <3>4. QED
      BY <1>1, <3>2, <3>3
  <2>3. QED
    BY <2>1, <2>2
<1>7. Paths(F) = F
  BY <1>3 DEF Paths
<1>8. ASSUME NEW c \in Keyed(F)
      PROVE  /\ c \in Creds /\ \A k \in 1..n : ops[k].field \in Texts(c)
             /\ Keys[F][c] = Together(ops) <=> \A k \in 1..n : Sad[c][ops[k].field] = ops[k].value
  <2> DEFINE ss == [k \in DOMAIN F |-> Sad[c][F[k]]]
             tt == [k \in DOMAIN ops |-> ops[k].value]
  <2>1. c \in Creds /\ Range(F) \subseteq Texts(c) /\ Keys[F][c] = FlattenSeq(ss)
    <3> HIDE DEF F
    <3>1. QED
      BY <1>3, <1>7, KeysType
  <2>2. \A k \in 1..n : ops[k].field \in Texts(c)
    BY <1>2, <2>1 DEF Range
  <2>3. \A k \in 1..n : Sad[c][ops[k].field] \in Seq(Nat)
    BY <2>1, <2>2, SadAssumption DEF Texts
  <2>4. /\ DOMAIN ss = 1..n /\ \A k \in 1..n : ss[k] = Sad[c][ops[k].field]
        /\ DOMAIN tt = 1..n /\ \A k \in 1..n : tt[k] = ops[k].value
    BY <1>1, <1>2
  <2>5. ss \in [1..n -> Seq(Nat)] /\ tt \in [1..n -> Seq(Nat)]
    BY <1>1, <1>2, <2>3
  <2>6. Together(ops) = FlattenSeq(tt)
    BY DEF Together
  <2>7. ASSUME NEW k \in 1..n - 1 PROVE Len(ss[k]) = Len(tt[k])
    <3>1. k \in 1..n
      BY <1>1
    <3>2. /\ ops[k] \in Range(ops) /\ ops[k].test = "eq"
          /\ ops[k].field \in {"s", "i", "a-i"} \cap Texts(c)
      BY <1>1, <1>2, <1>6, <2>2, <3>1
    <3>3. Len(ops[k].value) = Len(Sad[c][ops[k].field])
      BY <2>1, <3>2 DEF Plain
    <3>4. QED
      BY <2>4, <3>1, <3>3
  <2> HIDE DEF ss, tt, n
  <2>8. n \in Nat \ {0}
    BY <1>1 DEF n
  <2>9. FlattenSeq(ss) = FlattenSeq(tt) <=> \A k \in 1..n : ss[k] = tt[k]
    <3>1. \A k \in 1..n - 1 : Len(ss[k]) = Len(tt[k])
      BY <2>7
    <3>2. Unmixed(ss, tt, n)
      BY <2>5, <2>8, <3>1, FlattenEqual
    <3>3. QED
      BY <3>2 DEF Unmixed
  <2>10. (\A k \in 1..n : ss[k] = tt[k]) <=> \A k \in 1..n : Sad[c][ops[k].field] = ops[k].value
    BY <2>4
  <2>11. QED
    BY <2>1, <2>2, <2>6, <2>9, <2>10 DEF n
<1>9. \A c : (\A op \in Range(ops) : Holds(op, c))
               <=> \A k \in 1..n : ops[k].field \in Texts(c) /\ Sad[c][ops[k].field] = ops[k].value
  <2>1. \A c : (\A op \in Range(ops) : Holds(op, c)) <=> \A k \in 1..n : Holds(ops[k], c)
    BY <1>1
  <2>2. \A k \in 1..n : ops[k].test = "eq"
    BY <1>1
  <2>3. QED
    BY <2>1, <2>2 DEF Holds
<1> HIDE DEF F, n
<1>10. S = Meets(ops)
  <2>1. ASSUME NEW c \in S PROVE c \in Meets(ops)
    BY <1>3, <1>8, <1>9, <2>1, QuietFacts DEF Meets
  <2>2. ASSUME NEW c \in Meets(ops) PROVE c \in S
    <3>1. /\ c \in saved /\ c \in Creds
          /\ \A k \in 1..n : ops[k].field \in Texts(c) /\ Sad[c][ops[k].field] = ops[k].value
      BY <1>9, QuietFacts DEF Meets
    <3>2. p \in Texts(c) /\ Askable(p)
      <4>1. n \in 1..n /\ ops[n].field = p
        BY <1>2, <1>6
      <4>2. QED
        BY <1>1, <3>1, <4>1 DEF Plain
    <3>3. Schema(c) \in Schemas
      BY <3>1, ReachedFacts
    <3>4. <<p>> \in Range(Generated[Schema(c)])
      BY <3>1, <3>2, <3>3, PayloadField DEF Askable
    <3>5. F \in Range(Generated[Schema(c)])
      BY <1>5, <3>3, <3>4, PayloadField
    <3>6. c \in table[F] /\ c \in Keyed(F)
      BY <1>3, <3>1, <3>5, QuietFacts
    <3>7. QED
      BY <1>8, <3>1, <3>6 DEF F
  <2>3. QED
    BY <2>1, <2>2
<1>11. S \subseteq saved /\ saved \subseteq Creds
  BY <1>10, QuietFacts DEF Meets
<1> HIDE DEF S
<1>12. BySaid(S) \in Seq(saved) /\ Range(BySaid(S)) = S /\ IsInjective(BySaid(S))
  BY <1>11, BySaidFacts, SeqMonotonic
<1>13. Exact(Answer(BySaid(S)), ops)
  BY <1>10, <1>12 DEF Exact, Answer
<1>14. QED
  BY <1>13 DEF S, F

\* Of a sequence, the first element, and when there is one.
LEMMA FirstFacts ==
  ASSUME NEW T, NEW s \in Seq(T)
  PROVE  (s = <<>> <=> Range(s) = {}) /\ (s # <<>> => s[1] \in Range(s))
<1>1. Len(s) \in Nat /\ DOMAIN s = 1..Len(s) /\ (s = <<>> <=> Len(s) = 0)
  BY LenProperties, EmptySeq
<1>2. Len(s) # 0 => 1 \in 1..Len(s)
  BY <1>1
<1>3. Len(s) = 0 => 1..Len(s) = {}
  OBVIOUS
<1>4. QED
  BY <1>1, <1>2, <1>3 DEF Range

\* A scan of nothing finds nothing.
LEMMA ScanNone ==
  ASSUME NEW ops
  PROVE  TableScan(<<>>, ops) = Answer(<<>>)
<1> DEFINE ss == [k \in DOMAIN (<<>>) |->
                   [j \in 1..Cardinality({i \in DOMAIN ops : Holds(ops[i], (<<>>)[k])}) |-> (<<>>)[k]]]
<1>1. DOMAIN (<<>>) = {}
  OBVIOUS
<1>2. ss = <<>>
  BY <1>1
<1>3. TableScan(<<>>, ops) = Answer(FlattenSeq(ss))
  BY <1>1 DEF TableScan
<1> HIDE DEF ss
<1>4. FlattenSeq(<<>>) = <<>>
  <2>1. Len(<<>>) = 0
    OBVIOUS
  <2>2. QED
    BY <2>1 DEF FlattenSeq
<1>5. QED
  BY <1>2, <1>3, <1>4

\* At most one operator of a plain query has no index, unless nothing is saved.
LEMMA OneUnindexed ==
  ASSUME Quiet, NEW q \in Queries, Plain(q), NEW ops, ops = q.filter, saved # {}
  PROVE  /\ \A op \in Range(ops) : ~ Indexed(op) => \A c \in Creds : op.field \in Texts(c)
         /\ \A j, k \in 1..Len(ops) : ~ Indexed(ops[j]) /\ ~ Indexed(ops[k]) => j = k
<1>1. DOMAIN ops = 1..Len(ops) /\ Range(ops) = {ops[k] : k \in 1..Len(ops)}
  BY FilterFacts DEF IsFilter
<1>2. ASSUME NEW op \in Range(ops), ~ Indexed(op)
      PROVE  <<op.field>> \notin Names /\ \A c \in Creds : op.field \in Texts(c)
  <2>1. Askable(op.field) /\ <<op.field>> \notin indexes
    BY <1>2 DEF Plain, Indexed
  <2>2. QED
    BY <2>1, UnindexedFacts
<1>3. ASSUME NEW j \in 1..Len(ops), NEW k \in 1..Len(ops), ~ Indexed(ops[j]), ~ Indexed(ops[k])
      PROVE  j = k
  <2>1. ops[j] \in Range(ops) /\ ops[k] \in Range(ops)
    BY <1>1
  <2>2. <<ops[j].field>> \notin Names /\ <<ops[k].field>> \notin Names
    BY <1>2, <1>3, <2>1
  <2>3. {<<ops[j].field>>, <<ops[k].field>>} \cap Names = {}
    BY <2>2
  <2>4. QED
    BY <1>1, <2>3 DEF Plain
<1>4. QED
  BY <1>2, <1>3

\* The way through the indexes of single fields is right ...
LEMMA IndexScanExact ==
  ASSUME Quiet, NEW q \in Queries, Plain(q), NEW ops, ops = q.filter, ops # <<>>
  PROVE  Exact(IndexScan(ops), ops)
<1> DEFINE n == Len(ops)
           I == {op \in Range(ops) : Indexed(op)}
           J == {op \in Range(ops) : ~ Indexed(op)}
           use == Among(ops, I)
           scan == Among(ops, J)
           all == {c \in Creds : \A op \in Range(use) : c \in Range(Entries(op))}
           found == Among(Entries(use[1]), all)
<1>1. /\ n \in Nat \ {0} /\ DOMAIN ops = 1..n /\ Range(ops) = {ops[k] : k \in 1..n}
      /\ ops \in Seq(Range(ops))
  BY FilterFacts DEF IsFilter
<1>2. saved \subseteq Creds
  BY QuietFacts
<1>3. IndexScan(ops) = IF use = <<>> THEN TableScan(BySaid(saved), ops)
                       ELSE IF Entries(use[1]) = <<>> \/ scan = <<>> THEN Answer(found)
                       ELSE TableScan(found, scan)
  BY DEF IndexScan
<1>4. /\ I \cup J = Range(ops)
      /\ \A op \in I : Indexed(op) /\ Askable(op.field)
      /\ \A op \in J : ~ Indexed(op)
  BY DEF Plain
<1>5. use \in Seq(Range(ops)) /\ Range(use) = I
  <2>1. I \subseteq Range(ops)
    OBVIOUS
  <2> HIDE DEF I
  <2>2. use \in Seq(Range(ops)) /\ \A x : x \in Range(use) <=> x \in Range(ops) /\ x \in I
    BY <1>1, AmongSeq
  <2>3. QED
    BY <2>1, <2>2
<1>6. scan \in Seq(Range(ops)) /\ Range(scan) = J
  <2>1. J \subseteq Range(ops)
    OBVIOUS
  <2> HIDE DEF J
  <2>2. scan \in Seq(Range(ops)) /\ \A x : x \in Range(scan) <=> x \in Range(ops) /\ x \in J
    BY <1>1, AmongSeq
  <2>3. QED
    BY <2>1, <2>2
<1>7. ASSUME saved # {}, scan # <<>> PROVE DOMAIN scan = 1..1 /\ J = {scan[1]}
  <2>1. PICK m \in Nat : \E p : Picks(p, m, n, ops, J)
    <3> HIDE DEF J, n
    <3>1. QED
      BY <1>1, AmongFacts
  <2>2. PICK p : Picks(p, m, n, ops, J)
    BY <2>1
  <2>3. /\ p \in [1..m -> 1..n] /\ scan = [i \in 1..m |-> ops[p[i]]]
        /\ \A i, j \in 1..m : p[i] = p[j] => i = j
        /\ \A i \in 1..m : ops[p[i]] \in J
    BY <2>2 DEF Picks
  <2>4. \A i, j \in 1..m : i = j
    <3>1. ASSUME NEW i \in 1..m, NEW j \in 1..m PROVE p[i] = p[j]
      <4>1. p[i] \in 1..n /\ p[j] \in 1..n /\ ~ Indexed(ops[p[i]]) /\ ~ Indexed(ops[p[j]])
        BY <1>4, <2>3
      <4>2. QED
        BY <1>7, <4>1, OneUnindexed
    <3>2. QED
      BY <2>3, <3>1
  <2>5. DOMAIN scan = 1..m
    BY <2>3
  <2> HIDE DEF scan, J
  <2>6. m = 1
    <3>1. 1 \in 1..m
      <4>1. scan[1] \in Range(scan) /\ Range(scan) # {}
        BY <1>6, <1>7, FirstFacts
      <4>2. 1..m # {}
        BY <2>5, <4>1 DEF Range
      <4>3. QED
        BY <4>2
    <3>2. ~ (2 \in 1..m)
      BY <2>4, <3>1
    <3>3. QED
      BY <3>1, <3>2
  <2>7. Range(scan) = {scan[1]}
    <3>1. 1..1 = {1}
      OBVIOUS
    <3>2. QED
      BY <2>5, <2>6, <3>1 DEF Range
  <2>8. QED
    BY <1>6, <2>5, <2>6, <2>7
<1> HIDE DEF I, J, use, scan, all, found
<1>8. CASE use = <<>>
  <2>1. I = {} /\ J = Range(ops)
    BY <1>4, <1>5, <1>8, FirstFacts
  <2>2. CASE saved = {}
    <3>1. BySaid(saved) = <<>>
      BY <1>2, <2>2, BySaidFacts, FirstFacts
    <3>2. IndexScan(ops) = Answer(<<>>)
      BY <1>3, <1>8, <3>1, ScanNone
    <3>3. <<>> \in Seq(saved) /\ Range(<<>>) = {} /\ IsInjective(<<>>)
      BY DEF Range, IsInjective
    <3>4. QED
      BY <2>2, <3>2, <3>3 DEF Exact, Meets, Answer
  <2>3. CASE saved # {}
    <3>1. \A k \in 1..n : ~ Indexed(ops[k])
      BY <1>1, <1>4, <2>1
    <3>2. \A k \in 1..n : k = 1
      <4>1. \A j, k \in 1..Len(ops) : ~ Indexed(ops[j]) /\ ~ Indexed(ops[k]) => j = k
        BY <2>3, OneUnindexed
      <4>2. 1 \in 1..n
        BY <1>1
      <4>3. QED
        BY <1>1, <3>1, <4>1, <4>2
    <3>3. n = 1
      <4>1. n \in 1..n
        BY <1>1
      <4>2. QED
        BY <3>2, <4>1
    <3>4. /\ DOMAIN ops = 1..1 /\ Range(ops) = {ops[1]} /\ ops[1] \in Range(ops)
      BY <1>1, <3>3
    <3>5. \A c \in Creds : ops[1].field \in Texts(c)
      BY <1>4, <2>1, <2>3, <3>4, OneUnindexed
    <3> DEFINE s == BySaid(saved)
    <3>6. s \in Seq(saved) /\ Range(s) = saved /\ IsInjective(s)
      BY <1>2, BySaidFacts
    <3> HIDE DEF s
    <3>7. FindsHolders(s, ops)
      BY <1>2, <3>4, <3>5, <3>6, ScanOne
    <3>8. {c \in Range(s) : Holds(ops[1], c)} = Meets(ops)
      BY <3>4, <3>6 DEF Meets
    <3>9. QED
      BY <1>3, <1>8, <3>7, <3>8 DEF Exact, FindsHolders, s
  <2>4. QED
    BY <2>2, <2>3
<1>9. CASE use # <<>>
  <2>1. use[1] \in I
    BY <1>5, <1>9, FirstFacts
  <2>2. ASSUME NEW op \in I
        PROVE  /\ Entries(op) \in Seq(saved) /\ IsInjective(Entries(op))
               /\ Range(Entries(op)) = {c \in saved : Holds(op, c)}
    BY <1>4, EntriesFacts
  <2> DEFINE E == Entries(use[1])
  <2>3. E \in Seq(saved) /\ IsInjective(E) /\ Range(E) = {c \in saved : Holds(use[1], c)}
    BY <2>1, <2>2
  <2>4. found = Among(E, all)
    BY DEF found
  <2> HIDE DEF E
  <2>5. /\ found \in Seq(saved) /\ IsInjective(found)
        /\ \A x : x \in Range(found) <=> x \in Range(E) /\ x \in all
    BY <2>3, <2>4, AmongSeq
  <2>6. all = {c \in saved : \A op \in I : Holds(op, c)}
    <3>1. all = {c \in Creds : \A op \in I : c \in Range(Entries(op))}
      BY <1>5 DEF all
    <3>2. QED
      BY <1>2, <2>1, <2>2, <3>1
  <2>7. Range(found) = {c \in saved : \A op \in I : Holds(op, c)}
    BY <2>1, <2>3, <2>5, <2>6
  <2>8. CASE E = <<>> \/ scan = <<>>
    <3>1. IndexScan(ops) = Answer(found)
      BY <1>3, <1>9, <2>8 DEF E
    <3>2. Range(found) = Meets(ops)
      <4>1. CASE scan = <<>>
        <5>1. J = {}
          BY <1>6, <4>1, FirstFacts
        <5>2. QED
          BY <1>4, <2>7, <5>1 DEF Meets
      <4>2. CASE E = <<>>
        <5>1. Range(E) = {}
          BY <2>3, <4>2, FirstFacts
        <5>2. \A c \in saved : ~ Holds(use[1], c)
          BY <2>3, <5>1
        <5>3. use[1] \in Range(ops)
          BY <1>4, <2>1
        <5>4. QED
          BY <2>1, <2>7, <5>2, <5>3 DEF Meets
      <4>3. QED
        BY <2>8, <4>1, <4>2
    <3>3. QED
      BY <2>5, <3>1, <3>2 DEF Exact, Answer
  <2>9. CASE E # <<>> /\ scan # <<>>
    <3>1. IndexScan(ops) = TableScan(found, scan)
      BY <1>3, <1>9, <2>9 DEF E
    <3>2. saved # {}
      BY <2>3, <2>9, FirstFacts
    <3>3. DOMAIN scan = 1..1 /\ J = {scan[1]}
      BY <1>7, <2>9, <3>2
    <3>4. scan[1] \in J /\ scan[1] \in Range(ops)
      BY <1>4, <3>3
    <3>5. \A c \in Creds : scan[1].field \in Texts(c)
      BY <1>4, <3>2, <3>4, OneUnindexed
    <3>6. FindsHolders(found, scan)
      BY <1>2, <2>5, <3>3, <3>5, ScanOne
    <3>7. {c \in Range(found) : Holds(scan[1], c)} = Meets(ops)
      BY <1>4, <2>7, <3>3 DEF Meets
    <3>8. QED
      BY <3>1, <3>6, <3>7 DEF Exact, FindsHolders
  <2>10. QED
    BY <2>8, <2>9
<1>10. QED
  BY <1>8, <1>9

\* ... and so is each of the ways to an answer.
LEMMA FoundExact ==
  ASSUME Quiet, NEW q \in Queries, Plain(q), NEW ops, ops = q.filter
  PROVE  Exact(Found(ops), ops)
<1>1. saved \subseteq Creds
  BY QuietFacts
<1>2. /\ Len(ops) \in Nat /\ (ops = <<>> <=> Len(ops) = 0)
      /\ DOMAIN ops = 1..Len(ops) /\ Range(ops) = {ops[k] : k \in 1..Len(ops)}
  BY FilterFacts DEF IsFilter
<1>3. CASE ops = <<>>
  <2>1. Found(ops) = Answer(BySaid(saved))
    BY <1>3 DEF Found
  <2>2. BySaid(saved) \in Seq(saved) /\ Range(BySaid(saved)) = saved /\ IsInjective(BySaid(saved))
    BY <1>1, BySaidFacts
  <2>3. Meets(ops) = saved
    <3>1. Range(ops) = {}
      BY <1>2, <1>3
    <3>2. QED
      BY <3>1 DEF Meets
  <2>4. QED
    BY <2>1, <2>2, <2>3 DEF Exact, Answer
<1>4. CASE ops # <<>> /\ Len(ops) = 1 /\ Indexed(ops[1])
  <2>1. Found(ops) = Answer(Entries(ops[1]))
    BY <1>4 DEF Found
  <2>2. Range(ops) = {ops[1]} /\ ops[1] \in Range(ops)
    BY <1>2, <1>4
  <2>3. Askable(ops[1].field)
    BY <2>2 DEF Plain
  <2>4. /\ Entries(ops[1]) \in Seq(saved) /\ IsInjective(Entries(ops[1]))
        /\ Range(Entries(ops[1])) = {c \in saved : Holds(ops[1], c)}
    BY <1>4, <2>3, EntriesFacts
  <2>5. Meets(ops) = {c \in saved : Holds(ops[1], c)}
    BY <2>2 DEF Meets
  <2>6. QED
    BY <2>1, <2>4, <2>5 DEF Exact, Answer
<1>5. CASE /\ ops # <<>> /\ ~ (Len(ops) = 1 /\ Indexed(ops[1]))
           /\ Fields(ops) \in indexes /\ \A op \in Range(ops) : op.test = "eq"
  <2>1. Found(ops) = Answer(BySaid({c \in table[Fields(ops)] : Keys[Fields(ops)][c] = Together(ops)}))
    BY <1>5 DEF Found
  <2>2. Len(ops) # 1
    <3>1. ASSUME Len(ops) = 1 PROVE Indexed(ops[1])
      <4>1. Fields(ops) = [k \in 1..1 |-> ops[k].field]
        BY <1>2, <3>1 DEF Fields
      <4>2. Fields(ops) = <<ops[1].field>>
        BY <4>1
      <4>3. QED
        BY <1>5, <4>2 DEF Indexed
    <3>2. QED
      BY <1>5, <3>1
  <2>3. Len(ops) # 0
    BY <1>2, <1>5
  <2>4. QED
    BY <1>5, <2>1, <2>2, <2>3, TogetherExact
<1>6. CASE /\ ops # <<>> /\ ~ (Len(ops) = 1 /\ Indexed(ops[1]))
           /\ ~ (Fields(ops) \in indexes /\ \A op \in Range(ops) : op.test = "eq")
  <2>1. Found(ops) = IndexScan(ops)
    BY <1>6 DEF Found
  <2>2. QED
    BY <1>6, <2>1, IndexScanExact
<1>7. QED
  BY <1>3, <1>4, <1>5, <1>6

\* What the answer is, and that no order loses or repeats a credential.
LEMMA FindFacts ==
  ASSUME Quiet, NEW q \in Queries, Plain(q)
  PROVE  /\ Find(q).ok /\ Find(q).saids \in Seq(saved) /\ IsInjective(Find(q).saids)
         /\ Range(Find(q).saids) = Matches(q)
         /\ q.sort \in Names => Find(q).saids = Sorted(q.sort, Matches(q))
<1> DEFINE s == Found(q.filter).saids
           M == Matches(q)
<1>1. Found(q.filter).ok /\ s \in Seq(saved) /\ IsInjective(s) /\ Range(s) = M /\ M \subseteq saved
  <2>1. Exact(Found(q.filter), q.filter)
    BY FoundExact
  <2>2. M = Meets(q.filter) /\ M \subseteq saved
    BY DEF Matches, Meets
  <2>3. QED
    BY <2>1, <2>2 DEF Exact
<1>2. Find(q) = Answer(Order(s, q.sort))
  BY <1>1 DEF Find
<1> DEFINE o == Order(s, q.sort)
<1>3. Find(q).ok /\ Find(q).saids = o
  <2>1. Find(q) = Answer(o)
    BY <1>2
  <2> HIDE DEF o, s
  <2>2. QED
    BY <2>1 DEF Answer
<1>4. indexes \subseteq Names
  BY QuietFacts
<1>5. \A name \in Names : name # <<>>
  <2>1. ASSUME NEW name \in Names, name = <<>> PROVE FALSE
    <3>1. PICK n \in Nat \ {0} : DOMAIN name = 1..n /\ Len(name) = n
      BY NameFields
    <3>2. Len(name) = 0
      BY <2>1
    <3>3. QED
      BY <3>1, <3>2
  <2>2. QED
    BY <2>1
<1>6. CASE q.sort \notin indexes
  <2>1. o = s
    BY <1>6 DEF Order
  <2>2. ASSUME q.sort \in Names PROVE s = Sorted(q.sort, M)
    <3>1. saved = {}
      BY <1>6, <2>2, EverywhereFacts DEF Plain
    <3> HIDE DEF s, M
    <3>2. s = <<>> /\ M = {}
      BY <1>1, <3>1, FirstFacts
    <3>3. M \subseteq Keyed(q.sort)
      BY <3>2
    <3>4. Sorted(q.sort, M) \in Seq(M) /\ Range(Sorted(q.sort, M)) = M
      BY <2>2, <3>3, SortedFacts
    <3>5. Sorted(q.sort, M) = <<>>
      BY <3>2, <3>4, FirstFacts
    <3>6. QED
      BY <3>2, <3>5
  <2> HIDE DEF s, o, M
  <2>3. QED
    BY <1>1, <1>3, <2>1, <2>2 DEF M
<1>7. CASE q.sort \in indexes
  <2>1. q.sort \in Names /\ Everywhere(q.sort)
    BY <1>4, <1>7 DEF Plain
  <2>2. table[q.sort] = saved /\ table[q.sort] \subseteq Keyed(q.sort)
    BY <2>1, EverywhereFacts, QuietFacts
  <2>3. o = Among(Sorted(q.sort, table[q.sort]), M)
    BY <1>1, <1>5, <1>7, <2>1 DEF Order
  <2> HIDE DEF s, o, M
  <2>4. o = Sorted(q.sort, M)
    BY <1>1, <2>1, <2>2, <2>3, AmongIndex
  <2>5. M \subseteq Keyed(q.sort)
    BY <1>1, <2>2
  <2>6. Sorted(q.sort, M) \in Seq(M) /\ Range(Sorted(q.sort, M)) = M /\ IsInjective(Sorted(q.sort, M))
    BY <2>1, <2>5, SortedFacts
  <2>7. o \in Seq(saved)
    BY <1>1, <2>4, <2>6, SeqMonotonic
  <2>8. QED
    BY <1>3, <2>4, <2>6, <2>7 DEF M
<1>8. QED
  BY <1>6, <1>7

\* The pages of a query that is sorted by an index.
LEMMA PagesFacts ==
  ASSUME Quiet, NEW q \in Queries, Plain(q), q.sort \in Names, NEW limit \in 1..Limit
  PROVE  Pages(Find(q).saids, limit) = Sorted(q.sort, Matches(q))
<1> DEFINE s == Find(q).saids
           M == Matches(q)
<1>1. s \in Seq(saved) /\ s = Sorted(q.sort, M) /\ M \subseteq saved
  BY FindFacts DEF Matches
<1>2. /\ table[q.sort] = saved /\ table[q.sort] \subseteq Keyed(q.sort) /\ saved \subseteq Creds
  BY EverywhereFacts, QuietFacts DEF Plain
<1> HIDE DEF s, M
<1>3. Len(s) = Cardinality(M)
  BY <1>1, <1>2, SortedFacts
<1>4. Limit \in Nat /\ Cardinality(M) <= Limit
  BY <1>1, <1>2, CredsAssumption, FS_Subset, FS_CardinalityType DEF Limit
<1>5. limit \in Nat \ {0} /\ Len(s) <= Limit
  BY <1>3, <1>4
<1>6. FlattenSeq([k \in 1..Limit |-> Page(s, (k - 1) * limit, limit)]) = s
  BY <1>1, <1>4, <1>5, PagesJoin
<1>7. QED
  BY <1>1, <1>6 DEF Pages, s, M

\* So both invariants hold.
LEMMA InvariantFully == Spec => [](IInv /\ IndexedFully)
BY InitInv, NextInv, InitFully, NextFully, PTL DEF Spec

\* Unless the process stops, a plain query finds the saved credentials that meet its filter, each
\* once, whichever of the ways to them Cursor takes.
THEOREM FoundExactly == Spec => []FindExact
<1>1. IInv /\ IndexedFully => FindExact
  <2> SUFFICES ASSUME IInv, IndexedFully, crashes = 0, Settled, NEW q \in Queries, Plain(q)
               PROVE  /\ Find(q).ok /\ IsInjective(Find(q).saids)
                      /\ Range(Find(q).saids) = Matches(q)
    BY DEF FindExact
  <2>1. Quiet
    BY DEF Quiet
  <2>2. QED
    BY <2>1, FindFacts
<1>2. QED
  BY <1>1, InvariantFully, PTL

\* The pages of a sorted query, of any size, are its answer in the order of the index.
THEOREM PagesSorted == Spec => []SortedPages
<1>1. IInv /\ IndexedFully => SortedPages
  <2> SUFFICES ASSUME IInv, IndexedFully, crashes = 0, Settled,
                      NEW q \in Queries, Plain(q), q.sort \in Names, NEW limit \in 1..Limit
               PROVE  Pages(Find(q).saids, limit) = Sorted(q.sort, Matches(q))
    BY DEF SortedPages
  <2>1. Quiet
    BY DEF Quiet
  <2>2. QED
    BY <2>1, PagesFacts
<1>2. QED
  BY <1>1, InvariantFully, PTL

=============================================================================
