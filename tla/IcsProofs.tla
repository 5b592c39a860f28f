----------------------------- MODULE IcsProofs ------------------------------
(***************************************************************************)
(* What the expansion does with any calendar, feed, window and budget.     *)
(* The steps of a walk are looked at through two questions only: which     *)
(* days are among them, and whether these rise.  Both survive the putting  *)
(* together of walks (FlattenSeq), and with both the results of a rule are *)
(* a set of days that can be compared with the series.                     *)
(***************************************************************************)
EXTENDS IcsExpand, FiniteSetTheorems, FunctionTheorems, SequenceTheorems, WellFoundedInduction, TLAPS

-----------------------------------------------------------------------------
\* Numbers and ranks.

\* A set of naturals that has an element has a first one.
LEMMA FirstOfASet ==
  ASSUME NEW S \in SUBSET Nat, S # {}
  PROVE  \E i \in S : \A j \in S : i <= j
<1> DEFINE Less == {ss \in Nat \X Nat : ss[1] < ss[2]}
<1>1. IsWellFoundedOn(Less, Nat)
  BY NatLessThanWellFounded DEF OpToRel
<1>2. PICK i \in S : \A j \in S : <<j, i>> \notin Less
  <2> HIDE DEF Less
  <2>1. QED
    BY <1>1, WFMin
<1>3. \A j \in S : ~(j < i)
  BY <1>2
<1>4. QED
  BY <1>3

\* Elements that are told apart by what is up to them are numbered by how much is.
LEMMA RankedOnce ==
  ASSUME NEW S, IsFiniteSet(S), NEW upTo \in [S -> SUBSET S],
         \A i \in S : i \in upTo[i],
         \A i, j \in S : i # j => \/ upTo[i] \subseteq upTo[j] /\ j \notin upTo[i]
                                  \/ upTo[j] \subseteq upTo[i] /\ i \notin upTo[j]
  PROVE  [i \in S |-> Cardinality(upTo[i])] \in Bijection(S, 1..Cardinality(S))
<1> DEFINE n == Cardinality(S)
           f == [i \in S |-> Cardinality(upTo[i])]
<1>1. n \in Nat
  BY FS_CardinalityType
<1>2. ASSUME NEW i \in S PROVE f[i] \in 1..n
  <2>1. IsFiniteSet(upTo[i]) /\ Cardinality(upTo[i]) <= n /\ Cardinality(upTo[i]) \in Nat
    BY FS_Subset, FS_CardinalityType
  <2>2. Cardinality(upTo[i]) # 0
    BY <2>1, FS_EmptySet
  <2>3. QED
    BY <1>1, <2>1, <2>2
<1>3. ASSUME NEW i \in S, NEW j \in S, upTo[i] \subseteq upTo[j], j \notin upTo[i] PROVE f[i] # f[j]
  <2>1. IsFiniteSet(upTo[j]) /\ upTo[i] \in SUBSET upTo[j] /\ upTo[i] # upTo[j]
    BY <1>3, FS_Subset
  <2>2. QED
    BY <2>1, FS_Subset
<1>4. \A i, j \in S : f[i] = f[j] => i = j
  BY <1>3
<1>5. f \in Injection(S, 1..n)
  <2>1. f \in [S -> 1..n]
    BY <1>2
  <2> HIDE DEF f
  <2>2. QED
    BY <1>4, <2>1, Fun_IsInj
<1>6. Cardinality(1..n) = n /\ IsFiniteSet(1..n)
  BY <1>1, FS_Interval
<1>7. f \in Surjection(S, 1..n)
  BY <1>5, <1>6, FS_Injection
<1>8. QED
  BY <1>5, <1>7 DEF Bijection

\* What a bijection to 1..n comes from, by number.
LEMMA Numbered ==
  ASSUME NEW S, NEW n \in Nat, NEW f \in Bijection(S, 1..n),
         NEW g \in [1..n -> S], \A k \in 1..n : f[g[k]] = k
  PROVE  g \in Bijection(1..n, S)
<1>3. \A k, m \in 1..n : g[k] = g[m] => k = m
  OBVIOUS
<1>4. f \in [S -> 1..n] /\ \A i, j \in S : f[i] = f[j] => i = j
  BY DEF Bijection, Injection, IsInjective
<1>5. ASSUME NEW i \in S PROVE f[i] \in 1..n /\ g[f[i]] = i
  BY <1>4
<1>6. QED
  BY <1>3, <1>5 DEF Bijection, Injection, Surjection, IsInjective

\* InOrder lists a set once, from the least number on.
LEMMA InOrderLists ==
  ASSUME NEW days \in SUBSET Int, IsFiniteSet(days)
  PROVE  /\ Cardinality(days) \in Nat
         /\ InOrder(days) \in Bijection(1..Cardinality(days), days)
         /\ \A k \in 1..Cardinality(days) : Cardinality({c \in days : c <= InOrder(days)[k]}) = k
         /\ \A k, m \in 1..Cardinality(days) : k < m => InOrder(days)[k] < InOrder(days)[m]
<1> DEFINE n == Cardinality(days)
           upTo == [d \in days |-> {c \in days : c <= d}]
           f == [d \in days |-> Cardinality(upTo[d])]
           g == InOrder(days)
<1>1. n \in Nat
  BY FS_CardinalityType
<1>2. f \in Bijection(days, 1..n)
  <2>1. upTo \in [days -> SUBSET days]
    OBVIOUS
  <2>2. \A d \in days : d \in upTo[d]
    OBVIOUS
  <2>3. ASSUME NEW c \in days, NEW d \in days, c < d PROVE upTo[c] \subseteq upTo[d] /\ d \notin upTo[c]
    <3>1. \A b \in days : b \in Int
      OBVIOUS
    <3>2. \A b \in days : b <= c => b <= d
      BY <2>3, <3>1
    <3>3. ~(d <= c)
      BY <2>3, <3>1
    <3>4. QED
      BY <3>2, <3>3
  <2>4. \A c, d \in days : c # d => c < d \/ d < c
    OBVIOUS
  <2>5. \A c, d \in days : c # d => \/ upTo[c] \subseteq upTo[d] /\ d \notin upTo[c]
                                    \/ upTo[d] \subseteq upTo[c] /\ c \notin upTo[d]
    BY <2>3, <2>4
  <2> HIDE DEF upTo
  <2>6. QED
    BY <2>1, <2>2, <2>5, RankedOnce
<1>3. \A k \in 1..n : g[k] \in days /\ Cardinality({c \in days : c <= g[k]}) = k
  <2>1. \A k \in 1..n : \E d \in days : f[d] = k
    <3> HIDE DEF f, n
    <3>1. QED
      BY <1>2 DEF Bijection, Surjection
  <2>2. \A k \in 1..n : \E d \in days : Cardinality({c \in days : c <= d}) = k
    BY <2>1
  <2>3. QED
    BY <2>2 DEF InOrder
<1>4. g \in Bijection(1..n, days)
  <2>1. g \in [1..n -> days]
    <3> DEFINE nth(k) == CHOOSE d \in days : Cardinality({c \in days : c <= d}) = k
    <3>1. g = [k \in 1..n |-> nth(k)]
      BY DEF InOrder
    <3> HIDE DEF g, n, nth
    <3>2. \A k \in 1..n : nth(k) \in days
      BY <1>3, <3>1
    <3>3. QED
      BY <3>1, <3>2
  <2>2. \A k \in 1..n : f[g[k]] = k
    BY <1>3
  <2> HIDE DEF f, g, n
  <2>3. QED
    BY <1>1, <1>2, <2>1, <2>2, Numbered
<1>5. \A k \in 1..n : g[k] \in days /\ Cardinality({c \in days : c <= g[k]}) = k
  BY <1>3
<1> HIDE DEF g
<1>6. ASSUME NEW k \in 1..n, NEW m \in 1..n, k < m PROVE g[k] < g[m]
  <2>1. SUFFICES ASSUME ~(g[k] < g[m]) PROVE FALSE
    OBVIOUS
  <2> DEFINE A == {c \in days : c <= g[m]}
             B == {c \in days : c <= g[k]}
  <2>2. g[k] \in days /\ g[m] \in days /\ Cardinality(A) = m /\ Cardinality(B) = k
    BY <1>5
  <2>3. A \in SUBSET B /\ IsFiniteSet(B)
    <3>1. g[k] \in Int /\ g[m] \in Int /\ \A c \in days : c \in Int
      BY <2>2
    <3>2. \A c \in days : c <= g[m] => c <= g[k]
      BY <2>1, <3>1
    <3>3. QED
      BY <3>2, FS_Subset
  <2> HIDE DEF A, B
  <2>4. m <= k
    BY <2>2, <2>3, FS_Subset
  <2>5. QED
    BY <1>1, <1>6, <2>4
<1>7. QED
  BY <1>1, <1>4, <1>5, <1>6 DEF g

\* Order is a rearrangement that makes a sequence of numbers rise.
LEMMA OrderRearranges ==
  ASSUME NEW s, NEW n \in Nat, DOMAIN s = 1..n, \A i \in 1..n : s[i] \in Int
  PROVE  /\ Order(s) \in Bijection(1..n, 1..n)
         /\ \A k, m \in 1..n : k < m => s[Order(s)[k]] <= s[Order(s)[m]]
<1> DEFINE upTo == [i \in 1..n |-> {j \in 1..n : s[j] < s[i] \/ (s[j] = s[i] /\ j <= i)}]
           f == [i \in 1..n |-> Cardinality(upTo[i])]
           g == Order(s)
<1>0. IsFiniteSet(1..n) /\ Cardinality(1..n) = n
  BY FS_Interval
<1>1. upTo \in [1..n -> SUBSET (1..n)]
  OBVIOUS
<1>2. f \in Bijection(1..n, 1..n)
  <2>1. \A i \in 1..n : i \in upTo[i]
    OBVIOUS
  <2>2. ASSUME NEW i \in 1..n, NEW j \in 1..n, s[i] < s[j] \/ (s[i] = s[j] /\ i < j)
        PROVE  upTo[i] \subseteq upTo[j] /\ j \notin upTo[i]
    <3>1. s[i] \in Int /\ s[j] \in Int
      OBVIOUS
    <3>2. ASSUME NEW k \in upTo[i] PROVE k \in upTo[j]
      <4>1. k \in 1..n /\ s[k] \in Int /\ (s[k] < s[i] \/ (s[k] = s[i] /\ k <= i))
        BY <3>2
      <4>2. s[k] < s[j] \/ (s[k] = s[j] /\ k <= j)
        BY <2>2, <3>1, <4>1
      <4>3. QED
        BY <4>1, <4>2
    <3>3. ~(s[j] < s[i] \/ (s[j] = s[i] /\ j <= i))
      BY <2>2, <3>1
    <3>4. QED
      BY <3>2, <3>3
  <2>3. ASSUME NEW i \in 1..n, NEW j \in 1..n, i # j
        PROVE  (s[i] < s[j] \/ (s[i] = s[j] /\ i < j)) \/ (s[j] < s[i] \/ (s[j] = s[i] /\ j < i))
    <3>1. s[i] \in Int /\ s[j] \in Int
      OBVIOUS
    <3>2. QED
      BY <2>3, <3>1
  <2>4. \A i, j \in 1..n : i # j => \/ upTo[i] \subseteq upTo[j] /\ j \notin upTo[i]
                                    \/ upTo[j] \subseteq upTo[i] /\ i \notin upTo[j]
    BY <2>2, <2>3
  <2> HIDE DEF upTo
  <2>5. f \in Bijection(1..n, 1..Cardinality(1..n))
    BY <1>0, <1>1, <2>1, <2>4, RankedOnce
  <2>6. QED
    BY <1>0, <2>5
<1>3. \A k \in 1..n : g[k] \in 1..n /\ Cardinality(upTo[g[k]]) = k
  <2> DEFINE among(i) == {j \in DOMAIN s : s[j] < s[i] \/ (s[j] = s[i] /\ j <= i)}
  <2>1. \A i \in 1..n : Cardinality(among(i)) = Cardinality(upTo[i])
    OBVIOUS
  <2>2. \A k \in 1..n : \E i \in 1..n : f[i] = k
    <3> HIDE DEF f
    <3>1. QED
      BY <1>2 DEF Bijection, Surjection
  <2>3. \A k \in 1..n : \E i \in DOMAIN s : Cardinality(among(i)) = k
    <3>1. \A i \in 1..n : f[i] = Cardinality(upTo[i])
      OBVIOUS
    <3>2. ASSUME NEW k \in 1..n PROVE \E i \in DOMAIN s : Cardinality(among(i)) = k
      <4> HIDE DEF among, f, upTo
      <4>1. PICK i \in 1..n : f[i] = k
        BY <2>2
      <4>2. Cardinality(among(i)) = k
        BY <2>1, <3>1, <4>1
      <4>3. QED
        BY <4>2
    <3> HIDE DEF among
    <3>3. QED
      BY <3>2
  <2>4. \A k \in 1..n : g[k] \in DOMAIN s /\ Cardinality(among(g[k])) = k
    BY <2>3 DEF Order
  <2> HIDE DEF g, among, upTo
  <2>5. QED
    BY <2>1, <2>4
<1>4. g \in Bijection(1..n, 1..n)
  <2>1. g \in [1..n -> 1..n]
    <3> DEFINE nth(k) == CHOOSE i \in DOMAIN s :
                            Cardinality({j \in DOMAIN s : s[j] < s[i] \/ (s[j] = s[i] /\ j <= i)}) = k
    <3>1. g = [k \in DOMAIN s |-> nth(k)]
      BY DEF Order
    <3> HIDE DEF g, nth
    <3>2. \A k \in 1..n : nth(k) \in 1..n
      BY <1>3, <3>1
    <3>3. QED
      BY <3>1, <3>2
  <2> HIDE DEF g, upTo
  <2>2. \A k \in 1..n : f[g[k]] = k
    BY <1>3
  <2> HIDE DEF f
  <2>3. QED
    BY <1>2, <2>1, <2>2, Numbered
<1>5. \A k \in 1..n : g[k] \in 1..n /\ Cardinality(upTo[g[k]]) = k
  BY <1>3
<1> HIDE DEF g
<1>6. ASSUME NEW k \in 1..n, NEW m \in 1..n, k < m PROVE s[g[k]] <= s[g[m]]
  <2>1. g[k] \in 1..n /\ g[m] \in 1..n /\ Cardinality(upTo[g[k]]) = k /\ Cardinality(upTo[g[m]]) = m
    BY <1>5
  <2>2. SUFFICES ASSUME s[g[m]] < s[g[k]] PROVE FALSE
    BY <2>1
  <2>3. upTo[g[m]] \in SUBSET upTo[g[k]]
    <3>1. s[g[k]] \in Int /\ s[g[m]] \in Int
      BY <2>1
    <3>2. ASSUME NEW i \in upTo[g[m]] PROVE i \in upTo[g[k]]
      <4>1. i \in 1..n /\ s[i] \in Int /\ s[i] <= s[g[m]]
        BY <2>1, <3>1, <3>2
      <4>2. s[i] < s[g[k]]
        BY <2>2, <3>1, <4>1
      <4>3. QED
        BY <2>1, <4>1, <4>2
    <3>3. QED
      BY <3>2
  <2>4. IsFiniteSet(upTo[g[k]])
    BY <1>0, <1>1, <2>1, FS_Subset
  <2> HIDE DEF upTo
  <2>5. m <= k
    BY <2>1, <2>3, <2>4, FS_Subset
  <2>6. QED
    BY <1>6, <2>5
<1>7. QED
  BY <1>4, <1>6 DEF g

-----------------------------------------------------------------------------
\* Walks: sequences of days, and of None where the budget alone is asked.

DatesOf(steps) == {i \in DOMAIN steps : steps[i] # None}
DaysIn(steps)  == {steps[i] : i \in DatesOf(steps)}
Rising(steps)  == \A i, j \in DatesOf(steps) : i < j => steps[i] < steps[j]

\* The second of two walks begins after the first has ended.
Ahead(s, t) == \A c \in DaysIn(s), d \in DaysIn(t) : c < d

LEMMA Joined ==
  ASSUME NEW S, NEW s \in Seq(S), NEW t \in Seq(S)
  PROVE  /\ s \o t \in Seq(S)
         /\ DaysIn(s \o t) = DaysIn(s) \cup DaysIn(t)
         /\ Rising(s) /\ Rising(t) /\ Ahead(s, t) => Rising(s \o t)
<1> DEFINE u == s \o t
<1>1. /\ u \in Seq(S) /\ Len(u) = Len(s) + Len(t) /\ Len(s) \in Nat /\ Len(t) \in Nat
      /\ DOMAIN u = 1..(Len(s) + Len(t)) /\ DOMAIN s = 1..Len(s) /\ DOMAIN t = 1..Len(t)
      /\ \A i \in 1..(Len(s) + Len(t)) : u[i] = IF i <= Len(s) THEN s[i] ELSE t[i - Len(s)]
  BY ConcatProperties, LenProperties
<1> HIDE DEF u
<1>2. \A i \in DOMAIN s : i \in DOMAIN u /\ u[i] = s[i]
  BY <1>1
<1>3. \A i \in DOMAIN t : i + Len(s) \in DOMAIN u /\ u[i + Len(s)] = t[i]
  BY <1>1
<1>4. \A i \in DOMAIN u : \/ i \in DOMAIN s /\ u[i] = s[i]
                          \/ i > Len(s) /\ i - Len(s) \in DOMAIN t /\ u[i] = t[i - Len(s)]
  BY <1>1
<1>5. DaysIn(u) = DaysIn(s) \cup DaysIn(t)
  <2>1. \A d \in DaysIn(s) \cup DaysIn(t) : d \in DaysIn(u)
    BY <1>2, <1>3 DEF DaysIn, DatesOf
  <2>2. \A d \in DaysIn(u) : d \in DaysIn(s) \cup DaysIn(t)
    BY <1>4 DEF DaysIn, DatesOf
  <2>3. QED
    BY <2>1, <2>2
<1>6. ASSUME Rising(s), Rising(t), Ahead(s, t) PROVE Rising(u)
  <2> SUFFICES ASSUME NEW i \in DatesOf(u), NEW j \in DatesOf(u), i < j PROVE u[i] < u[j]
    BY DEF Rising
  <2>1. i \in DOMAIN u /\ j \in DOMAIN u /\ u[i] # None /\ u[j] # None
    BY DEF DatesOf
  <2>2. CASE j \in DOMAIN s /\ u[j] = s[j]
    <3>1. i \in DOMAIN s
      BY <1>1, <2>1, <2>2
    <3>2. u[i] = s[i]
      BY <1>2, <3>1
    <3>3. QED
      BY <1>6, <2>1, <2>2, <3>1, <3>2 DEF Rising, DatesOf
  <2>3. CASE /\ i > Len(s) /\ i - Len(s) \in DOMAIN t /\ u[i] = t[i - Len(s)]
             /\ j > Len(s) /\ j - Len(s) \in DOMAIN t /\ u[j] = t[j - Len(s)]
    <3>1. i - Len(s) < j - Len(s)
      BY <1>1, <2>1, <2>3
    <3>2. QED
      BY <1>6, <2>1, <2>3, <3>1 DEF Rising, DatesOf
  <2>4. CASE /\ i \in DOMAIN s /\ u[i] = s[i]
             /\ j > Len(s) /\ j - Len(s) \in DOMAIN t /\ u[j] = t[j - Len(s)]
    <3>1. u[i] \in DaysIn(s) /\ u[j] \in DaysIn(t)
      BY <2>1, <2>4 DEF DaysIn, DatesOf
    <3>2. QED
      BY <1>6, <3>1 DEF Ahead
  <2>5. QED
    BY <1>4, <2>1, <2>2, <2>3, <2>4
<1>7. QED
  BY <1>1, <1>5, <1>6 DEF u

\* What FlattenSeq has after i of the walks.
FlatStep(ss, f, i) == IF i = 1 THEN ss[i] ELSE f[i - 1] \o ss[i]

LEMMA FlatExists ==
  ASSUME NEW ss, NEW n \in Nat
  PROVE  \E f : f = [i \in 1..n |-> FlatStep(ss, f, i)]
<1> DEFINE Flat(f, k) == f = [i \in 1..k |-> FlatStep(ss, f, i)]
           Without    == {k \in 0..n : ~ \E f : Flat(f, k)}
<1>1. SUFFICES ASSUME Without # {} PROVE FALSE
  <2>1. n \in 0..n
    OBVIOUS
  <2>2. QED
    BY <1>1, <2>1
<1> HIDE DEF Flat
<1>2. PICK k \in Without : \A m \in Without : k <= m
  <2>1. Without \in SUBSET Nat
    OBVIOUS
  <2> HIDE DEF Without
  <2>2. QED
    BY <1>1, <2>1, FirstOfASet
<1>3. CASE k = 0
  <2> DEFINE g == [i \in 1..0 |-> 0]
  <2>1. g = [i \in 1..0 |-> FlatStep(ss, g, i)]
    OBVIOUS
  <2>2. Flat(g, 0)
    BY <2>1 DEF Flat
  <2>3. QED
    BY <1>2, <1>3, <2>2
<1>4. CASE k # 0
  <2>1. k \in Nat /\ k - 1 \in 0..n /\ k - 1 \notin Without
    BY <1>2, <1>4
  <2>2. PICK f : Flat(f, k - 1)
    BY <2>1
  <2> DEFINE g == [i \in 1..k |-> IF i = k THEN FlatStep(ss, f, k) ELSE f[i]]
  <2>3. f = [i \in 1..(k - 1) |-> FlatStep(ss, f, i)]
    BY <2>2 DEF Flat
  <2>4. ASSUME NEW i \in 1..k PROVE g[i] = FlatStep(ss, g, i)
    <3>1. i = 1 \/ (i - 1 \in 1..(k - 1) /\ i - 1 # k /\ i - 1 \in 1..k)
      BY <2>1
    <3>2. i # 1 => g[i - 1] = f[i - 1]
      BY <3>1
    <3>3. FlatStep(ss, g, i) = FlatStep(ss, f, i)
      BY <3>2 DEF FlatStep
    <3>4. i # k => f[i] = FlatStep(ss, f, i)
      <4>1. i # k => i \in 1..(k - 1)
        BY <2>1
      <4>2. QED
        BY <2>3, <4>1
    <3>5. g[i] = FlatStep(ss, f, i)
      BY <3>4
    <3>6. QED
      BY <3>3, <3>5
  <2>5. g = [i \in 1..k |-> g[i]]
    OBVIOUS
  <2> HIDE DEF g
  <2>6. g = [i \in 1..k |-> FlatStep(ss, g, i)]
    BY <2>4, <2>5
  <2>7. Flat(g, k)
    BY <2>6 DEF Flat
  <2>8. QED
    BY <1>2, <2>7
<1>5. QED
  BY <1>3, <1>4

\* The first i of some walks, one after the other: their days, in order when each
\* walk rises and begins after the earlier ones.
InTurn(ss) ==
  /\ \A i \in DOMAIN ss : Rising(ss[i])
  /\ \A i, j \in DOMAIN ss : i < j => Ahead(ss[i], ss[j])

LEMMA FlatCollects ==
  ASSUME NEW S, NEW ss \in Seq(Seq(S)),
         NEW f, f = [i \in 1..Len(ss) |-> FlatStep(ss, f, i)]
  PROVE  \A i \in 1..Len(ss) :
           /\ f[i] \in Seq(S)
           /\ DaysIn(f[i]) = UNION {DaysIn(ss[j]) : j \in 1..i}
           /\ InTurn(ss) => Rising(f[i])
<1> DEFINE Good(i) == /\ f[i] \in Seq(S)
                      /\ DaysIn(f[i]) = UNION {DaysIn(ss[j]) : j \in 1..i}
                      /\ InTurn(ss) => Rising(f[i])
           Bad == {i \in 1..Len(ss) : ~Good(i)}
<1>1. SUFFICES ASSUME Bad # {} PROVE FALSE
  OBVIOUS
<1>2. Len(ss) \in Nat /\ DOMAIN ss = 1..Len(ss) /\ \A i \in 1..Len(ss) : ss[i] \in Seq(S)
  OBVIOUS
<1>3. \A i \in 1..Len(ss) : f[i] = FlatStep(ss, f, i)
  OBVIOUS
<1> HIDE DEF Good
<1>4. PICK k \in Bad : \A m \in Bad : k <= m
  <2>1. Bad \in SUBSET Nat
    OBVIOUS
  <2> HIDE DEF Bad
  <2>2. QED
    BY <1>1, <2>1, FirstOfASet
<1>5. k \in 1..Len(ss) /\ ~Good(k)
  BY <1>4
<1>6. CASE k = 1
  <2>1. f[k] = ss[k]
    BY <1>3, <1>5, <1>6 DEF FlatStep
  <2>2. UNION {DaysIn(ss[j]) : j \in 1..k} = DaysIn(ss[k])
    <3>1. 1..k = {k}
      BY <1>6
    <3>2. QED
      BY <3>1
  <2>3. Good(k)
    BY <1>2, <1>5, <2>1, <2>2 DEF Good, InTurn
  <2>4. QED
    BY <1>5, <2>3
<1>7. CASE k # 1
  <2>1. k - 1 \in 1..Len(ss) /\ k - 1 < k /\ k - 1 \notin Bad
    BY <1>2, <1>4, <1>5, <1>7
  <2>2. Good(k - 1)
    BY <2>1
  <2>3. f[k] = f[k - 1] \o ss[k]
    BY <1>3, <1>5, <1>7 DEF FlatStep
  <2>4. f[k - 1] \in Seq(S) /\ ss[k] \in Seq(S)
    BY <1>2, <1>5, <2>2 DEF Good
  <2>5. /\ f[k] \in Seq(S)
        /\ DaysIn(f[k]) = DaysIn(f[k - 1]) \cup DaysIn(ss[k])
        /\ Rising(f[k - 1]) /\ Rising(ss[k]) /\ Ahead(f[k - 1], ss[k]) => Rising(f[k])
    <3> DEFINE joined == f[k - 1] \o ss[k]
    <3>1. /\ joined \in Seq(S)
          /\ DaysIn(joined) = DaysIn(f[k - 1]) \cup DaysIn(ss[k])
          /\ Rising(f[k - 1]) /\ Rising(ss[k]) /\ Ahead(f[k - 1], ss[k]) => Rising(joined)
      BY <2>4, Joined
    <3>2. f[k] = joined
      BY <2>3
    <3> HIDE DEF joined
    <3>3. QED
      BY <3>1, <3>2
  <2>6. DaysIn(f[k - 1]) = UNION {DaysIn(ss[j]) : j \in 1..(k - 1)}
    BY <2>2 DEF Good
  <2>7. 1..k = (1..(k - 1)) \cup {k}
    BY <1>5, <2>1
  <2>8. DaysIn(f[k]) = UNION {DaysIn(ss[j]) : j \in 1..k}
    BY <2>5, <2>6, <2>7
  <2>9. ASSUME InTurn(ss) PROVE Rising(f[k])
    <3>1. Rising(f[k - 1]) /\ Rising(ss[k])
      BY <1>2, <1>5, <2>2, <2>9 DEF Good, InTurn
    <3>2. \A j \in 1..(k - 1) : j \in DOMAIN ss /\ j < k
      BY <1>2, <1>5
    <3>3. \A j \in 1..(k - 1) : Ahead(ss[j], ss[k])
      BY <1>2, <1>5, <2>9, <3>2 DEF InTurn
    <3>4. Ahead(f[k - 1], ss[k])
      BY <2>6, <3>3 DEF Ahead
    <3>5. QED
      BY <2>5, <3>1, <3>4
  <2>10. Good(k)
    BY <2>5, <2>8, <2>9 DEF Good
  <2>11. QED
    BY <1>5, <2>10
<1>8. QED
  BY <1>6, <1>7

LEMMA FlattenCollects ==
  ASSUME NEW S, NEW ss \in Seq(Seq(S))
  PROVE  /\ FlattenSeq(ss) \in Seq(S)
         /\ DaysIn(FlattenSeq(ss)) = UNION {DaysIn(ss[j]) : j \in DOMAIN ss}
         /\ InTurn(ss) => Rising(FlattenSeq(ss))
<1> DEFINE n == Len(ss)
           flat[i \in 1..n] == IF i = 1 THEN ss[i] ELSE flat[i - 1] \o ss[i]
<1>1. n \in Nat /\ DOMAIN ss = 1..n
  OBVIOUS
<1>2. CASE n = 0
  <2>1. FlattenSeq(ss) = ss /\ ss = <<>> /\ DOMAIN ss = {}
    BY <1>1, <1>2 DEF FlattenSeq
  <2>2. <<>> \in Seq(S) /\ DOMAIN <<>> = {}
    BY EmptySeq
  <2>3. QED
    BY <2>1, <2>2 DEF DaysIn, DatesOf, Rising
<1>3. CASE n # 0
  <2>1. PICK g : g = [i \in 1..n |-> FlatStep(ss, g, i)]
    BY <1>1, FlatExists
  <2>2. flat = [i \in 1..n |-> IF i = 1 THEN ss[i] ELSE flat[i - 1] \o ss[i]]
    BY <2>1 DEF FlatStep
  <2>3. FlattenSeq(ss) = flat[n]
    BY <1>3 DEF FlattenSeq
  <2> HIDE DEF flat
  <2>4. flat = [i \in 1..Len(ss) |-> FlatStep(ss, flat, i)]
    BY <2>2 DEF FlatStep
  <2>5. \A i \in 1..Len(ss) :
           /\ flat[i] \in Seq(S)
           /\ DaysIn(flat[i]) = UNION {DaysIn(ss[j]) : j \in 1..i}
           /\ InTurn(ss) => Rising(flat[i])
    BY <2>4, FlatCollects
  <2>6. n \in 1..Len(ss)
    BY <1>1, <1>3
  <2> HIDE DEF n
  <2>7. /\ flat[n] \in Seq(S)
        /\ DaysIn(flat[n]) = UNION {DaysIn(ss[j]) : j \in 1..n}
        /\ InTurn(ss) => Rising(flat[n])
    BY <2>5, <2>6
  <2>8. QED
    BY <1>1, <2>3, <2>7
<1>4. QED
  BY <1>2, <1>3

-----------------------------------------------------------------------------
\* What is on the walks.

Entry == Day \cup {None}

LEMMA Days == Day \in SUBSET Nat /\ Day \in SUBSET Int /\ IsFiniteSet(Day) /\ Day \in SUBSET Entry /\ None \notin Day
<1> DEFINE x == FirstOf[Len(FirstOf)]
<1>1. x \in Nat
  BY IcsAssumption
<1>2. Day = 0..(x - 1)
  BY DEF Day
<1>3. None \notin Day
  BY IcsAssumption
<1> HIDE DEF x
<1>4. 0 \in Int /\ x - 1 \in Int
  BY <1>1
<1>5. IsFiniteSet(0..(x - 1))
  BY <1>4, FS_Interval
<1>6. QED
  BY <1>1, <1>2, <1>3, <1>5 DEF Entry

\* A finite set of numbers in order.
LEMMA InOrderIsSeq ==
  ASSUME NEW days \in SUBSET Int, IsFiniteSet(days)
  PROVE  /\ InOrder(days) \in Seq(days)
         /\ DOMAIN InOrder(days) = 1..Cardinality(days) /\ Cardinality(days) \in Nat
         /\ \A d \in days : \E k \in DOMAIN InOrder(days) : InOrder(days)[k] = d
         /\ \A k \in DOMAIN InOrder(days) : InOrder(days)[k] \in days
         /\ \A k, m \in DOMAIN InOrder(days) : k < m => InOrder(days)[k] < InOrder(days)[m]
<1> DEFINE n == Cardinality(days)
           s == InOrder(days)
<1>1. n \in Nat /\ s \in Bijection(1..n, days) /\ \A k, m \in 1..n : k < m => s[k] < s[m]
  BY InOrderLists
<1> HIDE DEF n, s
<1>2. s \in [1..n -> days] /\ \A d \in days : \E k \in 1..n : s[k] = d
  BY <1>1 DEF Bijection, Injection, Surjection
<1>3. s \in Seq(days)
  BY <1>1, <1>2, SeqDef
<1>4. QED
  BY <1>1, <1>2, <1>3 DEF n, s

LEMMA TicksAreNone ==
  ASSUME NEW n \in Nat
  PROVE  Ticks(n) \in Seq(Entry) /\ DaysIn(Ticks(n)) = {} /\ Rising(Ticks(n))
<1>1. DOMAIN Ticks(n) = 1..n /\ \A i \in 1..n : Ticks(n)[i] = None
  BY DEF Ticks
<1>2. Ticks(n) \in [1..n -> Entry]
  BY DEF Ticks, Entry
<1>3. Ticks(n) \in Seq(Entry)
  BY <1>2, SeqDef
<1>4. DatesOf(Ticks(n)) = {}
  BY <1>1 DEF DatesOf
<1>5. QED
  BY <1>3, <1>4 DEF DaysIn, Rising

\* One turn of a walk: the budget is asked, and a day may be added.
LEMMA OneTurn ==
  ASSUME NEW d \in Day
  PROVE  /\ <<None, d>> \in Seq(Entry) /\ DaysIn(<<None, d>>) = {d} /\ Rising(<<None, d>>)
         /\ <<None>> \in Seq(Entry) /\ DaysIn(<<None>>) = {} /\ Rising(<<None>>)
<1>1. d # None /\ d \in Entry /\ None \in Entry
  BY Days DEF Entry
<1>2. <<None, d>> \in Seq(Entry) /\ <<None>> \in Seq(Entry)
  BY <1>1
<1>3. DatesOf(<<None, d>>) = {2}
  BY <1>1 DEF DatesOf
<1>4. DatesOf(<<None>>) = {}
  BY DEF DatesOf
<1>5. QED
  BY <1>2, <1>3, <1>4 DEF DaysIn, Rising

LEMMA RoundsCollect ==
  ASSUME NEW rounds \in Seq(Seq(Entry))
  PROVE  /\ Rounds(rounds) \in Seq(Entry)
         /\ DaysIn(Rounds(rounds)) = UNION {DaysIn(rounds[j]) : j \in DOMAIN rounds}
         /\ InTurn(rounds) => Rising(Rounds(rounds))
<1> DEFINE s == FlattenSeq(rounds)
           t == Ticks(1)
<1>1. /\ s \in Seq(Entry)
      /\ DaysIn(s) = UNION {DaysIn(rounds[j]) : j \in DOMAIN rounds}
      /\ InTurn(rounds) => Rising(s)
  BY FlattenCollects
<1>2. t \in Seq(Entry) /\ DaysIn(t) = {} /\ Rising(t)
  BY TicksAreNone
<1>3. Rounds(rounds) = s \o t
  BY DEF Rounds
<1> HIDE DEF s, t
<1>4. Ahead(s, t)
  BY <1>2 DEF Ahead
<1>5. /\ s \o t \in Seq(Entry) /\ DaysIn(s \o t) = DaysIn(s) \cup DaysIn(t)
      /\ Rising(s) /\ Rising(t) /\ Ahead(s, t) => Rising(s \o t)
  BY <1>1, <1>2, Joined
<1> DEFINE u == s \o t
<1>6. Rounds(rounds) = u /\ u \in Seq(Entry) /\ DaysIn(u) = DaysIn(s) /\ (InTurn(rounds) => Rising(u))
  BY <1>1, <1>2, <1>3, <1>4, <1>5
<1> HIDE DEF u
<1>7. QED
  BY <1>1, <1>6

\* Rounds that take some days in order, one or none in each, and a budget step.
LEMMA RoundsOfDays ==
  ASSUME NEW days \in SUBSET Day, NEW on \in SUBSET Day
  PROVE  LET walk == Rounds([i \in DOMAIN InOrder(days) |->
                       IF InOrder(days)[i] \in on THEN <<None, InOrder(days)[i]>> ELSE <<None>>])
         IN walk \in Seq(Entry) /\ Rising(walk) /\ DaysIn(walk) = days \cap on
<1> DEFINE s == InOrder(days)
           n == Cardinality(days)
           turn(d) == IF d \in on THEN <<None, d>> ELSE <<None>>
           rounds == [i \in DOMAIN s |-> turn(s[i])]
<1>1. /\ DOMAIN s = 1..n /\ n \in Nat
      /\ \A d \in days : \E k \in 1..n : s[k] = d
      /\ \A k \in 1..n : s[k] \in days
      /\ \A k, m \in 1..n : k < m => s[k] < s[m]
  <2>1. days \in SUBSET Int /\ IsFiniteSet(days)
    BY Days, FS_Subset
  <2>2. QED
    BY <2>1, InOrderIsSeq
<1>2. ASSUME NEW d \in days
      PROVE  turn(d) \in Seq(Entry) /\ Rising(turn(d)) /\ DaysIn(turn(d)) = {d} \cap on
  <2>1. d \in Day
    OBVIOUS
  <2>2. CASE d \in on
    BY <2>1, <2>2, OneTurn
  <2>3. CASE d \notin on
    BY <2>1, <2>3, OneTurn
  <2>4. QED
    BY <2>2, <2>3
<1> HIDE DEF s, n, turn
<1>3. DOMAIN rounds = 1..n /\ \A i \in 1..n : rounds[i] = turn(s[i])
  BY <1>1
<1>4. rounds \in Seq(Seq(Entry))
  <2>1. \A i \in 1..n : turn(s[i]) \in Seq(Entry)
    BY <1>1, <1>2
  <2>2. rounds \in [1..n -> Seq(Entry)]
    BY <1>1, <2>1
  <2>3. QED
    BY <1>1, <2>2, SeqDef
<1> HIDE DEF rounds
<1>5. InTurn(rounds)
  <2>1. \A i \in 1..n : Rising(rounds[i]) /\ DaysIn(rounds[i]) = {s[i]} \cap on
    BY <1>1, <1>2, <1>3
  <2>2. ASSUME NEW i \in 1..n, NEW j \in 1..n, i < j PROVE Ahead(rounds[i], rounds[j])
    BY <1>1, <2>1, <2>2 DEF Ahead
  <2>3. QED
    BY <1>3, <2>1, <2>2 DEF InTurn
<1>6. UNION {DaysIn(rounds[j]) : j \in DOMAIN rounds} = days \cap on
  <2>1. \A i \in 1..n : DaysIn(rounds[i]) = {s[i]} \cap on
    BY <1>1, <1>2, <1>3
  <2>2. \A d \in UNION {DaysIn(rounds[j]) : j \in DOMAIN rounds} : d \in days \cap on
    BY <1>1, <1>3, <2>1
  <2>3. ASSUME NEW d \in days \cap on PROVE d \in UNION {DaysIn(rounds[j]) : j \in DOMAIN rounds}
    <3>1. PICK k \in 1..n : s[k] = d
      BY <1>1, <2>3
    <3>2. d \in DaysIn(rounds[k]) /\ k \in DOMAIN rounds
      BY <1>3, <2>1, <2>3, <3>1
    <3>3. QED
      BY <3>2
  <2>4. QED
    BY <2>2, <2>3
<1>7. Rounds(rounds) \in Seq(Entry) /\ Rising(Rounds(rounds)) /\ DaysIn(Rounds(rounds)) = days \cap on
  BY <1>4, <1>5, <1>6, RoundsCollect
<1>8. QED
  BY <1>7 DEF rounds, turn, s


-----------------------------------------------------------------------------
\* The days of a month, and what a rule selects of them.

LEMMA MonthsOf ==
  ASSUME NEW d \in Day
  PROVE  MonthOf(d) \in Month /\ FirstOf[MonthOf(d)] <= d /\ d < FirstOf[MonthOf(d) + 1]
<1> DEFINE n == Len(FirstOf)
           After == {k \in 1..n : d < FirstOf[k]}
<1>1. n \in Nat /\ n > 1 /\ FirstOf[1] = 0 /\ \A k \in 1..n : FirstOf[k] \in Nat
  BY IcsAssumption
<1>2. d \in Nat /\ d <= FirstOf[n] - 1 /\ FirstOf[n] \in Nat
  <2>1. FirstOf[n] \in Nat
    BY <1>1
  <2> DEFINE x == FirstOf[n]
  <2>2. d \in 0..(x - 1)
    BY DEF Day
  <2>3. x \in Nat
    BY <2>1
  <2> HIDE DEF x
  <2>4. d \in Nat /\ d <= x - 1
    BY <2>2, <2>3
  <2>5. QED
    BY <2>3, <2>4 DEF x
<1>3. n \in After /\ 1 \notin After /\ After \in SUBSET Nat
  BY <1>1, <1>2
<1>4. PICK k \in After : \A j \in After : k <= j
  <2> HIDE DEF After
  <2>1. QED
    BY <1>3, FirstOfASet
<1>5. k - 1 \in 1..n /\ k - 1 \notin After /\ k - 1 \in Month /\ (k - 1) + 1 = k
  BY <1>1, <1>3, <1>4 DEF Month
<1>6. FirstOf[k - 1] <= d /\ d < FirstOf[(k - 1) + 1]
  BY <1>1, <1>2, <1>4, <1>5
<1>7. \E m \in Month : FirstOf[m] <= d /\ d < FirstOf[m + 1]
  BY <1>5, <1>6
<1>8. QED
  BY <1>7 DEF MonthOf

\* Some of the days, in order.
LEMMA SomeDays ==
  ASSUME NEW days \in SUBSET Day
  PROVE  InOrder(days) \in Seq(Day)
<1>1. days \in SUBSET Int /\ IsFiniteSet(days)
  BY Days, FS_Subset
<1>2. InOrder(days) \in Seq(days)
  BY <1>1, InOrderIsSeq
<1>3. QED
  BY <1>2

LEMMA NthIsOne ==
  ASSUME NEW S, NEW s \in Seq(S), NEW pos \in Int
  PROVE  Nth(s, pos) \in Seq(S)
<1> DEFINE i == IF pos < 0 THEN Len(s) + pos + 1 ELSE pos
<1>1. Nth(s, pos) = IF i \in DOMAIN s THEN <<s[i]>> ELSE <<>>
  BY DEF Nth
<1>2. \A k \in DOMAIN s : s[k] \in S
  OBVIOUS
<1> HIDE DEF i
<1>3. CASE i \in DOMAIN s
  <2>1. s[i] \in S
    BY <1>2, <1>3
  <2>2. <<s[i]>> \in Seq(S)
    BY <2>1
  <2>3. QED
    BY <1>1, <1>3, <2>2
<1>4. CASE i \notin DOMAIN s
  BY <1>1, <1>4, EmptySeq
<1>5. QED
  BY <1>3, <1>4

LEMMA SortedDays ==
  ASSUME NEW s \in Seq(Day)
  PROVE  Sorted(s) \in Seq(Day)
<1> DEFINE n == Len(s)
           g == Order(s)
<1>1. n \in Nat /\ DOMAIN s = 1..n /\ \A i \in 1..n : s[i] \in Day
  OBVIOUS
<1>2. \A i \in 1..n : s[i] \in Int
  BY <1>1, Days
<1>3. g \in Bijection(1..n, 1..n)
  BY <1>1, <1>2, OrderRearranges
<1>4. g \in [1..n -> 1..n]
  BY <1>3 DEF Bijection, Injection
<1> HIDE DEF g
<1>5. At(s, g) \in [1..n -> Day]
  BY <1>1, <1>4 DEF At
<1>6. QED
  BY <1>1, <1>5, SeqDef DEF Sorted, g

\* The sequences a rule is built from.
WeekdayPart == [ord: Int, weekday: 0..(Week - 1)]

LEMMA RuleParts ==
  ASSUME NEW r \in Rule
  PROVE  /\ r.interval \in Nat /\ r.interval > 0 /\ r.count \in Nat /\ r.until \in Day \cup {None}
         /\ r.byDay \in Seq(WeekdayPart) /\ r.byMonth \in Seq(1..MonthsPerYear)
         /\ r.byMonthDay \in Seq(Int) /\ r.bySetPos \in Seq(Int)
         /\ r.freq \in {"DAILY", "WEEKLY", "MONTHLY", "YEARLY", "HOURLY"}
<1>1. /\ r.interval \in Nat /\ r.interval > 0 /\ r.count \in Nat /\ r.until \in Day \cup {None}
      /\ r.byDay \in Seq(WeekdayPart) /\ r.byMonth \in Seq(1..MonthsPerYear)
      /\ r.freq \in {"DAILY", "WEEKLY", "MONTHLY", "YEARLY", "HOURLY"}
  BY DEF Rule, WeekdayPart
<1>2. r.byMonthDay \in Seq(Int \ {0}) /\ r.bySetPos \in Seq(Int \ {0})
  BY DEF Rule
<1>3. \A s \in Seq(Int \ {0}) : s \in Seq(Int)
  OBVIOUS
<1>4. QED
  BY <1>1, <1>2, <1>3

LEMMA ByDayIsSeq ==
  ASSUME NEW bd \in WeekdayPart, NEW k
  PROVE  ByDay(bd, k) \in Seq(Day)
<1> DEFINE matches == InOrder({d \in DaysOf(k) : WeekdayOf(d) = bd.weekday})
<1>1. {d \in DaysOf(k) : WeekdayOf(d) = bd.weekday} \in SUBSET Day
  BY DEF DaysOf
<1>2. matches \in Seq(Day)
  BY <1>1, SomeDays
<1>3. ByDay(bd, k) = IF bd.ord = 0 THEN matches ELSE Nth(matches, bd.ord)
  BY DEF ByDay
<1> HIDE DEF matches
<1>4. bd.ord \in Int
  BY DEF WeekdayPart
<1>5. QED
  BY <1>2, <1>3, <1>4, NthIsOne

\* Sequences put together of sequences.
LEMMA FlatIsSeq ==
  ASSUME NEW S, NEW n \in Nat, NEW f \in [1..n -> Seq(S)]
  PROVE  FlattenSeq(f) \in Seq(S)
<1>1. f \in Seq(Seq(S))
  BY SeqDef
<1>2. QED
  BY <1>1, FlattenCollects

LEMMA SeqOfMore ==
  ASSUME NEW S, NEW T, S \subseteq T, NEW s \in Seq(S)
  PROVE  s \in Seq(T)
<1>1. s \in [1..Len(s) -> S] /\ Len(s) \in Nat
  BY LenProperties
<1>2. s \in [1..Len(s) -> T]
  BY <1>1
<1>3. QED
  BY <1>1, <1>2, SeqDef

LEMMA SelectedIsSeq ==
  ASSUME NEW e, e.rule \in Rule, e.start \in Day, NEW k
  PROVE  Selected(e, k) \in Seq(Day)
<1> DEFINE r == e.rule
           days == InOrder(DaysOf(k))
           day == e.start - FirstOf[MonthOf(e.start)] + 1
           byDay == [i \in DOMAIN r.byDay |-> ByDay(r.byDay[i], k)]
           byMonthDay == [i \in DOMAIN r.byMonthDay |-> Nth(days, r.byMonthDay[i])]
<1>1. r.byDay \in Seq(WeekdayPart) /\ r.byMonthDay \in Seq(Int)
  BY RuleParts
<1>2. days \in Seq(Day)
  <2>1. DaysOf(k) \in SUBSET Day
    BY DEF DaysOf
  <2>2. QED
    BY <2>1, SomeDays
<1>3. day \in Int
  <2>1. MonthOf(e.start) \in 1..Len(FirstOf)
    BY MonthsOf, IcsAssumption DEF Month
  <2>2. FirstOf[MonthOf(e.start)] \in Nat
    BY <2>1, IcsAssumption
  <2>3. e.start \in Nat
    BY Days
  <2>4. QED
    BY <2>2, <2>3
<1>4. FlattenSeq(byDay) \in Seq(Day)
  <2> DEFINE n == Len(r.byDay)
  <2>1. n \in Nat /\ DOMAIN r.byDay = 1..n /\ \A i \in 1..n : r.byDay[i] \in WeekdayPart
    BY <1>1
  <2> HIDE DEF n
  <2>2. byDay \in [1..n -> Seq(Day)]
    BY <2>1, ByDayIsSeq
  <2> HIDE DEF byDay
  <2>3. QED
    BY <2>1, <2>2, FlatIsSeq
<1>5. FlattenSeq(byMonthDay) \in Seq(Day)
  <2> DEFINE n == Len(r.byMonthDay)
  <2>1. n \in Nat /\ DOMAIN r.byMonthDay = 1..n /\ \A i \in 1..n : r.byMonthDay[i] \in Int
    BY <1>1
  <2> HIDE DEF n, days
  <2>2. byMonthDay \in [1..n -> Seq(Day)]
    BY <1>2, <2>1, NthIsOne
  <2> HIDE DEF byMonthDay
  <2>3. QED
    BY <2>1, <2>2, FlatIsSeq
<1>6. Nth(days, day) \in Seq(Day)
  <2> HIDE DEF days, day
  <2>1. QED
    BY <1>2, <1>3, NthIsOne
<1>7. Selected(e, k) = IF r.byDay # <<>> THEN FlattenSeq(byDay)
                       ELSE IF r.byMonthDay # <<>> THEN FlattenSeq(byMonthDay) ELSE Nth(days, day)
  BY DEF Selected
<1> HIDE DEF r, days, day, byDay, byMonthDay
<1>8. QED
  BY <1>4, <1>5, <1>6, <1>7

LEMMA TicksAreAlike ==
  ASSUME NEW n \in Nat
  PROVE  Ticks(n) \in Seq({None})
<1>1. Ticks(n) \in [1..n -> {None}]
  BY DEF Ticks
<1>2. QED
  BY <1>1, SeqDef

LEMMA NoneIsWalk ==
  ASSUME NEW s \in Seq({None})
  PROVE  s \in Seq(Entry) /\ Rising(s) /\ DaysIn(s) = {}
<1>1. s \in Seq(Entry)
  BY SeqOfMore DEF Entry
<1>2. DatesOf(s) = {}
  BY DEF DatesOf
<1>3. QED
  BY <1>1, <1>2 DEF DaysIn, Rising

\* The budget that is asked for before the days of a month.
LEMMA SelectTicksAreNone ==
  ASSUME NEW e, e.rule \in Rule, NEW k
  PROVE  SelectTicks(e, k) \in Seq({None})
<1> DEFINE r == e.rule
           weekdays(bd) == 1 + IF bd.ord = 0 THEN Len(ByDay(bd, k)) ELSE 0
           byDay == [i \in DOMAIN r.byDay |-> Ticks(weekdays(r.byDay[i]))]
           places == Ticks(Len(r.bySetPos))
           rest == IF r.byDay # <<>> THEN FlattenSeq(byDay)
                   ELSE IF r.byMonthDay # <<>> THEN Ticks(Len(r.byMonthDay)) ELSE Ticks(1)
<1>1. r.byDay \in Seq(WeekdayPart) /\ Len(r.byMonthDay) \in Nat /\ Len(r.bySetPos) \in Nat
  <2>1. r.byDay \in Seq(WeekdayPart) /\ r.byMonthDay \in Seq(Int) /\ r.bySetPos \in Seq(Int)
    BY RuleParts
  <2>2. QED
    BY <2>1
<1>2. \A bd \in WeekdayPart : weekdays(bd) \in Nat
  <2> TAKE bd \in WeekdayPart
  <2>1. Len(ByDay(bd, k)) \in Nat
    BY ByDayIsSeq, LenProperties
  <2> DEFINE x == Len(ByDay(bd, k))
  <2>2. x \in Nat
    BY <2>1
  <2> HIDE DEF x
  <2>3. 1 + (IF bd.ord = 0 THEN x ELSE 0) \in Nat
    BY <2>2
  <2>4. QED
    BY <2>3 DEF x
<1> HIDE DEF weekdays
<1>3. FlattenSeq(byDay) \in Seq({None})
  <2> DEFINE n == Len(r.byDay)
  <2>1. n \in Nat /\ DOMAIN r.byDay = 1..n /\ \A i \in 1..n : r.byDay[i] \in WeekdayPart
    BY <1>1
  <2> HIDE DEF n
  <2>2. \A i \in 1..n : Ticks(weekdays(r.byDay[i])) \in Seq({None})
    BY <1>2, <2>1, TicksAreAlike
  <2>3. byDay \in [1..n -> Seq({None})]
    BY <2>1, <2>2
  <2> HIDE DEF byDay
  <2>4. QED
    BY <2>1, <2>3, FlatIsSeq
<1>4. Ticks(Len(r.byMonthDay)) \in Seq({None}) /\ Ticks(1) \in Seq({None}) /\ places \in Seq({None})
  BY <1>1, TicksAreAlike
<1>5. rest \in Seq({None})
  BY <1>3, <1>4
<1>6. SelectTicks(e, k) = places \o rest
  BY DEF SelectTicks, weekdays
<1> HIDE DEF r, places, rest
<1>7. QED
  BY <1>4, <1>5, <1>6, ConcatProperties

LEMMA PickedIsSeq ==
  ASSUME NEW pos \in Seq(Int), NEW days \in Seq(Day)
  PROVE  Picked(pos, days) \in Seq(Day)
<1> DEFINE each == [i \in DOMAIN pos |-> Nth(days, pos[i])]
           n == Len(pos)
<1>1. n \in Nat /\ DOMAIN pos = 1..n /\ \A i \in 1..n : pos[i] \in Int
  OBVIOUS
<1> HIDE DEF n
<1>2. each \in [1..n -> Seq(Day)]
  BY <1>1, NthIsOne
<1>3. Picked(pos, days) = IF pos = <<>> THEN days ELSE Sorted(FlattenSeq(each))
  BY DEF Picked
<1> HIDE DEF each
<1>4. Sorted(FlattenSeq(each)) \in Seq(Day)
  BY <1>1, <1>2, FlatIsSeq, SortedDays
<1>5. QED
  BY <1>3, <1>4

LEMMA MonthStepsIsSeq ==
  ASSUME NEW e, e.rule \in Rule, e.start \in Day, NEW k
  PROVE  MonthSteps(e, k) \in Seq(Entry)
<1> DEFINE ticks == SelectTicks(e, k)
           days == Picked(e.rule.bySetPos, Sorted(Selected(e, k)))
<1>1. ticks \in Seq(Entry)
  BY SelectTicksAreNone, NoneIsWalk
<1>2. days \in Seq(Day)
  BY SelectedIsSeq, SortedDays, PickedIsSeq, RuleParts
<1>3. MonthSteps(e, k) = ticks \o days
  BY DEF MonthSteps
<1> HIDE DEF ticks, days
<1>4. days \in Seq(Entry)
  BY <1>2, Days, SeqOfMore
<1>5. QED
  BY <1>1, <1>3, <1>4, ConcatProperties

-----------------------------------------------------------------------------
\* The walks.

LEMMA OneTick == <<None>> \in Seq(Entry)
BY DEF Entry

\* The walk over months or years is made of rounds, whatever the months are.
LEMMA RoundsAreSeq ==
  ASSUME NEW n \in Nat, NEW f \in [1..n -> Seq(Entry)]
  PROVE  Rounds([i \in 1..n |-> <<None>> \o f[i]]) \in Seq(Entry)
<1> DEFINE rounds == [i \in 1..n |-> <<None>> \o f[i]]
<1>1. \A i \in 1..n : <<None>> \o f[i] \in Seq(Entry)
  BY OneTick, ConcatProperties
<1>2. rounds \in Seq(Seq(Entry))
  BY <1>1, SeqDef
<1> HIDE DEF rounds
<1>3. Rounds(rounds) \in Seq(Entry)
  BY <1>2, RoundsCollect
<1>4. QED
  BY <1>3 DEF rounds

\* The months that are looked at.
LEMMA MonthsLookedAt ==
  ASSUME NEW k \in Int, NEW step, NEW end
  PROVE  MonthsFrom(k, step, end) \in Seq(Int)
<1> DEFINE last == Cardinality({l \in Month : FirstOf[l] <= end})
           months == {d \in k..last : (d - k) % step = 0}
<1>1. IsFiniteSet(Month) /\ {l \in Month : FirstOf[l] <= end} \subseteq Month
  <2> DEFINE n == Len(FirstOf) - 1
  <2>1. n \in Int /\ Month = 1..n
    BY IcsAssumption DEF Month
  <2> HIDE DEF n
  <2>2. IsFiniteSet(Month)
    BY <2>1, FS_Interval
  <2>3. QED
    BY <2>2
<1>2. last \in Nat
  BY <1>1, FS_Subset, FS_CardinalityType
<1>3. MonthsFrom(k, step, end) = InOrder(months)
  BY DEF MonthsFrom, Every
<1> HIDE DEF last
<1>4. IsFiniteSet(k..last)
  BY <1>2, FS_Interval
<1>5. months \in SUBSET Int /\ IsFiniteSet(months)
  BY <1>2, <1>4, FS_Subset
<1> HIDE DEF months
<1>6. InOrder(months) \in Seq(months)
  BY <1>5, InOrderIsSeq
<1>7. QED
  BY <1>3, <1>5, <1>6, SeqOfMore

LEMMA MonthlyWalk ==
  ASSUME NEW e, e.rule \in Rule, e.start \in Day, NEW end
  PROVE  MonthlySteps(e, end) \in Seq(Entry)
<1> DEFINE months == MonthsFrom(MonthOf(e.start), e.rule.interval, end)
           n == Len(months)
           f == [i \in 1..n |-> MonthSteps(e, months[i])]
<1>1. MonthOf(e.start) \in Int
  BY MonthsOf DEF Month
<1>2. months \in Seq(Int)
  BY <1>1, MonthsLookedAt
<1> HIDE DEF months
<1>3. n \in Nat /\ DOMAIN months = 1..n
  BY <1>2
<1> HIDE DEF n
<1>4. f \in [1..n -> Seq(Entry)] /\ \A i \in 1..n : f[i] = MonthSteps(e, months[i])
  BY MonthStepsIsSeq
<1>5. [i \in DOMAIN months |-> <<None>> \o MonthSteps(e, months[i])] = [i \in 1..n |-> <<None>> \o f[i]]
  BY <1>3, <1>4
<1>6. MonthlySteps(e, end) = Rounds([i \in DOMAIN months |-> <<None>> \o MonthSteps(e, months[i])])
  BY DEF MonthlySteps, months
<1> HIDE DEF f
<1>7. QED
  BY <1>3, <1>4, <1>5, <1>6, RoundsAreSeq

LEMMA YearlyWalk ==
  ASSUME NEW e, e.rule \in Rule, e.start \in Day, NEW end
  PROVE  YearlySteps(e, end) \in Seq(Entry)
<1> DEFINE years == MonthsFrom(YearStart(MonthOf(e.start)), e.rule.interval * MonthsPerYear, end)
           months == IF e.rule.byMonth = <<>> THEN <<PlaceInYear(MonthOf(e.start))>> ELSE e.rule.byMonth
           year(k) == FlattenSeq([j \in DOMAIN months |-> MonthSteps(e, k + months[j] - 1)])
           n == Len(years)
           f == [i \in 1..n |-> year(years[i])]
<1>1. YearStart(MonthOf(e.start)) \in Int /\ PlaceInYear(MonthOf(e.start)) \in Int
  <2>1. MonthOf(e.start) \in Int /\ MonthsPerYear \in Nat \ {0}
    BY MonthsOf, IcsAssumption DEF Month
  <2> DEFINE m == MonthOf(e.start)
  <2>2. m \in Int
    BY <2>1
  <2> HIDE DEF m
  <2>3. (m - 1) % MonthsPerYear \in Int
    BY <2>1, <2>2
  <2>4. PlaceInYear(m) \in Int
    BY <2>2, <2>3 DEF PlaceInYear
  <2>5. YearStart(m) \in Int
    BY <2>2, <2>4 DEF YearStart
  <2>6. QED
    BY <2>4, <2>5 DEF m
<1>2. years \in Seq(Int)
  BY <1>1, MonthsLookedAt
<1>3. DOMAIN months = 1..Len(months) /\ Len(months) \in Nat
  <2> DEFINE byMonth == e.rule.byMonth
             place == PlaceInYear(MonthOf(e.start))
  <2>1. byMonth \in Seq(1..MonthsPerYear)
    BY RuleParts
  <2>2. months = IF byMonth = <<>> THEN <<place>> ELSE byMonth
    OBVIOUS
  <2> HIDE DEF months, place, byMonth
  <2>3. byMonth = <<>> \/ byMonth # <<>>
    OBVIOUS
  <2>4. CASE byMonth = <<>>
    <3>1. months = <<place>>
      BY <2>2, <2>4
    <3>2. QED
      BY <3>1
  <2>5. CASE byMonth # <<>>
    <3>1. months = byMonth
      BY <2>2, <2>5
    <3>2. QED
      BY <2>1, <3>1, LenProperties
  <2>6. QED
    BY <2>4, <2>5
<1> HIDE DEF years, months
<1>4. n \in Nat /\ DOMAIN years = 1..n
  BY <1>2
<1>5. ASSUME NEW k PROVE year(k) \in Seq(Entry)
  <2> DEFINE each == [j \in DOMAIN months |-> MonthSteps(e, k + months[j] - 1)]
  <2>1. each \in [1..Len(months) -> Seq(Entry)]
    BY <1>3, MonthStepsIsSeq
  <2> HIDE DEF each
  <2>2. FlattenSeq(each) \in Seq(Entry)
    BY <1>3, <2>1, FlatIsSeq
  <2>3. QED
    BY <2>2 DEF each
<1> HIDE DEF n
<1>6. YearlySteps(e, end) = Rounds([i \in DOMAIN years |-> <<None>> \o year(years[i])])
  BY DEF YearlySteps, years, months
<1> HIDE DEF year
<1>7. f \in [1..n -> Seq(Entry)] /\ \A i \in 1..n : f[i] = year(years[i])
  BY <1>5
<1>8. [i \in DOMAIN years |-> <<None>> \o year(years[i])] = [i \in 1..n |-> <<None>> \o f[i]]
  BY <1>4, <1>7
<1> HIDE DEF f
<1>9. QED
  BY <1>4, <1>6, <1>7, <1>8, RoundsAreSeq

-----------------------------------------------------------------------------
\* Remainders.

LEMMA Divided ==
  ASSUME NEW x \in Int, NEW m \in Nat, m > 0
  PROVE  /\ x % m \in 0..(m - 1) /\ x \div m \in Int
         /\ x = (m * (x \div m)) + (x % m)
OBVIOUS

LEMMA NoLessThanOne ==
  ASSUME NEW z \in Int, NEW m \in Nat, m > 0, m * z < m, 0 - m < m * z
  PROVE  z = 0
<1>1. CASE z >= 1
  <2>1. m * (z - 1) \in Nat
    BY <1>1
  <2>2. m * z = (m * (z - 1)) + m
    OBVIOUS
  <2>3. QED
    BY <2>1, <2>2
<1>2. CASE z <= 0 - 1
  <2>1. m * (0 - 1 - z) \in Nat
    BY <1>2
  <2>2. m * z = (0 - m) - (m * (0 - 1 - z))
    OBVIOUS
  <2>3. QED
    BY <2>1, <2>2
<1>3. QED
  BY <1>1, <1>2

LEMMA Shifted ==
  ASSUME NEW x \in Int, NEW m \in Nat, m > 0, NEW k \in Int
  PROVE  (x + (k * m)) % m = x % m
<1> DEFINE y == x + (k * m)
           q == x \div m
           p == y \div m
           r == x % m
           t == y % m
<1>1. k * m \in Int /\ m * k = k * m
  OBVIOUS
<1>2. y \in Int /\ y = x + (m * k)
  BY <1>1
<1>3. r \in 0..(m - 1) /\ q \in Int /\ x = (m * q) + r
  BY Divided
<1> HIDE DEF y
<1>4. t \in 0..(m - 1) /\ p \in Int /\ y = (m * p) + t
  BY <1>2, Divided
<1> HIDE DEF q, p, r, t
<1> DEFINE z == p - q - k
<1>5. z \in Int /\ m * z = (m * p) - (m * q) - (m * k)
  BY <1>3, <1>4
<1>6. m * z = r - t
  <2>1. m * p \in Int /\ m * q \in Int /\ m * k \in Int /\ r \in Int /\ t \in Int
    BY <1>3, <1>4
  <2>2. QED
    BY <1>2, <1>3, <1>4, <1>5, <2>1
<1> HIDE DEF z
<1>7. z = 0
  <2>1. r - t < m /\ 0 - m < r - t
    BY <1>3, <1>4
  <2>2. QED
    BY <1>5, <1>6, <2>1, NoLessThanOne
<1>8. r = t
  BY <1>3, <1>4, <1>6, <1>7
<1>9. QED
  BY <1>8 DEF r, t, y

LEMMA Multiple ==
  ASSUME NEW k \in Int, NEW m \in Nat, m > 0
  PROVE  (k * m) % m = 0
<1>1. (0 + (k * m)) % m = 0 % m
  BY Shifted
<1>2. k * m \in Int /\ 0 + (k * m) = k * m /\ 0 % m = 0
  OBVIOUS
<1>3. QED
  BY <1>1, <1>2

\* A daily walk begins at the anchor or later, at the window or earlier, and at a day
\* of the series.
LEMMA DailyBegins ==
  ASSUME NEW anchor \in Nat, NEW interval \in Nat, interval > 0,
         NEW lower \in Nat, anchor <= lower
  PROVE  /\ DailyFrom(anchor, interval, lower) \in Nat
         /\ anchor <= DailyFrom(anchor, interval, lower)
         /\ DailyFrom(anchor, interval, lower) <= lower
         /\ \A d \in Int : (d - DailyFrom(anchor, interval, lower)) % interval = (d - anchor) % interval
<1> DEFINE q == (lower - anchor) \div interval
           i == q - 1
           j == IF i < 0 THEN 0 ELSE i
           from == DailyFrom(anchor, interval, lower)
<1>1. lower - anchor \in Int
  OBVIOUS
<1>2. /\ q \in Int /\ lower - anchor = (interval * q) + ((lower - anchor) % interval)
      /\ (lower - anchor) % interval \in 0..(interval - 1)
  BY <1>1, Divided
<1>3. from = anchor + (j * interval)
  BY DEF DailyFrom
<1> HIDE DEF q, from
<1>4. j \in Nat
  BY <1>2
<1>5. j * interval \in Nat
  BY <1>4
<1>6. anchor <= from /\ from \in Nat
  BY <1>3, <1>5
<1>7. from <= lower
  <2>1. CASE i < 0
    <3>1. j * interval = 0
      BY <2>1
    <3>2. QED
      BY <1>3, <3>1
  <2>2. CASE ~(i < 0)
    <3>1. j * interval = (interval * q) - interval /\ interval * q \in Int
      BY <1>2, <2>2
    <3> DEFINE u == interval * q
               v == (lower - anchor) % interval
    <3>2. u \in Int /\ v \in Nat /\ lower - anchor = u + v /\ j * interval = u - interval
      BY <1>2, <3>1
    <3> HIDE DEF u, v, j
    <3>3. QED
      BY <1>3, <3>2
  <2>3. QED
    BY <2>1, <2>2
<1>8. ASSUME NEW d \in Int PROVE (d - from) % interval = (d - anchor) % interval
  <2> DEFINE x == d - from
  <2>1. x \in Int /\ j \in Int
    BY <1>4, <1>6
  <2> HIDE DEF j
  <2>2. x + (j * interval) = d - anchor
    BY <1>3, <1>5, <1>6
  <2> HIDE DEF x
  <2>3. (x + (j * interval)) % interval = x % interval
    BY <2>1, Shifted
  <2>4. QED
    BY <2>2, <2>3 DEF x
<1>9. QED
  BY <1>6, <1>7, <1>8 DEF from

LEMMA DailyWalk ==
  ASSUME NEW e, e.rule \in Rule, e.start \in Day, NEW lower \in Day, e.start <= lower, NEW end \in Day
  PROVE  /\ DailySteps(e, lower, end) \in Seq(Entry) /\ Rising(DailySteps(e, lower, end))
         /\ \A d \in DaysIn(DailySteps(e, lower, end)) :
              d \in Day /\ e.start <= d /\ d <= end /\ (d - e.start) % e.rule.interval = 0
         /\ \A d \in Day : lower <= d /\ d <= end /\ (d - e.start) % e.rule.interval = 0
                           => d \in DaysIn(DailySteps(e, lower, end))
<1> DEFINE from == DailyFrom(e.start, e.rule.interval, lower)
           days == {d \in from..end : (d - from) % e.rule.interval = 0}
           s == InOrder(days)
           walk == DailySteps(e, lower, end)
<1>1. e.start \in Nat /\ lower \in Nat /\ end \in Nat /\ \A d \in 0..end : d \in Day
  <2> DEFINE x == FirstOf[Len(FirstOf)]
  <2>1. Day = 0..(x - 1) /\ x \in Nat
    BY IcsAssumption DEF Day
  <2> HIDE DEF x
  <2>2. QED
    BY <2>1
<1>2. e.rule.interval \in Nat /\ e.rule.interval > 0
  BY RuleParts
<1>3. /\ from \in Nat /\ e.start <= from /\ from <= lower
      /\ \A d \in Int : (d - from) % e.rule.interval = (d - e.start) % e.rule.interval
  BY <1>1, <1>2, DailyBegins
<1> HIDE DEF from
<1>4. days \in SUBSET Day
  BY <1>1, <1>3
<1>5. walk = Rounds([i \in DOMAIN s |-> <<None, s[i]>>])
  BY DEF DailySteps, Every, from
<1> HIDE DEF days
<1>6. /\ \A i \in DOMAIN s : s[i] \in Day
  BY <1>4, SomeDays
<1>7. [i \in DOMAIN s |-> <<None, s[i]>>] = [i \in DOMAIN s |-> IF s[i] \in Day THEN <<None, s[i]>> ELSE <<None>>]
  BY <1>6
<1>8. walk \in Seq(Entry) /\ Rising(walk) /\ DaysIn(walk) = days \cap Day
  <2>1. Day \in SUBSET Day
    OBVIOUS
  <2> HIDE DEF walk
  <2>2. QED
    BY <1>4, <1>5, <1>7, <2>1, RoundsOfDays
<1> HIDE DEF walk, s
<1>9. ASSUME NEW d \in DaysIn(walk)
      PROVE  d \in Day /\ e.start <= d /\ d <= end /\ (d - e.start) % e.rule.interval = 0
  <2>1. d \in Day /\ d \in from..end /\ (d - from) % e.rule.interval = 0
    BY <1>8 DEF days
  <2>2. d \in Int /\ e.start <= d /\ d <= end
    BY <1>1, <1>3, <2>1
  <2>3. QED
    BY <1>3, <2>1, <2>2
<1>10. ASSUME NEW d \in Day, lower <= d, d <= end, (d - e.start) % e.rule.interval = 0
       PROVE  d \in DaysIn(walk)
  <2>1. d \in Int /\ d \in from..end
    BY <1>1, <1>3, <1>10, Days
  <2>2. (d - from) % e.rule.interval = 0
    BY <1>3, <1>10, <2>1
  <2>3. QED
    BY <1>8, <2>1, <2>2 DEF days
<1>11. QED
  BY <1>8, <1>9, <1>10 DEF walk

\* The weekly walk looks at every day from a week before the window on.
WeekOn(e, d) ==
  /\ ((startOfISOWeek(d) - startOfISOWeek(e.start)) \div Week) % e.rule.interval = 0
  /\ WeekdayOf(d) \in Weekdays(e)

LEMMA WeeklyWalk ==
  ASSUME NEW e, e.rule \in Rule, e.start \in Day, NEW lower \in Day, e.start <= lower, NEW end \in Day
  PROVE  /\ WeeklySteps(e, lower, end) \in Seq(Entry) /\ Rising(WeeklySteps(e, lower, end))
         /\ \A d \in DaysIn(WeeklySteps(e, lower, end)) :
              d \in Day /\ e.start <= d /\ d <= end /\ WeekOn(e, d)
         /\ \A d \in Day : lower <= d /\ d <= end /\ WeekOn(e, d)
                           => d \in DaysIn(WeeklySteps(e, lower, end))
<1> DEFINE from == IF lower - e.start > Week THEN lower - Week ELSE e.start
           s == InOrder(from..end)
           on == {d \in Day : WeekOn(e, d)}
           walk == WeeklySteps(e, lower, end)
<1>1. e.start \in Nat /\ lower \in Nat /\ end \in Nat /\ \A d \in 0..end : d \in Day
  <2> DEFINE x == FirstOf[Len(FirstOf)]
  <2>1. Day = 0..(x - 1) /\ x \in Nat
    BY IcsAssumption DEF Day
  <2> HIDE DEF x
  <2>2. QED
    BY <2>1
<1>2. from \in Nat /\ e.start <= from /\ from <= lower
  BY <1>1, IcsAssumption
<1>3. walk = Rounds([i \in DOMAIN s |-> IF WeekOn(e, s[i]) THEN <<None, s[i]>> ELSE <<None>>])
  BY DEF WeeklySteps, WeekOn
<1> HIDE DEF from
<1>4. from..end \in SUBSET Day
  BY <1>1, <1>2
<1>5. \A i \in DOMAIN s : s[i] \in Day
  <2>1. s \in Seq(Day)
    BY <1>4, SomeDays
  <2> HIDE DEF s
  <2>2. QED
    BY <2>1
<1>6. [i \in DOMAIN s |-> IF WeekOn(e, s[i]) THEN <<None, s[i]>> ELSE <<None>>]
        = [i \in DOMAIN s |-> IF s[i] \in on THEN <<None, s[i]>> ELSE <<None>>]
  BY <1>5
<1>7. walk \in Seq(Entry) /\ Rising(walk) /\ DaysIn(walk) = (from..end) \cap on
  <2>1. on \in SUBSET Day
    OBVIOUS
  <2> HIDE DEF walk, on
  <2>2. QED
    BY <1>3, <1>4, <1>6, <2>1, RoundsOfDays
<1> HIDE DEF walk, s
<1>8. \A d \in DaysIn(walk) : d \in Day /\ e.start <= d /\ d <= end /\ WeekOn(e, d)
  BY <1>1, <1>2, <1>7
<1>9. \A d \in Day : lower <= d /\ d <= end /\ WeekOn(e, d) => d \in DaysIn(walk)
  <2> SUFFICES ASSUME NEW d \in Day, lower <= d, d <= end, WeekOn(e, d) PROVE d \in DaysIn(walk)
    OBVIOUS
  <2>1. d \in from..end
    BY <1>1, <1>2, Days
  <2>2. QED
    BY <1>7, <2>1
<1>10. QED
  BY <1>7, <1>8, <1>9 DEF walk

-----------------------------------------------------------------------------
\* The days that are added, until COUNT is met.

\* In a list that rises, the place of an element is its rank.
LEMMA PlaceIsRank ==
  ASSUME NEW A \in SUBSET Int, NEW n \in Nat, NEW g \in [1..n -> A],
         \A d \in A : \E k \in 1..n : g[k] = d,
         \A k, m \in 1..n : k < m => g[k] < g[m]
  PROVE  \A k \in 1..n : Cardinality({c \in A : c <= g[k]}) = k
<1> TAKE k \in 1..n
<1> DEFINE upTo == {c \in A : c <= g[k]}
           h == [i \in 1..k |-> g[i]]
<1>0. \A i \in 1..n : g[i] \in Int /\ g[i] \in A
  OBVIOUS
<1>1. \A i, j \in 1..n : g[i] <= g[j] => i <= j
  <2> SUFFICES ASSUME NEW i \in 1..n, NEW j \in 1..n, g[i] <= g[j], ~(i <= j) PROVE FALSE
    OBVIOUS
  <2>1. j < i
    OBVIOUS
  <2>2. g[j] < g[i] /\ g[i] \in Int /\ g[j] \in Int
    BY <1>0, <2>1
  <2>3. QED
    BY <2>2
<1>2. \A i \in 1..k : i \in 1..n /\ h[i] = g[i] /\ g[i] \in A /\ g[i] <= g[k]
  <2> TAKE i \in 1..k
  <2>1. i \in 1..n /\ (i < k \/ i = k)
    OBVIOUS
  <2>2. g[i] \in A /\ g[i] \in Int /\ g[k] \in Int
    BY <1>0, <2>1
  <2>3. i < k => g[i] < g[k]
    BY <2>1
  <2>4. h[i] = g[i]
    OBVIOUS
  <2> HIDE DEF h
  <2>5. QED
    BY <2>1, <2>2, <2>3, <2>4
<1>3. h \in [1..k -> upTo]
  BY <1>2
<1>4. \A c \in upTo : \E i \in 1..k : h[i] = c
  <2> TAKE c \in upTo
  <2>1. PICK i \in 1..n : g[i] = c
    OBVIOUS
  <2>2. i \in 1..k
    BY <1>1, <2>1
  <2>3. QED
    BY <1>2, <2>1, <2>2
<1>5. \A i, j \in 1..k : h[i] = h[j] => i = j
  <2> SUFFICES ASSUME NEW i \in 1..k, NEW j \in 1..k, h[i] = h[j] PROVE i = j
    OBVIOUS
  <2>1. g[i] = g[j] /\ g[i] \in Int /\ i \in 1..n /\ j \in 1..n
    BY <1>2
  <2>2. QED
    BY <1>1, <2>1
<1>6. h \in Bijection(1..k, upTo)
  <2> HIDE DEF h, upTo
  <2>1. QED
    BY <1>3, <1>4, <1>5 DEF Bijection, Injection, Surjection, IsInjective
<1> HIDE DEF h, upTo
<1>7. IsFiniteSet(1..k) /\ Cardinality(1..k) = k
  BY FS_Interval
<1>8. Cardinality(upTo) = k
  BY <1>6, <1>7, FS_Bijection DEF ExistsBijection
<1>9. QED
  BY <1>8 DEF upTo

\* The days of a walk that are added while the count lasts.
Reached(e, steps, end) == {d \in DaysIn(steps) : d \in e.start..end}
FirstFew(r, days)      == {d \in days : r.count > 0 => Cardinality({c \in days : c <= d}) <= r.count}

LEMMA WalkAdds ==
  ASSUME NEW e, e.rule \in Rule, e.start \in Day, NEW end \in Day, NEW steps \in Seq(Entry)
  PROVE  /\ Walked(e, steps, end).cost \in Nat
         /\ Walked(e, steps, end).starts \in Seq(Day)
         /\ Rising(steps) =>
              LET starts == Walked(e, steps, end).starts
              IN /\ \A k, m \in DOMAIN starts : k < m => starts[k] < starts[m]
                 /\ {starts[k] : k \in DOMAIN starts} = FirstFew(e.rule, Reached(e, steps, end))
<1> DEFINE places == {i \in DOMAIN steps : steps[i] # None /\ steps[i] \in e.start..end}
           added == InOrder(places)
           A == Reached(e, steps, end)
           n == Cardinality(places)
           count == e.rule.count
           enough == count > 0 /\ n >= count
           m == IF enough THEN count ELSE n
           g == [k \in 1..n |-> steps[added[k]]]
           w == Walked(e, steps, end)
<1>1. Len(steps) \in Nat /\ DOMAIN steps = 1..Len(steps) /\ \A i \in DOMAIN steps : steps[i] \in Entry
  OBVIOUS
<1>2. count \in Nat
  BY RuleParts
<1>3. /\ added \in Seq(places) /\ DOMAIN added = 1..n /\ n \in Nat /\ Len(added) = n
      /\ \A i \in places : \E k \in 1..n : added[k] = i
      /\ \A k \in 1..n : added[k] \in places
      /\ \A k, l \in 1..n : k < l => added[k] < added[l]
  <2>1. places \in SUBSET Int
    BY <1>1
  <2>2. IsFiniteSet(DOMAIN steps)
    BY <1>1, FS_Interval
  <2>3. IsFiniteSet(places)
    BY <2>2, FS_Subset
  <2> HIDE DEF places
  <2>4. /\ added \in Seq(places) /\ DOMAIN added = 1..n /\ n \in Nat
        /\ \A i \in places : \E k \in 1..n : added[k] = i
        /\ \A k \in 1..n : added[k] \in places
        /\ \A k, l \in 1..n : k < l => added[k] < added[l]
    BY <2>1, <2>3, InOrderIsSeq
  <2> HIDE DEF added, n
  <2>5. Len(added) = n
    BY <2>4
  <2>6. QED
    BY <2>4, <2>5
<1>4. w.starts = [i \in 1..m |-> steps[added[i]]] /\ w.cost = IF enough THEN added[count] ELSE Len(steps)
  <2>1. w = Counted(e.rule, steps, added)
    BY DEF Walked
  <2> HIDE DEF w, added, n
  <2>2. QED
    BY <1>3, <2>1 DEF Counted
<1>5. m \in Nat /\ m <= n /\ (enough => count \in 1..n)
  BY <1>2, <1>3
<1>6. \A i \in places : i \in 1..Len(steps) /\ i \in Nat /\ steps[i] \in Day /\ steps[i] \in A
  <2> TAKE i \in places
  <2>1. i \in DOMAIN steps /\ steps[i] # None /\ steps[i] \in e.start..end
    OBVIOUS
  <2>2. steps[i] \in Day
    BY <1>1, <2>1 DEF Entry
  <2>3. steps[i] \in DaysIn(steps)
    BY <2>1 DEF DaysIn, DatesOf
  <2>4. QED
    BY <1>1, <2>1, <2>2, <2>3 DEF Reached
<1>7. \A d \in A : \E i \in places : steps[i] = d
  BY DEF Reached, DaysIn, DatesOf
<1>7a. ASSUME Rising(steps), NEW i \in places, NEW j \in places, i < j PROVE steps[i] < steps[j]
  BY <1>7a DEF Rising, DatesOf
<1> HIDE DEF places, added, n, w, A
<1>8. w.cost \in Nat
  <2>1. CASE enough
    BY <1>3, <1>4, <1>5, <1>6, <2>1
  <2>2. CASE ~enough
    BY <1>1, <1>4, <2>2
  <2>3. QED
    BY <2>1, <2>2
<1> HIDE DEF enough
<1>9. w.starts \in Seq(Day)
  <2>1. \A k \in 1..m : k \in 1..n
    BY <1>3, <1>5
  <2>2. \A k \in 1..m : steps[added[k]] \in Day
    BY <1>3, <1>6, <2>1
  <2> HIDE DEF m
  <2>3. w.starts \in [1..m -> Day]
    BY <1>4, <2>2
  <2>4. QED
    BY <1>5, <2>3, SeqDef
<1>10. ASSUME Rising(steps)
       PROVE  /\ \A k, l \in DOMAIN w.starts : k < l => w.starts[k] < w.starts[l]
              /\ {w.starts[k] : k \in DOMAIN w.starts} = FirstFew(e.rule, A)
  <2>1. \A k, l \in 1..n : k < l => g[k] < g[l]
    BY <1>3, <1>7a, <1>10
  <2>2. g \in [1..n -> A]
    BY <1>3, <1>6
  <2>3. \A d \in A : \E k \in 1..n : g[k] = d
    <3> TAKE d \in A
    <3>1. PICK i \in places : steps[i] = d
      BY <1>7
    <3>2. PICK k \in 1..n : added[k] = i
      BY <1>3
    <3>3. QED
      BY <3>1, <3>2
  <2>4. A \in SUBSET Int
    <3>1. \A d \in A : d \in Day
      BY <1>6, <1>7
    <3>2. QED
      BY <3>1, Days
  <2>5. DOMAIN w.starts = 1..m /\ \A k \in 1..m : k \in 1..n /\ w.starts[k] = g[k]
    <3>1. \A k \in 1..m : k \in 1..n
      BY <1>3, <1>5
    <3> HIDE DEF m
    <3>2. QED
      BY <1>4, <3>1
  <2> HIDE DEF g
  <2>6. \A k \in 1..n : Cardinality({c \in A : c <= g[k]}) = k
    <3>1. n \in Nat
      BY <1>3
    <3>2. QED
      BY <2>1, <2>2, <2>3, <2>4, <3>1, PlaceIsRank
  <2>7. \A k \in 1..n : k \in 1..m <=> (count > 0 => k <= count)
    BY <1>2, <1>3 DEF enough
  <2>8. FirstFew(e.rule, A) = {d \in A : count > 0 => Cardinality({c \in A : c <= d}) <= count}
    BY DEF FirstFew
  <2> HIDE DEF m, count
  <2>9. ASSUME NEW k \in DOMAIN w.starts PROVE w.starts[k] \in FirstFew(e.rule, A)
    <3>1. k \in 1..n /\ w.starts[k] = g[k] /\ g[k] \in A
      BY <2>2, <2>5, <2>9
    <3>2. Cardinality({c \in A : c <= g[k]}) = k
      BY <2>6, <3>1
    <3>3. count > 0 => k <= count
      BY <2>5, <2>7, <2>9, <3>1
    <3>4. QED
      BY <2>8, <3>1, <3>2, <3>3
  <2>10. ASSUME NEW d \in FirstFew(e.rule, A) PROVE \E k \in DOMAIN w.starts : w.starts[k] = d
    <3>1. d \in A /\ (count > 0 => Cardinality({c \in A : c <= d}) <= count)
      BY <2>8, <2>10
    <3>2. PICK k \in 1..n : g[k] = d
      BY <2>3, <3>1
    <3>3. Cardinality({c \in A : c <= d}) = k
      BY <2>6, <3>2
    <3>4. k \in 1..m
      BY <2>7, <3>1, <3>3
    <3>5. QED
      BY <2>5, <3>2, <3>4
  <2>11. \A k, l \in DOMAIN w.starts : k < l => w.starts[k] < w.starts[l]
    BY <2>1, <2>5
  <2>12. {w.starts[k] : k \in DOMAIN w.starts} = FirstFew(e.rule, A)
    BY <2>9, <2>10
  <2>13. QED
    BY <2>11, <2>12
<1>11. QED
  BY <1>8, <1>9, <1>10 DEF w, A

-----------------------------------------------------------------------------
\* What a VEVENT is given and what it costs.

InWindow == window \in Day \X Day

LEMMA WindowBegins ==
  ASSUME NEW e, IsEvent(e), InWindow
  PROVE  /\ WindowStart(e) \in Day /\ WindowStart(e) <= window[1]
         /\ \A d \in DOMAIN e.overrides : WindowStart(e) <= d
<1> DEFINE S == DOMAIN e.overrides \cup {window[1]}
<1>1. S \in SUBSET Day /\ S # {}
  BY DEF IsEvent, InWindow
<1>2. \E x \in S : \A y \in S : x <= y
  <2>1. S \in SUBSET Nat
    BY <1>1, Days
  <2> HIDE DEF S
  <2>2. QED
    BY <1>1, <2>1, FirstOfASet
<1>3. WindowStart(e) \in S /\ \A y \in S : WindowStart(e) <= y
  <2>1. WindowStart(e) = CHOOSE x \in S : \A y \in S : x <= y
    BY DEF WindowStart, Min
  <2> HIDE DEF S
  <2>2. QED
    BY <1>2, <2>1
<1>4. QED
  BY <1>1, <1>3

EndOf(e, windowEnd) ==
  IF e.rule.until # None /\ e.rule.until < windowEnd THEN e.rule.until ELSE windowEnd

\* Where a walk begins and where it ends.
LEMMA WalkBounds ==
  ASSUME NEW e, IsEvent(e), e.rule \in Rule, NEW windowStart \in Day, NEW windowEnd \in Day
  PROVE  /\ Lower(e, windowStart) \in Day /\ e.start <= Lower(e, windowStart)
         /\ EndOf(e, windowEnd) \in Day /\ EndOf(e, windowEnd) <= windowEnd
         /\ e.rule.until # None => EndOf(e, windowEnd) <= e.rule.until
         /\ \A d \in Day : d <= windowEnd /\ (e.rule.until # None => d <= e.rule.until) <=> d <= EndOf(e, windowEnd)
<1>1. e.start \in Day /\ e.start \in Nat /\ windowStart \in Nat /\ windowEnd \in Nat
  BY Days DEF IsEvent
<1>2. e.rule.until # None => e.rule.until \in Day /\ e.rule.until \in Nat
  BY RuleParts, Days
<1>3. Lower(e, windowStart) \in Day /\ e.start <= Lower(e, windowStart)
  BY <1>1 DEF Lower
<1>4. Day \in SUBSET Nat
  BY Days
<1>5. QED
  BY <1>1, <1>2, <1>3, <1>4 DEF EndOf

\* Every walk is a sequence of days and of steps that add none.
LEMMA StepsAreSeq ==
  ASSUME NEW e, IsEvent(e), e.rule \in Rule, e.rule.freq # "HOURLY",
         NEW lower \in Day, e.start <= lower, NEW end \in Day
  PROVE  Steps(e, lower, end) \in Seq(Entry)
<1>1. e.start \in Day
  BY DEF IsEvent
<1>2. /\ DailySteps(e, lower, end) \in Seq(Entry) /\ WeeklySteps(e, lower, end) \in Seq(Entry)
      /\ MonthlySteps(e, end) \in Seq(Entry) /\ YearlySteps(e, end) \in Seq(Entry)
  BY <1>1, DailyWalk, WeeklyWalk, MonthlyWalk, YearlyWalk
<1>3. e.rule.freq \in {"DAILY", "WEEKLY", "MONTHLY", "YEARLY"}
  BY RuleParts
<1>4. QED
  BY <1>2, <1>3 DEF Steps

LEMMA StartsAndCost ==
  ASSUME NEW e, IsEvent(e), e.rule # None => e.rule.freq # "HOURLY", InWindow
  PROVE  RuleStarts(e).starts \in Seq(Day) /\ RuleStarts(e).cost \in Nat
<1>1. CASE e.rule = None
  <2>1. e.start \in Day /\ RuleStarts(e) = [starts |-> <<e.start>>, cost |-> 0]
    BY <1>1 DEF RuleStarts, IsEvent
  <2>2. QED
    BY <2>1
<1>2. CASE e.rule # None
  <2> DEFINE start == WindowStart(e)
             end == EndOf(e, window[2])
             steps == Steps(e, Lower(e, start), end)
  <2>1. e.rule \in Rule /\ e.start \in Day
    BY <1>2 DEF IsEvent
  <2>2. start \in Day /\ window[2] \in Day
    BY WindowBegins DEF InWindow
  <2>3. RuleStarts(e) = Walked(e, steps, end)
    BY <1>2 DEF RuleStarts, ExpandRule, EndOf
  <2> HIDE DEF start
  <2>4. Lower(e, start) \in Day /\ e.start <= Lower(e, start) /\ end \in Day
    BY <2>1, <2>2, WalkBounds
  <2> HIDE DEF end
  <2>5. steps \in Seq(Entry)
    BY <1>2, <2>1, <2>4, StepsAreSeq
  <2> HIDE DEF steps
  <2>6. QED
    BY <2>1, <2>3, <2>4, <2>5, WalkAdds
<1>3. QED
  BY <1>1, <1>2

LEMMA CostIsNatural ==
  ASSUME NEW e, IsEvent(e), e.rule # None => e.rule.freq # "HOURLY", InWindow
  PROVE  Budgeted(e) \in Nat
<1>1. e.rdates \in SUBSET Day /\ IsFiniteSet(Day)
  BY Days DEF IsEvent
<1>2. Cardinality(e.rdates) \in Nat
  BY <1>1, FS_Subset, FS_CardinalityType
<1>3. RuleStarts(e).cost \in Nat
  BY StartsAndCost
<1>4. QED
  BY <1>2, <1>3 DEF Budgeted

-----------------------------------------------------------------------------
\* The budget.

ExpandInv ==
  /\ InWindow
  /\ Len(feed) \in Nat /\ DOMAIN feed = 1..Len(feed)
  /\ \A i \in 1..Len(feed) : IsEvent(feed[i])
  /\ next \in 1..(Len(feed) + 1)
  /\ allowance \in 0..EventSteps /\ feedLeft \in 0..FeedSteps
  /\ skipped \in SUBSET (1..(next - 1))
  /\ OwnAllowance

LEMMA InitExpandInv == Init => ExpandInv
<1> SUFFICES ASSUME Init PROVE ExpandInv
  OBVIOUS
<1>1. InWindow /\ Len(feed) \in Nat /\ DOMAIN feed = 1..Len(feed) /\ \A i \in 1..Len(feed) : IsEvent(feed[i])
  BY IcsAssumption DEF Init, InWindow
<1>2. allowance \in 0..EventSteps /\ feedLeft \in 0..FeedSteps
  BY IcsAssumption DEF Init
<1>3. QED
  BY <1>1, <1>2 DEF Init, ExpandInv, OwnAllowance

LEMMA StepExpandInv ==
  ASSUME ExpandInv, [Next]_vars
  PROVE  ExpandInv'
<1> USE DEF ExpandInv
<1>1. CASE UNCHANGED vars
  <2>1. \A e : Budgeted(e)' = Budgeted(e)
    BY <1>1 DEF vars, Budgeted, RuleStarts, WindowStart
  <2>2. QED
    BY <1>1, <2>1 DEF vars, OwnAllowance, InWindow
<1>2. CASE Skip
  <2>1. \A e : Budgeted(e)' = Budgeted(e)
    BY <1>2 DEF Skip, Budgeted, RuleStarts, WindowStart
  <2>2. allowance' \in 0..EventSteps
    BY <1>2, IcsAssumption DEF Skip, NextEvent
  <2>3. /\ next \in 1..Len(feed) /\ next' = next + 1 /\ skipped' = skipped \cup {next} /\ feed' = feed
        /\ window' = window /\ feedLeft' = feedLeft /\ Refused(feed[next])
    BY <1>2 DEF Skip
  <2>4. OwnAllowance'
    BY <2>1, <2>3 DEF OwnAllowance
  <2>5. skipped' \in SUBSET (1..(next' - 1)) /\ next' \in 1..(Len(feed') + 1)
    BY <2>3
  <2>6. QED
    BY <2>2, <2>3, <2>4, <2>5 DEF InWindow
<1>3. CASE Enumerate
  <2> DEFINE cost == Budgeted(feed[next])
             spent == Least(cost, Least(NextEvent, feedLeft))
  <2>1. next \in 1..Len(feed) /\ ~Refused(feed[next]) /\ Spend(cost, spent)
    BY <1>3 DEF Enumerate
  <2>2. cost \in Nat
    <3>1. IsEvent(feed[next])
      BY <2>1
    <3>2. feed[next].rule # None => feed[next].rule.freq # "HOURLY"
      BY <2>1 DEF Refused, Parses
    <3>3. QED
      BY <3>1, <3>2, CostIsNatural
  <2>3. \A e : Budgeted(e)' = Budgeted(e)
    BY <2>1 DEF Spend, Budgeted, RuleStarts, WindowStart
  <2> HIDE DEF cost
  <2>4. /\ spent \in Nat /\ spent <= EventSteps /\ spent <= feedLeft
        /\ spent # cost => cost > EventSteps \/ spent = feedLeft
    BY <2>2, IcsAssumption DEF Least, NextEvent
  <2> HIDE DEF spent
  <2>5. /\ next' = next + 1 /\ feed' = feed /\ window' = window
        /\ feedLeft' = feedLeft - spent /\ allowance' = EventSteps - spent
        /\ skipped' = IF spent = cost THEN skipped ELSE skipped \cup {next}
    BY <2>1 DEF Spend, Whole, NextEvent
  <2>6. allowance' \in 0..EventSteps /\ feedLeft' \in 0..FeedSteps /\ (feedLeft = 0 => feedLeft' = 0)
    BY <2>4, <2>5, IcsAssumption
  <2>7. OwnAllowance'
    <3> SUFFICES ASSUME NEW i \in skipped'
                 PROVE  Refused(feed[i])' \/ Budgeted(feed[i])' > EventSteps \/ feedLeft' = 0
      BY DEF OwnAllowance
    <3>1. Refused(feed[i])' = Refused(feed[i]) /\ Budgeted(feed[i])' = Budgeted(feed[i])
      BY <2>3, <2>5 DEF Refused
    <3>2. CASE i \in skipped
      BY <2>6, <3>1, <3>2 DEF OwnAllowance
    <3>3. CASE i = next /\ spent # cost
      <4>1. cost > EventSteps \/ feedLeft' = 0
        BY <2>4, <2>5, <3>3
      <4>2. QED
        BY <3>1, <3>3, <4>1 DEF cost
    <3>4. QED
      BY <2>5, <3>2, <3>3
  <2>8. skipped' \in SUBSET (1..(next' - 1)) /\ next' \in 1..(Len(feed') + 1)
    BY <2>1, <2>5
  <2>9. QED
    BY <2>5, <2>6, <2>7, <2>8 DEF InWindow
<1>4. QED
  BY <1>1, <1>2, <1>3 DEF Next

\* A VEVENT that could be enumerated alone is left out only when the feed's budget
\* is used up: no neighbour takes its allowance (nextEvent, expand.go).
THEOREM NeighboursDoNotPay == Spec => []OwnAllowance
<1>1. Init => ExpandInv
  BY InitExpandInv
<1>2. ExpandInv /\ [Next]_vars => ExpandInv'
  BY StepExpandInv
<1>3. ExpandInv => OwnAllowance
  BY DEF ExpandInv
<1>4. QED
  BY <1>1, <1>2, <1>3, PTL DEF Spec

-----------------------------------------------------------------------------
\* The walks and the series.

\* The days of the recurrence set, before COUNT and UNTIL end it.
Recurs(e) == {d \in Day : d >= e.start /\ Aligned(e, d) /\ Filters(e, d) /\ Placed(e, d)}

\* What a walk must do for the starts of a rule to be its series: rise, add days of
\* the recurrence set only, and from lower on every one.
Follows(e, steps, lower, end) ==
  /\ steps \in Seq(Entry) /\ Rising(steps)
  /\ \A d \in DaysIn(steps) : e.start <= d /\ d <= end => d \in Recurs(e)
  /\ \A d \in Recurs(e) : lower <= d /\ d <= end => d \in DaysIn(steps)

LEMMA DailyFollows ==
  ASSUME NEW e, IsEvent(e), e.rule \in Rule, e.rule.freq = "DAILY", Plain(e.rule),
         NEW lower \in Day, e.start <= lower, NEW end \in Day
  PROVE  Follows(e, Steps(e, lower, end), lower, end)
<1> DEFINE walk == DailySteps(e, lower, end)
<1>1. Steps(e, lower, end) = walk
  BY DEF Steps
<1>2. e.start \in Day
  BY DEF IsEvent
<1>3. /\ walk \in Seq(Entry) /\ Rising(walk)
      /\ \A d \in DaysIn(walk) : d \in Day /\ e.start <= d /\ d <= end /\ (d - e.start) % e.rule.interval = 0
      /\ \A d \in Day : lower <= d /\ d <= end /\ (d - e.start) % e.rule.interval = 0 => d \in DaysIn(walk)
  BY <1>2, DailyWalk
<1>4. ASSUME NEW d \in Day
      PROVE  d \in Recurs(e) <=> d >= e.start /\ (d - e.start) % e.rule.interval = 0
  <2>1. Aligned(e, d) <=> (d - e.start) % e.rule.interval = 0
    BY DEF Aligned
  <2>2. Filters(e, d)
    BY DEF Filters, Selects, Plain
  <2>3. Placed(e, d)
    BY DEF Placed, PlacedIn, Plain
  <2>4. QED
    BY <2>1, <2>2, <2>3 DEF Recurs
<1> HIDE DEF walk
<1>5. \A d \in Recurs(e) : d \in Day
  BY DEF Recurs
<1>6. Day \in SUBSET Nat /\ e.start \in Nat /\ lower \in Nat
  BY <1>2, Days
<1>7. QED
  BY <1>1, <1>3, <1>4, <1>5, <1>6 DEF Follows

LEMMA WeeklyFollows ==
  ASSUME NEW e, IsEvent(e), e.rule \in Rule, e.rule.freq = "WEEKLY", Plain(e.rule),
         NEW lower \in Day, e.start <= lower, NEW end \in Day
  PROVE  Follows(e, Steps(e, lower, end), lower, end)
<1> DEFINE walk == WeeklySteps(e, lower, end)
<1>1. Steps(e, lower, end) = walk
  BY DEF Steps
<1>2. e.start \in Day
  BY DEF IsEvent
<1>3. /\ walk \in Seq(Entry) /\ Rising(walk)
      /\ \A d \in DaysIn(walk) : d \in Day /\ e.start <= d /\ d <= end /\ WeekOn(e, d)
      /\ \A d \in Day : lower <= d /\ d <= end /\ WeekOn(e, d) => d \in DaysIn(walk)
  BY <1>2, WeeklyWalk
<1>4. ASSUME NEW d \in Day
      PROVE  d \in Recurs(e) <=> d >= e.start /\ WeekOn(e, d)
  <2>1. Aligned(e, d) <=> ((startOfISOWeek(d) - startOfISOWeek(e.start)) \div Week) % e.rule.interval = 0
    BY DEF Aligned
  <2>2. Filters(e, d) <=> WeekdayOf(d) \in Weekdays(e)
    <3>1. /\ e.rule.byMonth = <<>> /\ e.rule.byMonthDay = <<>>
          /\ \A bd \in ToSet(e.rule.byDay) : bd.ord = 0
      BY DEF Plain, ToSet
    <3>2. CASE e.rule.byDay = <<>>
      BY <3>1, <3>2 DEF Filters, Selects, Weekdays
    <3>3. CASE e.rule.byDay # <<>>
      BY <3>1, <3>3 DEF Filters, Selects, Weekdays
    <3>4. QED
      BY <3>2, <3>3
  <2>3. Placed(e, d)
    BY DEF Placed, PlacedIn, Plain
  <2>4. QED
    BY <2>1, <2>2, <2>3 DEF Recurs, WeekOn
<1> HIDE DEF walk
<1>5. \A d \in Recurs(e) : d \in Day
  BY DEF Recurs
<1>6. Day \in SUBSET Nat /\ e.start \in Nat /\ lower \in Nat
  BY <1>2, Days
<1>7. QED
  BY <1>1, <1>3, <1>4, <1>5, <1>6 DEF Follows

\* The starts of a rule whose walk follows the series are in order, of the series, and
\* all of it in the window.
LEMMA StartsOfTheSeries ==
  ASSUME NEW e, IsEvent(e), e.rule \in Rule, InWindow,
         NEW lower, lower = Lower(e, WindowStart(e)), NEW end, end = EndOf(e, window[2]),
         NEW steps, steps = Steps(e, lower, end), Follows(e, steps, lower, end)
  PROVE  LET starts == RuleStarts(e).starts
         IN /\ \A k, m \in DOMAIN starts : k < m => starts[k] < starts[m]
            /\ \A k \in DOMAIN starts : starts[k] \in Series(e)
            /\ \A d \in Series(e) : WindowStart(e) <= d /\ d <= window[2]
                                    => \E k \in DOMAIN starts : starts[k] = d
<1> DEFINE starts == RuleStarts(e).starts
           A == Reached(e, steps, end)
           R == Recurs(e)
           count == e.rule.count
<1>1. e.start \in Day /\ WindowStart(e) \in Day /\ window[2] \in Day
  BY WindowBegins DEF IsEvent, InWindow
<1>2. /\ lower \in Day /\ e.start <= lower /\ end \in Day
      /\ \A d \in Day : d <= window[2] /\ (e.rule.until # None => d <= e.rule.until) <=> d <= end
      /\ count \in Nat /\ e.rule # None
  BY <1>1, WalkBounds, RuleParts, IcsAssumption
<1>3. count > 0 => lower = e.start
  BY <1>1, Days DEF Lower
<1>4. count = 0 => lower = IF WindowStart(e) > e.start THEN WindowStart(e) ELSE e.start
  BY DEF Lower
<1>5. starts = Walked(e, steps, end).starts
  BY <1>2 DEF RuleStarts, ExpandRule, EndOf
<1>6. /\ \A k, m \in DOMAIN starts : k < m => starts[k] < starts[m]
      /\ {starts[k] : k \in DOMAIN starts} = FirstFew(e.rule, A)
  <2>1. steps \in Seq(Entry) /\ Rising(steps)
    BY DEF Follows
  <2>2. e.start \in Day /\ end \in Day
    BY <1>1, <1>2
  <2> DEFINE w == Walked(e, steps, end).starts
  <2>3. /\ \A k, m \in DOMAIN w : k < m => w[k] < w[m]
        /\ {w[k] : k \in DOMAIN w} = FirstFew(e.rule, A)
    <3> HIDE DEF A
    <3>1. Rising(steps) => /\ \A k, m \in DOMAIN w : k < m => w[k] < w[m]
                           /\ {w[k] : k \in DOMAIN w} = FirstFew(e.rule, Reached(e, steps, end))
      BY <2>1, <2>2, WalkAdds
    <3>2. QED
      BY <2>1, <3>1 DEF A
  <2>4. starts = w
    BY <1>5
  <2> HIDE DEF starts, w, A
  <2>5. QED
    BY <2>3, <2>4
<1>7. Series(e) = Ended(e.rule, R)
  BY <1>2 DEF Series, Recurs
<1>8. R \in SUBSET Day /\ Day \in SUBSET Nat /\ \A d \in R : e.start <= d
  BY Days DEF Recurs
<1>9. \A d \in A : d \in R /\ d <= end
  BY <1>1, <1>2, Days DEF Reached, Follows
<1>10. \A d \in R : lower <= d /\ d <= end => d \in A
  <2> SUFFICES ASSUME NEW d \in R, lower <= d, d <= end PROVE d \in A
    OBVIOUS
  <2>1. d \in DaysIn(steps)
    BY DEF Follows
  <2>2. d \in Nat /\ e.start \in Nat /\ end \in Nat /\ e.start <= d
    BY <1>1, <1>2, <1>8
  <2>3. d \in e.start..end
    BY <2>2
  <2>4. QED
    BY <2>1, <2>3 DEF Reached
<1> HIDE DEF starts, A, R
<1>11. ASSUME count > 0, NEW d \in R, d <= end
       PROVE  d \in A /\ {c \in A : c <= d} = {c \in R : c <= d}
  <2>1. \A c \in R : c <= d => c <= end /\ lower <= c
    BY <1>2, <1>3, <1>8, <1>11
  <2>2. \A c \in R : c <= d => c \in A
    BY <1>10, <2>1
  <2>3. d \in A
    <3>1. d \in Nat
      BY <1>8
    <3>2. d <= d
      BY <3>1
    <3>3. QED
      BY <2>2, <3>2
  <2>4. QED
    BY <1>9, <2>2, <2>3
<1>12. ASSUME NEW d \in FirstFew(e.rule, A) PROVE d \in Series(e)
  <2>1. d \in A /\ (count > 0 => Cardinality({c \in A : c <= d}) <= count)
    BY <1>12 DEF FirstFew
  <2>2. d \in R /\ d <= end
    BY <1>9, <2>1
  <2>3. e.rule.until # None => d <= e.rule.until
    BY <1>2, <1>8, <2>2
  <2>4. count > 0 => Cardinality({c \in R : c <= d}) <= count
    BY <1>11, <2>1, <2>2
  <2>5. QED
    BY <1>7, <2>2, <2>3, <2>4 DEF Ended
<1>13. ASSUME NEW d \in Series(e), WindowStart(e) <= d, d <= window[2]
       PROVE  d \in FirstFew(e.rule, A)
  <2>1. /\ d \in R /\ (e.rule.until # None => d <= e.rule.until)
        /\ (count > 0 => Cardinality({c \in R : c <= d}) <= count)
    BY <1>7, <1>13 DEF Ended
  <2>2. d <= end
    BY <1>2, <1>8, <1>13, <2>1
  <2>3. lower <= d
    BY <1>2, <1>3, <1>4, <1>8, <1>13, <2>1
  <2>4. d \in A
    BY <1>10, <2>1, <2>2, <2>3
  <2>5. count > 0 => Cardinality({c \in A : c <= d}) <= count
    BY <1>11, <2>1, <2>2
  <2>6. QED
    BY <2>4, <2>5 DEF FirstFew
<1>14. \A k \in DOMAIN starts : starts[k] \in Series(e)
  BY <1>6, <1>12
<1>15. \A d \in Series(e) : WindowStart(e) <= d /\ d <= window[2] => \E k \in DOMAIN starts : starts[k] = d
  BY <1>6, <1>13
<1>16. QED
  BY <1>6, <1>14, <1>15 DEF starts

-----------------------------------------------------------------------------
\* From starts to occurrences.

Once(s) == \A k, m \in DOMAIN s : s[k] = s[m] => k = m

\* What a sequence has at the places of a set, in their order.
LEMMA AtSomePlaces ==
  ASSUME NEW S, NEW s \in Seq(S), NEW P \in SUBSET DOMAIN s
  PROVE  LET kept == At(s, InOrder(P))
         IN /\ kept \in Seq(S)
            /\ ToSet(kept) = {s[p] : p \in P}
            /\ Once(s) => Once(kept)
<1> DEFINE g == InOrder(P)
           n == Cardinality(P)
           kept == At(s, g)
<1>1. DOMAIN s = 1..Len(s) /\ Len(s) \in Nat /\ \A p \in P : s[p] \in S
  OBVIOUS
<1>2. /\ DOMAIN g = 1..n /\ n \in Nat /\ \A p \in P : \E k \in 1..n : g[k] = p
      /\ \A k \in 1..n : g[k] \in P
      /\ \A k, m \in 1..n : k < m => g[k] < g[m]
  <2>1. P \in SUBSET Int
    BY <1>1
  <2>2. IsFiniteSet(P)
    <3>1. IsFiniteSet(DOMAIN s)
      BY <1>1, FS_Interval
    <3>2. QED
      BY <3>1, FS_Subset
  <2>3. QED
    BY <2>1, <2>2, InOrderIsSeq
<1> HIDE DEF g, n
<1>3. DOMAIN kept = 1..n /\ \A k \in 1..n : kept[k] = s[g[k]]
  BY <1>2 DEF At
<1>4. kept \in Seq(S)
  <2>1. kept \in [1..n -> S]
    BY <1>1, <1>2 DEF At
  <2>2. QED
    BY <1>2, <2>1, SeqDef
<1> HIDE DEF kept
<1>5. ToSet(kept) = {s[p] : p \in P}
  <2>1. ToSet(kept) = {kept[k] : k \in 1..n}
    BY <1>3 DEF ToSet
  <2>2. \A k \in 1..n : \E p \in P : kept[k] = s[p]
    BY <1>2, <1>3
  <2>3. \A p \in P : \E k \in 1..n : kept[k] = s[p]
    BY <1>2, <1>3
  <2>4. QED
    BY <2>1, <2>2, <2>3
<1>6. ASSUME Once(s) PROVE Once(kept)
  <2> SUFFICES ASSUME NEW k \in 1..n, NEW m \in 1..n, kept[k] = kept[m] PROVE k = m
    BY <1>3 DEF Once
  <2>1. g[k] = g[m] /\ g[k] \in P /\ g[m] \in P
    BY <1>2, <1>3, <1>6 DEF Once
  <2>2. g[k] \in Int /\ ~(k < m) /\ ~(m < k)
    BY <1>1, <1>2, <2>1
  <2>3. QED
    BY <1>2, <2>2
<1>7. QED
  BY <1>4, <1>5, <1>6 DEF kept, g

\* One sequence after another, without an element of both.
LEMMA OneAfterAnother ==
  ASSUME NEW S, NEW s \in Seq(S), NEW t \in Seq(S)
  PROVE  /\ s \o t \in Seq(S) /\ ToSet(s \o t) = ToSet(s) \cup ToSet(t)
         /\ Once(s) /\ Once(t) /\ ToSet(s) \cap ToSet(t) = {} => Once(s \o t)
<1> DEFINE u == s \o t
<1>1. /\ u \in Seq(S) /\ Len(s) \in Nat /\ Len(t) \in Nat
      /\ DOMAIN u = 1..(Len(s) + Len(t)) /\ DOMAIN s = 1..Len(s) /\ DOMAIN t = 1..Len(t)
      /\ \A i \in 1..(Len(s) + Len(t)) : u[i] = IF i <= Len(s) THEN s[i] ELSE t[i - Len(s)]
  BY ConcatProperties, LenProperties
<1> HIDE DEF u
<1>2. \A i \in DOMAIN s : i \in DOMAIN u /\ u[i] = s[i]
  BY <1>1
<1>3. \A i \in DOMAIN t : i + Len(s) \in DOMAIN u /\ u[i + Len(s)] = t[i]
  BY <1>1
<1>4. \A i \in DOMAIN u : \/ i \in DOMAIN s /\ u[i] = s[i]
                          \/ i > Len(s) /\ i - Len(s) \in DOMAIN t /\ u[i] = t[i - Len(s)]
  BY <1>1
<1>5. ToSet(u) = ToSet(s) \cup ToSet(t)
  <2>1. \A d \in ToSet(s) \cup ToSet(t) : d \in ToSet(u)
    BY <1>2, <1>3 DEF ToSet
  <2>2. \A d \in ToSet(u) : d \in ToSet(s) \cup ToSet(t)
    BY <1>4 DEF ToSet
  <2>3. QED
    BY <2>1, <2>2
<1>6. ASSUME Once(s), Once(t), ToSet(s) \cap ToSet(t) = {} PROVE Once(u)
  <2> SUFFICES ASSUME NEW i \in DOMAIN u, NEW j \in DOMAIN u, u[i] = u[j] PROVE i = j
    BY DEF Once
  <2>1. \A k \in DOMAIN s, m \in DOMAIN t : s[k] # t[m]
    BY <1>6 DEF ToSet
  <2>2. CASE i \in DOMAIN s /\ u[i] = s[i] /\ j \in DOMAIN s /\ u[j] = s[j]
    BY <1>6, <2>2 DEF Once
  <2>3. CASE /\ i > Len(s) /\ i - Len(s) \in DOMAIN t /\ u[i] = t[i - Len(s)]
             /\ j > Len(s) /\ j - Len(s) \in DOMAIN t /\ u[j] = t[j - Len(s)]
    <3>1. i - Len(s) = j - Len(s)
      BY <1>6, <2>3 DEF Once
    <3>2. QED
      BY <1>1, <3>1
  <2>4. QED
    BY <1>4, <2>1, <2>2, <2>3
<1>7. QED
  BY <1>1, <1>5, <1>6 DEF u

LEMMA WithAdditions ==
  ASSUME NEW e, e.rdates \in SUBSET Day, NEW starts \in Seq(Day)
  PROVE  /\ WithRDates(e, starts) \in Seq(Day)
         /\ ToSet(WithRDates(e, starts)) = ToSet(starts) \cup e.rdates
         /\ Once(starts) => Once(WithRDates(e, starts))
<1> DEFINE more == e.rdates \ ToSet(starts)
           t == InOrder(more)
<1>1. /\ t \in Seq(Day) /\ ToSet(t) = more /\ Once(t)
  <2>1. more \in SUBSET Day
    OBVIOUS
  <2> HIDE DEF more
  <2>2. more \in SUBSET Int /\ IsFiniteSet(more)
    BY <2>1, Days, FS_Subset
  <2>3. t \in Seq(Day)
    BY <2>1, SomeDays
  <2>4. /\ DOMAIN t = 1..Cardinality(more) /\ Cardinality(more) \in Nat
        /\ \A d \in more : \E k \in DOMAIN t : t[k] = d
        /\ \A k \in DOMAIN t : t[k] \in more
        /\ \A k, m \in DOMAIN t : k < m => t[k] < t[m]
    BY <2>2, InOrderIsSeq
  <2> HIDE DEF t
  <2>5. ToSet(t) = more
    BY <2>4 DEF ToSet
  <2>6. Once(t)
    <3> SUFFICES ASSUME NEW k \in DOMAIN t, NEW m \in DOMAIN t, t[k] = t[m] PROVE k = m
      BY DEF Once
    <3>1. t[k] \in more /\ (k < m => t[k] < t[m]) /\ (m < k => t[m] < t[k])
      BY <2>4
    <3> DEFINE x == t[k]
               y == t[m]
    <3>2. x \in Int /\ x = y /\ (k < m => x < y) /\ (m < k => y < x)
      BY <2>2, <3>1
    <3> HIDE DEF x, y
    <3>3. ~(k < m) /\ ~(m < k)
      BY <3>2
    <3>4. QED
      BY <2>4, <3>3
  <2>7. QED
    BY <2>3, <2>5, <2>6
<1>2. WithRDates(e, starts) = starts \o t
  BY DEF WithRDates
<1> HIDE DEF t
<1>3. /\ starts \o t \in Seq(Day) /\ ToSet(starts \o t) = ToSet(starts) \cup ToSet(t)
      /\ Once(starts) /\ Once(t) /\ ToSet(starts) \cap ToSet(t) = {} => Once(starts \o t)
  BY <1>1, OneAfterAnother
<1>4. ToSet(starts) \cap ToSet(t) = {} /\ ToSet(starts) \cup ToSet(t) = ToSet(starts) \cup e.rdates
  BY <1>1
<1> DEFINE u == starts \o t
<1>5. u \in Seq(Day) /\ ToSet(u) = ToSet(starts) \cup e.rdates /\ (Once(starts) => Once(u))
  BY <1>1, <1>3, <1>4
<1>6. WithRDates(e, starts) = u
  BY <1>2
<1> HIDE DEF u
<1>7. QED
  BY <1>5, <1>6

\* Where an override puts the occurrence of a day.
Moved(e, d) == IF d \in DOMAIN e.overrides THEN e.overrides[d] ELSE d
Keeps(e, d) == d \notin e.exdates /\ Moved(e, d) # Cancelled /\ Moved(e, d) \in window[1]..window[2]

LEMMA WindowDays ==
  ASSUME InWindow
  PROVE  window[1]..window[2] \in SUBSET Day /\ Cancelled \notin window[1]..window[2]
<1> DEFINE x == FirstOf[Len(FirstOf)]
<1>1. Day = 0..(x - 1) /\ x \in Nat /\ window[1] \in Day /\ window[2] \in Day /\ Cancelled \notin Day
  BY IcsAssumption DEF InWindow, Day
<1> HIDE DEF x
<1>2. QED
  BY <1>1

LEMMA OccurrencesOf ==
  ASSUME InWindow, NEW i \in Nat \ {0}, IsEvent(feed[i]),
         feed[i].rule # None => feed[i].rule.freq # "HOURLY"
  PROVE  LET e == feed[i]
             starts == RuleStarts(e).starts
             occ(d) == [of |-> i, key |-> d, start |-> Moved(e, d)]
         IN /\ Occurrences(i) \in Seq(Occurrence)
            /\ \A k \in DOMAIN Occurrences(i) : Occurrences(i)[k].of = i
            /\ ToSet(Occurrences(i)) = {occ(d) : d \in {c \in ToSet(starts) \cup e.rdates : Keeps(e, c)}}
            /\ Once(starts) => Once(Occurrences(i))
<1> DEFINE e == feed[i]
           starts == RuleStarts(e).starts
           occ(d) == [of |-> i, key |-> d, start |-> Moved(e, d)]
           s == WithRDates(e, starts)
           P == {k \in DOMAIN s : Keeps(e, s[k])}
           kept == At(s, InOrder(P))
           o == Occurrences(i)
<1>1. starts \in Seq(Day) /\ e.rdates \in SUBSET Day
  BY StartsAndCost DEF IsEvent
<1>2. o = [k \in DOMAIN kept |-> occ(kept[k])]
  BY DEF Occurrences, Moved, Keeps
<1> HIDE DEF o, starts
<1>3. s \in Seq(Day) /\ ToSet(s) = ToSet(starts) \cup e.rdates /\ (Once(starts) => Once(s))
  BY <1>1, WithAdditions
<1> HIDE DEF s
<1>4. kept \in Seq(Day) /\ ToSet(kept) = {s[p] : p \in P} /\ (Once(s) => Once(kept))
  <2>1. P \in SUBSET DOMAIN s
    OBVIOUS
  <2> HIDE DEF P
  <2>2. QED
    BY <1>3, <2>1, AtSomePlaces
<1>5. {s[p] : p \in P} = {c \in ToSet(starts) \cup e.rdates : Keeps(e, c)}
  <2>1. {s[p] : p \in P} = {c \in ToSet(s) : Keeps(e, c)}
    BY DEF ToSet
  <2>2. QED
    BY <1>3, <2>1
<1> HIDE DEF kept, P
<1>6. \A d \in ToSet(kept) : occ(d) \in Occurrence
  <2> TAKE d \in ToSet(kept)
  <2>1. d \in Day /\ Keeps(e, d)
    BY <1>4, <1>5 DEF ToSet
  <2>2. Moved(e, d) \in Day
    BY <2>1, WindowDays DEF Keeps
  <2>3. QED
    BY <2>1, <2>2 DEF Occurrence
<1>7. \A k \in DOMAIN kept : kept[k] \in ToSet(kept)
  BY DEF ToSet
<1>8. DOMAIN o = DOMAIN kept /\ \A k \in DOMAIN kept : o[k] = occ(kept[k])
  BY <1>2
<1>9. o \in Seq(Occurrence)
  <2>1. DOMAIN kept = 1..Len(kept) /\ Len(kept) \in Nat
    BY <1>4
  <2>2. \A k \in DOMAIN kept : o[k] \in Occurrence
    BY <1>6, <1>7, <1>8
  <2>3. o \in [1..Len(kept) -> Occurrence]
    BY <1>2, <2>1, <2>2
  <2>4. QED
    BY <2>1, <2>3, SeqDef
<1>10. ToSet(o) = {occ(d) : d \in ToSet(kept)}
  BY <1>8 DEF ToSet
<1>11. Once(starts) => Once(o)
  <2> SUFFICES ASSUME Once(starts), NEW k \in DOMAIN kept, NEW m \in DOMAIN kept, o[k] = o[m] PROVE k = m
    BY <1>8 DEF Once
  <2>1. occ(kept[k]).key = occ(kept[m]).key
    BY <1>8
  <2>2. kept[k] = kept[m]
    BY <2>1
  <2>3. QED
    BY <1>3, <1>4, <2>2 DEF Once
<1>12. \A k \in DOMAIN o : o[k].of = i
  BY <1>8
<1>13. ToSet(o) = {occ(d) : d \in {c \in ToSet(starts) \cup e.rdates : Keeps(e, c)}}
  BY <1>4, <1>5, <1>10
<1>14. QED
  BY <1>9, <1>11, <1>12, <1>13 DEF o, starts

\* Starts that are in order, of the series, and all of it from WindowStart to the
\* window's end.
GivesTheSeries(e) ==
  LET starts == RuleStarts(e).starts
  IN /\ \A k, m \in DOMAIN starts : k < m => starts[k] < starts[m]
     /\ \A k \in DOMAIN starts : starts[k] \in Series(e)
     /\ \A d \in Series(e) : WindowStart(e) <= d /\ d <= window[2] => \E k \in DOMAIN starts : starts[k] = d

LEMMA GivenIsPromised ==
  ASSUME InWindow, NEW i \in Nat \ {0}, IsEvent(feed[i]),
         feed[i].rule # None => feed[i].rule.freq # "HOURLY",
         GivesTheSeries(feed[i]), \A d \in DOMAIN feed[i].overrides : d <= window[2]
  PROVE  ToSet(Occurrences(i)) = Promised(i) /\ Once(Occurrences(i))
<1> DEFINE e == feed[i]
           starts == RuleStarts(e).starts
           occ(d) == [of |-> i, key |-> d, start |-> Moved(e, d)]
<1>1. /\ ToSet(Occurrences(i)) = {occ(d) : d \in {c \in ToSet(starts) \cup e.rdates : Keeps(e, c)}}
      /\ Once(starts) => Once(Occurrences(i))
  BY OccurrencesOf
<1>2. starts \in Seq(Day) /\ Series(e) \in SUBSET Day
  <2>1. starts \in Seq(Day)
    BY StartsAndCost
  <2>2. Series(e) \in SUBSET Day
    BY DEF Series, Ended, IsEvent
  <2>3. QED
    BY <2>1, <2>2
<1>3. /\ \A k, m \in DOMAIN starts : k < m => starts[k] < starts[m]
      /\ \A k \in DOMAIN starts : starts[k] \in Series(e)
      /\ \A d \in Series(e) : WindowStart(e) <= d /\ d <= window[2] => \E k \in DOMAIN starts : starts[k] = d
  BY DEF GivesTheSeries
<1> HIDE DEF starts
<1>4. Once(starts)
  <2> SUFFICES ASSUME NEW k \in DOMAIN starts, NEW m \in DOMAIN starts, starts[k] = starts[m] PROVE k = m
    BY DEF Once
  <2>1. starts[k] \in Int /\ k \in Nat /\ m \in Nat
    <3>1. starts[k] \in Day /\ k \in Nat /\ m \in Nat
      BY <1>2
    <3>2. QED
      BY <3>1, Days
  <2>2. ~(k < m) /\ ~(m < k)
    BY <1>3, <2>1
  <2>3. QED
    BY <2>1, <2>2
<1>5. ToSet(starts) \in SUBSET Series(e)
  BY <1>3 DEF ToSet
<1>6. \A d \in Series(e) : Moved(e, d) \in window[1]..window[2] => d \in ToSet(starts)
  <2> SUFFICES ASSUME NEW d \in Series(e), Moved(e, d) \in window[1]..window[2] PROVE d \in ToSet(starts)
    OBVIOUS
  <2>1. /\ WindowStart(e) \in Day /\ WindowStart(e) <= window[1]
        /\ \A c \in DOMAIN e.overrides : WindowStart(e) <= c
    BY WindowBegins
  <2>2. window[1] \in Nat /\ window[2] \in Nat /\ WindowStart(e) \in Nat /\ d \in Nat
    BY <1>2, <2>1, Days DEF InWindow
  <2>3. WindowStart(e) <= d /\ d <= window[2]
    BY <2>1, <2>2 DEF Moved
  <2>4. QED
    BY <1>3, <2>3 DEF ToSet
<1>7. {c \in ToSet(starts) \cup e.rdates : Keeps(e, c)}
        = {c \in (Series(e) \cup e.rdates) \ e.exdates : Moved(e, c) \in window[1]..window[2]}
  BY <1>5, <1>6, WindowDays DEF Keeps
<1>8. Promised(i) = {occ(d) : d \in {c \in (Series(e) \cup e.rdates) \ e.exdates :
                                        Moved(e, c) \in window[1]..window[2]}}
  BY DEF Promised, Moved
<1>9. QED
  BY <1>1, <1>4, <1>7, <1>8

-----------------------------------------------------------------------------
\* The results.

LEMMA CollectedSorts ==
  ASSUME NEW new \in Seq(Occurrence), occs \in Seq(Occurrence)
  PROVE  LET c == Collected(new)
             all == occs \o new
         IN /\ c \in Seq(Occurrence)
            /\ \A k, m \in DOMAIN c : k < m => c[k].start <= c[m].start
            /\ \E g \in Bijection(1..Len(all), 1..Len(all)) :
                 DOMAIN c = 1..Len(all) /\ \A k \in 1..Len(all) : c[k] = all[g[k]]
<1> DEFINE all == occs \o new
           n == Len(all)
           starts == [k \in DOMAIN all |-> all[k].start]
           g == Order(starts)
           c == Collected(new)
<1>1. all \in Seq(Occurrence)
  BY OneAfterAnother
<1>2. n \in Nat /\ DOMAIN all = 1..n /\ \A k \in 1..n : all[k] \in Occurrence
  <2> HIDE DEF all
  <2>1. QED
    BY <1>1
<1>3. c = At(all, g)
  BY DEF Collected
<1> HIDE DEF all, n, c
<1>4. DOMAIN starts = 1..n /\ \A k \in 1..n : starts[k] = all[k].start /\ starts[k] \in Int
  <2>1. \A o \in Occurrence : o.start \in Int
    BY Days DEF Occurrence
  <2>2. QED
    BY <1>2, <2>1
<1> HIDE DEF starts
<1>5. g \in Bijection(1..n, 1..n) /\ \A k, m \in 1..n : k < m => starts[g[k]] <= starts[g[m]]
  <2> HIDE DEF g
  <2>1. QED
    BY <1>2, <1>4, OrderRearranges DEF g
<1> HIDE DEF g
<1>6. g \in [1..n -> 1..n]
  BY <1>5 DEF Bijection, Injection
<1>7. DOMAIN c = 1..n /\ \A k \in 1..n : c[k] = all[g[k]] /\ g[k] \in 1..n
  BY <1>3, <1>6 DEF At
<1>8. c \in Seq(Occurrence)
  <2>1. c \in [1..n -> Occurrence]
    BY <1>2, <1>3, <1>6 DEF At
  <2>2. QED
    BY <1>2, <2>1, SeqDef
<1>9. \A k, m \in DOMAIN c : k < m => c[k].start <= c[m].start
  BY <1>4, <1>5, <1>7
<1>10. QED
  BY <1>5, <1>7, <1>8, <1>9 DEF c, n, all

\* Each event that was not skipped has its occurrences, and each of them once when it
\* has them once.
HasItsOwn(i) ==
  /\ ~Refused(feed[i])
  /\ {occs[k] : k \in Given(i)} = ToSet(Occurrences(i))
  /\ Once(Occurrences(i)) => \A k, m \in Given(i) : occs[k] = occs[m] => k = m

ResultInv ==
  /\ occs \in Seq(Occurrence)
  /\ \A k, m \in DOMAIN occs : k < m => occs[k].start <= occs[m].start
  /\ \A k \in DOMAIN occs : occs[k].of \in Done
  /\ \A i \in Done : HasItsOwn(i)

LEMMA InitResultInv == Init => ResultInv
<1> SUFFICES ASSUME Init PROVE ResultInv
  OBVIOUS
<1>1. occs = <<>> /\ Done = {}
  BY DEF Init, Done
<1>2. occs \in Seq(Occurrence) /\ DOMAIN occs = {}
  BY <1>1, EmptySeq
<1>3. QED
  BY <1>1, <1>2 DEF ResultInv

LEMMA StepResultInv ==
  ASSUME ExpandInv, ResultInv, [Next]_vars
  PROVE  ResultInv'
<1>1. ASSUME feed' = feed, window' = window, occs' = occs, Done' = Done PROVE ResultInv'
  <2>1. \A i : Occurrences(i)' = Occurrences(i)
    BY <1>1 DEF Occurrences, RuleStarts, WindowStart
  <2>2. \A i : HasItsOwn(i)' <=> HasItsOwn(i)
    BY <1>1, <2>1 DEF HasItsOwn, Given, Refused
  <2>3. QED
    BY <1>1, <2>2 DEF ResultInv
<1>2. next \in 1..Len(feed) /\ next' = next + 1 /\ skipped' = skipped \cup {next} => Done' = Done
  BY DEF Done, ExpandInv
<1>3. CASE UNCHANGED vars
  BY <1>1, <1>3 DEF vars, Done
<1>4. CASE Skip
  BY <1>1, <1>2, <1>4 DEF Skip, ExpandInv
<1>5. CASE Enumerate
  <2> DEFINE cost == Budgeted(feed[next])
             spent == Least(cost, Least(NextEvent, feedLeft))
             new == Occurrences(next)
             all == occs \o new
             n == Len(all)
  <2>1. next \in 1..Len(feed) /\ ~Refused(feed[next]) /\ Spend(cost, spent)
    BY <1>5 DEF Enumerate, ExpandInv
  <2>2. /\ feed' = feed /\ window' = window /\ next' = next + 1
        /\ \/ spent # cost /\ occs' = occs /\ skipped' = skipped \cup {next}
           \/ spent = cost /\ occs' = Collected(new) /\ skipped' = skipped
    <3> HIDE DEF cost, spent
    <3>1. QED
      BY <2>1 DEF Spend, Whole
  <2> HIDE DEF cost, spent
  <2>3. CASE spent # cost
    BY <1>1, <1>2, <2>1, <2>2, <2>3
  <2>4. CASE spent = cost
    <3>1. /\ new \in Seq(Occurrence) /\ \A k \in DOMAIN new : new[k].of = next
      <4>1. InWindow /\ next \in Nat \ {0} /\ IsEvent(feed[next])
        BY <2>1 DEF ExpandInv
      <4>2. feed[next].rule # None => feed[next].rule.freq # "HOURLY"
        BY <2>1 DEF Refused, Parses
      <4>3. QED
        BY <4>1, <4>2, OccurrencesOf
    <3>2. Done' = Done \cup {next} /\ next \notin Done /\ next \notin skipped
      BY <2>1, <2>2, <2>4 DEF Done, ExpandInv
    <3>3. \A i : Occurrences(i)' = Occurrences(i)
      <4>1. feed' = feed /\ window' = window
        BY <2>2
      <4>2. QED
        BY <4>1 DEF Occurrences, RuleStarts, WindowStart
    <3> HIDE DEF new
    <3>4. occs \in Seq(Occurrence)
      BY DEF ResultInv
    <3>5. /\ occs' \in Seq(Occurrence)
          /\ \A k, m \in DOMAIN occs' : k < m => occs'[k].start <= occs'[m].start
          /\ \E g \in Bijection(1..n, 1..n) :
               DOMAIN occs' = 1..n /\ \A k \in 1..n : occs'[k] = all[g[k]]
      <4> DEFINE c == Collected(new)
      <4>1. /\ c \in Seq(Occurrence)
            /\ \A k, m \in DOMAIN c : k < m => c[k].start <= c[m].start
            /\ \E g \in Bijection(1..n, 1..n) :
                 DOMAIN c = 1..n /\ \A k \in 1..n : c[k] = all[g[k]]
        BY <3>1, <3>4, CollectedSorts
      <4>2. occs' = c
        BY <2>2, <2>4
      <4> HIDE DEF c, all, n
      <4>3. QED
        BY <4>1, <4>2
    <3>6. /\ Len(occs) \in Nat /\ Len(new) \in Nat /\ n = Len(occs) + Len(new)
          /\ DOMAIN occs = 1..Len(occs) /\ DOMAIN new = 1..Len(new)
          /\ \A k \in 1..n : all[k] = IF k <= Len(occs) THEN occs[k] ELSE new[k - Len(occs)]
      BY <3>1, <3>4, ConcatProperties, LenProperties
    <3> HIDE DEF all, n
    <3>7. PICK g \in Bijection(1..n, 1..n) : DOMAIN occs' = 1..n /\ \A k \in 1..n : occs'[k] = all[g[k]]
      BY <3>5
    <3>8. /\ \A k \in 1..n : g[k] \in 1..n
          /\ \A k, m \in 1..n : g[k] = g[m] => k = m
          /\ \A p \in 1..n : \E k \in 1..n : g[k] = p
      BY DEF Bijection, Injection, Surjection, IsInjective
    <3>9. \A k \in DOMAIN occs : occs[k].of \in Done /\ occs[k].of # next
      BY <3>2 DEF ResultInv
    <3>10. ASSUME NEW i \in Done'
           PROVE  HasItsOwn(i)'
      <4> DEFINE part == IF i = next THEN (Len(occs) + 1)..n ELSE {p \in DOMAIN occs : occs[p].of = i}
      <4>1. \A p \in 1..n : all[p].of = i <=> p \in part
        <5>1. ASSUME NEW p \in 1..n, p <= Len(occs) PROVE all[p].of = i <=> p \in part
          <6>1. all[p] = occs[p] /\ p \in DOMAIN occs
            BY <3>6, <5>1
          <6>2. occs[p].of # next
            BY <3>9, <6>1
          <6>3. QED
            BY <3>6, <5>1, <6>1, <6>2
        <5>2. ASSUME NEW p \in 1..n, p > Len(occs) PROVE all[p].of = i <=> p \in part
          <6>1. all[p] = new[p - Len(occs)] /\ p - Len(occs) \in DOMAIN new
            BY <3>6, <5>2
          <6>2. all[p].of = next
            BY <3>1, <6>1
          <6>3. QED
            BY <3>6, <5>2, <6>2
        <5>3. QED
          BY <3>6, <5>1, <5>2
      <4>2. part \in SUBSET 1..n
        BY <3>6
      <4>3. ~Refused(feed[i])
        BY <2>1, <3>2, <3>10 DEF ResultInv, HasItsOwn
      <4>4. {all[p] : p \in part} = ToSet(Occurrences(i))
        <5>1. CASE i = next
          <6>1. \A p \in part : p - Len(occs) \in DOMAIN new /\ all[p] = new[p - Len(occs)]
            BY <3>6, <5>1
          <6>2. \A m \in DOMAIN new : m + Len(occs) \in part /\ all[m + Len(occs)] = new[m]
            BY <3>6, <5>1
          <6> HIDE DEF part
          <6>3. {all[p] : p \in part} = ToSet(new)
            BY <6>1, <6>2 DEF ToSet
          <6>4. QED
            BY <5>1, <6>3 DEF new
        <5>2. CASE i # next
          <6>1. part = Given(i) /\ \A p \in part : all[p] = occs[p]
            BY <3>6, <5>2 DEF Given
          <6>2. i \in Done
            BY <3>2, <3>10, <5>2
          <6>3. {occs[k] : k \in Given(i)} = ToSet(Occurrences(i))
            BY <6>2 DEF ResultInv, HasItsOwn
          <6> HIDE DEF part
          <6>4. QED
            BY <6>1, <6>3
        <5>3. QED
          BY <5>1, <5>2
      <4>5. ASSUME Once(Occurrences(i)), NEW p \in part, NEW q \in part, all[p] = all[q] PROVE p = q
        <5>1. CASE i = next
          <6>1. /\ p - Len(occs) \in DOMAIN new /\ all[p] = new[p - Len(occs)]
                /\ q - Len(occs) \in DOMAIN new /\ all[q] = new[q - Len(occs)]
            BY <3>6, <5>1
          <6>2. Once(new)
            BY <4>5, <5>1 DEF new
          <6>3. p - Len(occs) = q - Len(occs)
            BY <4>5, <6>1, <6>2 DEF Once
          <6>4. p \in Int /\ q \in Int
            BY <4>2
          <6>5. QED
            BY <3>6, <6>3, <6>4
        <5>2. CASE i # next
          <6>1. p \in Given(i) /\ q \in Given(i) /\ all[p] = occs[p] /\ all[q] = occs[q]
            BY <3>6, <5>2 DEF Given
          <6>2. i \in Done
            BY <3>2, <3>10, <5>2
          <6>3. QED
            BY <4>5, <6>1, <6>2 DEF ResultInv, HasItsOwn
        <5>3. QED
          BY <5>1, <5>2
      <4> HIDE DEF part
      <4>6. Given(i)' = {k \in 1..n : g[k] \in part}
        BY <3>7, <3>8, <4>1 DEF Given
      <4>7. {occs'[k] : k \in Given(i)'} = {all[p] : p \in part}
        <5>1. \A k \in Given(i)' : occs'[k] = all[g[k]] /\ g[k] \in part
          BY <3>7, <4>6
        <5>2. \A p \in part : \E k \in Given(i)' : g[k] = p
          BY <3>8, <4>2, <4>6
        <5>3. QED
          BY <5>1, <5>2
      <4>8. Once(Occurrences(i)) => \A k, m \in Given(i)' : occs'[k] = occs'[m] => k = m
        <5> SUFFICES ASSUME Once(Occurrences(i)), NEW k \in Given(i)', NEW m \in Given(i)', occs'[k] = occs'[m]
                     PROVE  k = m
          OBVIOUS
        <5>1. k \in 1..n /\ m \in 1..n /\ g[k] \in part /\ g[m] \in part
          BY <4>6
        <5>2. all[g[k]] = all[g[m]]
          BY <3>7, <5>1
        <5>3. g[k] = g[m]
          BY <4>5, <5>1, <5>2
        <5>4. QED
          BY <3>8, <5>1, <5>3
      <4>9. Occurrences(i)' = Occurrences(i) /\ Refused(feed[i])' = Refused(feed[i])
        BY <2>2, <3>3 DEF Refused
      <4>10. QED
        BY <4>3, <4>4, <4>7, <4>8, <4>9 DEF HasItsOwn
    <3>11. ASSUME NEW k \in DOMAIN occs' PROVE occs'[k].of \in Done'
      <4>1. occs'[k] = all[g[k]] /\ g[k] \in 1..n
        BY <3>7, <3>8, <3>11
      <4>2. CASE g[k] <= Len(occs)
        <5>1. g[k] \in DOMAIN occs /\ all[g[k]] = occs[g[k]]
          BY <3>6, <4>1, <4>2
        <5>2. QED
          BY <3>2, <3>9, <4>1, <5>1
      <4>3. CASE g[k] > Len(occs)
        <5>1. g[k] - Len(occs) \in DOMAIN new /\ all[g[k]] = new[g[k] - Len(occs)]
          BY <3>6, <4>1, <4>3
        <5>2. QED
          BY <3>1, <3>2, <4>1, <5>1
      <4>4. QED
        BY <3>6, <4>1, <4>2, <4>3
    <3>12. QED
      BY <3>5, <3>10, <3>11 DEF ResultInv
  <2>5. QED
    BY <2>3, <2>4
<1>6. QED
  BY <1>3, <1>4, <1>5 DEF Next

\* The state is as it is declared: the budgets stay within their bounds, an event is
\* skipped when the loop has passed it, and the occurrences are in the order of their
\* starts (Expand).
THEOREM OccurrencesAreInOrder == Spec => []TypeOK
<1>1. Init => ExpandInv /\ ResultInv
  BY InitExpandInv, InitResultInv
<1>2. ExpandInv /\ ResultInv /\ [Next]_vars => ExpandInv' /\ ResultInv'
  BY StepExpandInv, StepResultInv
<1>3. ExpandInv /\ ResultInv => TypeOK
  BY DEF ExpandInv, ResultInv, TypeOK
<1>4. QED
  BY <1>1, <1>2, <1>3, PTL DEF Spec

-----------------------------------------------------------------------------
\* Ordinals: the places of days in a month.

FrontPlace(A, d) == Cardinality({c \in A : c <= d})
BackPlace(A, d)  == Cardinality({c \in A : c >= d})

\* A sequence of the elements of a set in their order.
Lists(s, A) ==
  /\ s \in Seq(A)
  /\ \A k, m \in DOMAIN s : k < m => s[k] < s[m]
  /\ \A d \in A : \E k \in DOMAIN s : s[k] = d

LEMMA InOrderListsDays ==
  ASSUME NEW days \in SUBSET Day
  PROVE  Lists(InOrder(days), days) /\ IsFiniteSet(days) /\ days \in SUBSET Int
<1>1. days \in SUBSET Int /\ IsFiniteSet(days)
  BY Days, FS_Subset
<1>2. QED
  BY <1>1, InOrderIsSeq DEF Lists

LEMMA FrontAndBack ==
  ASSUME NEW A \in SUBSET Int, IsFiniteSet(A), NEW d \in A
  PROVE  /\ FrontPlace(A, d) \in Nat /\ BackPlace(A, d) \in Nat
         /\ FrontPlace(A, d) + BackPlace(A, d) = Cardinality(A) + 1
<1> DEFINE F == {c \in A : c <= d}
           B == {c \in A : c >= d}
<1>1. F \subseteq A /\ B \subseteq A /\ F \cup B = A /\ F \cap B = {d}
  <2>1. \A c \in A : (c \in F \/ c \in B) /\ (c \in F /\ c \in B <=> c = d)
    OBVIOUS
  <2>2. F \subseteq A /\ B \subseteq A
    OBVIOUS
  <2> HIDE DEF F, B
  <2>3. F \cup B = A
    BY <2>1, <2>2
  <2>4. F \cap B = {d}
    BY <2>1, <2>2
  <2>5. QED
    BY <2>2, <2>3, <2>4
<1> HIDE DEF F, B
<1>2. IsFiniteSet(F) /\ IsFiniteSet(B)
  BY <1>1, FS_Subset
<1>3. Cardinality(F) \in Nat /\ Cardinality(B) \in Nat /\ Cardinality(A) \in Nat
  BY <1>2, FS_CardinalityType
<1>4. Cardinality(F \cup B) = Cardinality(F) + Cardinality(B) - Cardinality(F \cap B)
  BY <1>2, FS_Union
<1>5. Cardinality({d}) = 1
  BY FS_Singleton
<1>6. Cardinality(A) = Cardinality(F) + Cardinality(B) - 1
  BY <1>1, <1>4, <1>5
<1>7. QED
  BY <1>3, <1>6 DEF FrontPlace, BackPlace, F, B

LEMMA PlacesInAList ==
  ASSUME NEW A \in SUBSET Int, IsFiniteSet(A), NEW s, Lists(s, A)
  PROVE  /\ Len(s) = Cardinality(A) /\ Len(s) \in Nat /\ DOMAIN s = 1..Len(s)
         /\ Once(s)
         /\ \A k \in 1..Len(s) : /\ s[k] \in A /\ FrontPlace(A, s[k]) = k
                                 /\ BackPlace(A, s[k]) = Len(s) + 1 - k
<1> DEFINE n == Len(s)
<1>1. /\ n \in Nat /\ DOMAIN s = 1..n /\ s \in [1..n -> A]
      /\ \A d \in A : \E k \in 1..n : s[k] = d
      /\ \A k, m \in 1..n : k < m => s[k] < s[m]
  BY LenProperties DEF Lists
<1> HIDE DEF n
<1>2. \A k \in 1..n : Cardinality({c \in A : c <= s[k]}) = k
  BY <1>1, PlaceIsRank
<1>3. \A k, m \in 1..n : s[k] = s[m] => k = m
  BY <1>2
<1>4. s \in Bijection(1..n, A)
  BY <1>1, <1>3 DEF Bijection, Injection, Surjection, IsInjective
<1>5. IsFiniteSet(1..n) /\ Cardinality(1..n) = n
  BY <1>1, FS_Interval
<1>6. Cardinality(A) = n
  BY <1>4, <1>5, FS_Bijection DEF ExistsBijection
<1>7. ASSUME NEW k \in 1..n PROVE s[k] \in A /\ FrontPlace(A, s[k]) = k /\ BackPlace(A, s[k]) = n + 1 - k
  <2>1. s[k] \in A /\ FrontPlace(A, s[k]) = k
    BY <1>1, <1>2 DEF FrontPlace
  <2>2. /\ FrontPlace(A, s[k]) \in Nat /\ BackPlace(A, s[k]) \in Nat
        /\ FrontPlace(A, s[k]) + BackPlace(A, s[k]) = Cardinality(A) + 1
    BY <2>1, FrontAndBack
  <2>3. QED
    BY <1>1, <1>6, <2>1, <2>2
<1>8. Once(s)
  BY <1>1, <1>3 DEF Once
<1>9. QED
  BY <1>1, <1>6, <1>7, <1>8 DEF n

\* An ordinal counts from the front, or from the back when it is negative.
LEMMA NthPicks ==
  ASSUME NEW A \in SUBSET Int, IsFiniteSet(A), NEW s, Lists(s, A), NEW pos \in Int, pos # 0
  PROVE  /\ Nth(s, pos) \in Seq(A) /\ Once(Nth(s, pos))
         /\ ToSet(Nth(s, pos)) = {d \in A : pos = FrontPlace(A, d) \/ pos = -BackPlace(A, d)}
<1> DEFINE n == Len(s)
           i == IF pos < 0 THEN n + pos + 1 ELSE pos
           picked == {d \in A : pos = FrontPlace(A, d) \/ pos = -BackPlace(A, d)}
<1>1. /\ n \in Nat /\ DOMAIN s = 1..n
      /\ \A k \in 1..n : s[k] \in A /\ FrontPlace(A, s[k]) = k /\ BackPlace(A, s[k]) = n + 1 - k
  BY PlacesInAList
<1>2. \A d \in A : \E k \in 1..n : s[k] = d
  BY <1>1 DEF Lists
<1>3. Nth(s, pos) = IF i \in 1..n THEN <<s[i]>> ELSE <<>>
  BY <1>1 DEF Nth
<1> HIDE DEF n
<1>4. \A k \in 1..n : s[k] \in picked <=> k = i
  <2> TAKE k \in 1..n
  <2> DEFINE f == FrontPlace(A, s[k])
             b == BackPlace(A, s[k])
  <2>1. s[k] \in A /\ f = k /\ b = n + 1 - k
    BY <1>1
  <2>2. s[k] \in picked <=> pos = f \/ pos = -b
    BY <2>1
  <2> HIDE DEF f, b, picked
  <2>3. pos = k \/ pos = -(n + 1 - k) <=> k = i
    BY <1>1
  <2>4. QED
    BY <2>1, <2>2, <2>3
<1>5. CASE i \in 1..n
  <2>1. picked = {s[i]}
    BY <1>2, <1>4, <1>5
  <2>2. Nth(s, pos) = <<s[i]>> /\ s[i] \in A
    BY <1>1, <1>3, <1>5
  <2>3. ToSet(<<s[i]>>) = {s[i]} /\ Once(<<s[i]>>) /\ <<s[i]>> \in Seq(A)
    BY <2>2 DEF ToSet, Once
  <2> HIDE DEF i
  <2>4. QED
    BY <2>1, <2>2, <2>3
<1>6. CASE i \notin 1..n
  <2>1. picked = {}
    BY <1>2, <1>4, <1>6
  <2>2. Nth(s, pos) = <<>> /\ <<>> \in Seq(A) /\ DOMAIN <<>> = {}
    BY <1>3, <1>6, EmptySeq
  <2> HIDE DEF i
  <2>3. QED
    BY <2>1, <2>2 DEF ToSet, Once
<1>7. QED
  BY <1>5, <1>6

\* Sorting lists a set, when nothing is there twice.
LEMMA SortedLists ==
  ASSUME NEW s \in Seq(Day), Once(s)
  PROVE  Lists(Sorted(s), ToSet(s)) /\ ToSet(s) \in SUBSET Day
<1> DEFINE n == Len(s)
           g == Order(s)
           t == Sorted(s)
<1>1. n \in Nat /\ DOMAIN s = 1..n /\ \A i \in 1..n : s[i] \in Day
  OBVIOUS
<1>2. \A i \in 1..n : s[i] \in Int
  BY <1>1, Days
<1>3. g \in Bijection(1..n, 1..n) /\ \A k, m \in 1..n : k < m => s[g[k]] <= s[g[m]]
  BY <1>1, <1>2, OrderRearranges
<1>4. t = At(s, g)
  BY DEF Sorted
<1> HIDE DEF g, t, n
<1>5. /\ g \in [1..n -> 1..n] /\ \A p \in 1..n : \E k \in 1..n : g[k] = p
      /\ \A k, m \in 1..n : g[k] = g[m] => k = m
  BY <1>3 DEF Bijection, Injection, Surjection, IsInjective
<1>6. DOMAIN t = 1..n /\ \A k \in 1..n : t[k] = s[g[k]] /\ g[k] \in 1..n
  BY <1>4, <1>5 DEF At
<1>7. \A i \in 1..n : s[i] \in ToSet(s)
  BY <1>1 DEF ToSet
<1>8. t \in Seq(ToSet(s))
  <2>1. t \in [1..n -> ToSet(s)]
    BY <1>4, <1>5, <1>7 DEF At
  <2>2. QED
    BY <1>1, <2>1, SeqDef
<1>9. \A k, m \in 1..n : k < m => t[k] < t[m]
  <2> SUFFICES ASSUME NEW k \in 1..n, NEW m \in 1..n, k < m PROVE t[k] < t[m]
    OBVIOUS
  <2>1. t[k] <= t[m] /\ t[k] \in Int /\ t[m] \in Int
    BY <1>2, <1>3, <1>6
  <2>2. t[k] # t[m]
    <3>1. g[k] # g[m]
      BY <1>5
    <3>2. s[g[k]] # s[g[m]]
      BY <1>1, <1>6, <3>1 DEF Once
    <3>3. QED
      BY <1>6, <3>2
  <2>3. QED
    BY <2>1, <2>2
<1>10. \A d \in ToSet(s) : \E k \in 1..n : t[k] = d
  <2> TAKE d \in ToSet(s)
  <2>1. PICK p \in 1..n : s[p] = d
    BY <1>1 DEF ToSet
  <2>2. PICK k \in 1..n : g[k] = p
    BY <1>5
  <2>3. QED
    BY <1>6, <2>1, <2>2
<1>11. ToSet(s) \in SUBSET Day
  BY <1>1 DEF ToSet
<1>12. QED
  BY <1>6, <1>8, <1>9, <1>10, <1>11 DEF Lists, t

\* A list of days as a walk.
LEMMA ListIsWalk ==
  ASSUME NEW A \in SUBSET Day, NEW s, Lists(s, A)
  PROVE  s \in Seq(Entry) /\ s \in Seq(Day) /\ Rising(s) /\ DaysIn(s) = A /\ ToSet(s) = A
<1>1. s \in Seq(A) /\ s \in Seq(Day) /\ s \in Seq(Entry)
  BY Days, SeqOfMore DEF Lists, Entry
<1>2. \A k \in DOMAIN s : s[k] \in A /\ s[k] # None
  BY <1>1, Days
<1>3. DatesOf(s) = DOMAIN s
  BY <1>2 DEF DatesOf
<1>4. \A d \in A : \E k \in DOMAIN s : s[k] = d
  BY DEF Lists
<1>5. DaysIn(s) = A /\ ToSet(s) = A
  BY <1>2, <1>3, <1>4 DEF DaysIn, ToSet
<1>6. Rising(s)
  BY <1>3 DEF Rising, Lists
<1>7. QED
  BY <1>1, <1>5, <1>6

\* Sequences without an element twice, one after the other.
Apart(ss) ==
  /\ \A i \in DOMAIN ss : Once(ss[i])
  /\ \A i, j \in DOMAIN ss : i < j => ToSet(ss[i]) \cap ToSet(ss[j]) = {}

LEMMA FlatKeepsApart ==
  ASSUME NEW S, NEW ss \in Seq(Seq(S)),
         NEW f, f = [i \in 1..Len(ss) |-> FlatStep(ss, f, i)]
  PROVE  \A i \in 1..Len(ss) :
           /\ f[i] \in Seq(S)
           /\ ToSet(f[i]) = UNION {ToSet(ss[j]) : j \in 1..i}
           /\ Apart(ss) => Once(f[i])
<1> DEFINE Good(i) == /\ f[i] \in Seq(S)
                      /\ ToSet(f[i]) = UNION {ToSet(ss[j]) : j \in 1..i}
                      /\ Apart(ss) => Once(f[i])
           Bad == {i \in 1..Len(ss) : ~Good(i)}
<1>1. SUFFICES ASSUME Bad # {} PROVE FALSE
  OBVIOUS
<1>2. Len(ss) \in Nat /\ DOMAIN ss = 1..Len(ss) /\ \A i \in 1..Len(ss) : ss[i] \in Seq(S)
  OBVIOUS
<1>3. \A i \in 1..Len(ss) : f[i] = FlatStep(ss, f, i)
  OBVIOUS
<1> HIDE DEF Good
<1>4. PICK k \in Bad : \A m \in Bad : k <= m
  <2>1. Bad \in SUBSET Nat
    OBVIOUS
  <2> HIDE DEF Bad
  <2>2. QED
    BY <1>1, <2>1, FirstOfASet
<1>5. k \in 1..Len(ss) /\ ~Good(k)
  BY <1>4
<1>6. CASE k = 1
  <2>1. f[k] = ss[k]
    BY <1>3, <1>5, <1>6 DEF FlatStep
  <2>2. UNION {ToSet(ss[j]) : j \in 1..k} = ToSet(ss[k])
    <3>1. 1..k = {k}
      BY <1>6
    <3>2. QED
      BY <3>1
  <2>3. Good(k)
    BY <1>2, <1>5, <2>1, <2>2 DEF Good, Apart
  <2>4. QED
    BY <1>5, <2>3
<1>7. CASE k # 1
  <2>1. k - 1 \in 1..Len(ss) /\ k - 1 < k /\ k - 1 \notin Bad
    BY <1>2, <1>4, <1>5, <1>7
  <2>2. Good(k - 1)
    BY <2>1
  <2>3. f[k] = f[k - 1] \o ss[k]
    BY <1>3, <1>5, <1>7 DEF FlatStep
  <2>4. f[k - 1] \in Seq(S) /\ ss[k] \in Seq(S)
    BY <1>2, <1>5, <2>2 DEF Good
  <2>5. /\ f[k] \in Seq(S)
        /\ ToSet(f[k]) = ToSet(f[k - 1]) \cup ToSet(ss[k])
        /\ Once(f[k - 1]) /\ Once(ss[k]) /\ ToSet(f[k - 1]) \cap ToSet(ss[k]) = {} => Once(f[k])
    <3> DEFINE x == f[k - 1]
               y == ss[k]
               joined == x \o y
    <3>1. x \in Seq(S) /\ y \in Seq(S) /\ f[k] = joined
      BY <2>3, <2>4
    <3> HIDE DEF x, y
    <3>2. /\ joined \in Seq(S) /\ ToSet(joined) = ToSet(x) \cup ToSet(y)
          /\ Once(x) /\ Once(y) /\ ToSet(x) \cap ToSet(y) = {} => Once(joined)
      BY <3>1, OneAfterAnother
    <3> HIDE DEF joined
    <3>3. QED
      BY <3>1, <3>2 DEF x, y
  <2>6. ToSet(f[k - 1]) = UNION {ToSet(ss[j]) : j \in 1..(k - 1)}
    BY <2>2 DEF Good
  <2>7. 1..k = (1..(k - 1)) \cup {k}
    BY <1>5, <2>1
  <2>8. ToSet(f[k]) = UNION {ToSet(ss[j]) : j \in 1..k}
    BY <2>5, <2>6, <2>7
  <2>9. ASSUME Apart(ss) PROVE Once(f[k])
    <3>1. Once(f[k - 1]) /\ Once(ss[k])
      BY <1>2, <1>5, <2>2, <2>9 DEF Good, Apart
    <3>2. \A j \in 1..(k - 1) : j \in DOMAIN ss /\ j < k
      BY <1>2, <1>5
    <3>3. \A j \in 1..(k - 1) : ToSet(ss[j]) \cap ToSet(ss[k]) = {}
      BY <1>2, <1>5, <2>9, <3>2 DEF Apart
    <3>4. ToSet(f[k - 1]) \cap ToSet(ss[k]) = {}
      BY <2>6, <3>3
    <3>5. QED
      BY <2>5, <3>1, <3>4
  <2>10. Good(k)
    BY <2>5, <2>8, <2>9 DEF Good
  <2>11. QED
    BY <1>5, <2>10
<1>8. QED
  BY <1>6, <1>7

LEMMA FlattenKeepsApart ==
  ASSUME NEW S, NEW n \in Nat, NEW ss \in [1..n -> Seq(S)]
  PROVE  /\ FlattenSeq(ss) \in Seq(S)
         /\ ToSet(FlattenSeq(ss)) = UNION {ToSet(ss[j]) : j \in 1..n}
         /\ Apart(ss) => Once(FlattenSeq(ss))
<1> DEFINE flat[i \in 1..n] == IF i = 1 THEN ss[i] ELSE flat[i - 1] \o ss[i]
<1>1. ss \in Seq(Seq(S)) /\ DOMAIN ss = 1..n /\ Len(ss) = n
  BY SeqDef
<1>2. CASE n = 0
  <2>1. FlattenSeq(ss) = ss /\ ss = <<>> /\ 1..n = {}
    BY <1>1, <1>2 DEF FlattenSeq
  <2>2. <<>> \in Seq(S) /\ DOMAIN <<>> = {}
    BY EmptySeq
  <2>3. QED
    BY <2>1, <2>2 DEF ToSet, Once
<1>3. CASE n # 0
  <2>1. PICK g : g = [i \in 1..n |-> FlatStep(ss, g, i)]
    BY <1>1, FlatExists
  <2>2. flat = [i \in 1..n |-> IF i = 1 THEN ss[i] ELSE flat[i - 1] \o ss[i]]
    BY <2>1 DEF FlatStep
  <2>3. FlattenSeq(ss) = flat[n]
    BY <1>1, <1>3 DEF FlattenSeq
  <2> HIDE DEF flat
  <2>4. flat = [i \in 1..Len(ss) |-> FlatStep(ss, flat, i)]
    BY <1>1, <2>2 DEF FlatStep
  <2>5. \A i \in 1..Len(ss) :
           /\ flat[i] \in Seq(S)
           /\ ToSet(flat[i]) = UNION {ToSet(ss[j]) : j \in 1..i}
           /\ Apart(ss) => Once(flat[i])
    BY <1>1, <2>4, FlatKeepsApart
  <2>6. n \in 1..Len(ss)
    BY <1>1, <1>3
  <2>7. QED
    BY <2>3, <2>5, <2>6
<1>4. QED
  BY <1>2, <1>3

-----------------------------------------------------------------------------
\* The calendar.

LEMMA FirstsRise ==
  \A j, k \in 1..Len(FirstOf) : j < k => FirstOf[j] < FirstOf[k]
<1> DEFINE n == Len(FirstOf)
           Bad == {k \in 1..n : \E j \in 1..n : j < k /\ ~(FirstOf[j] < FirstOf[k])}
<1>1. /\ n \in Nat /\ \A k \in 1..n : FirstOf[k] \in Nat
      /\ \A k \in 1..(n - 1) : FirstOf[k] < FirstOf[k + 1]
  BY IcsAssumption DEF Month
<1> HIDE DEF n
<1>2. SUFFICES ASSUME Bad # {} PROVE FALSE
  BY DEF n
<1>3. PICK k \in Bad : \A m \in Bad : k <= m
  <2>1. Bad \in SUBSET Nat
    BY <1>1
  <2> HIDE DEF Bad
  <2>2. QED
    BY <1>2, <2>1, FirstOfASet
<1>4. PICK j \in 1..n : j < k /\ ~(FirstOf[j] < FirstOf[k])
  BY <1>3
<1>5. k \in 1..n /\ k - 1 \in 1..(n - 1) /\ k - 1 \in 1..n /\ k - 1 \notin Bad
  BY <1>1, <1>3, <1>4
<1>6. FirstOf[k - 1] < FirstOf[k]
  <2>1. FirstOf[k - 1] < FirstOf[(k - 1) + 1] /\ (k - 1) + 1 = k
    BY <1>1, <1>5
  <2>2. QED
    BY <2>1
<1>7. j = k - 1 \/ (j < k - 1 /\ FirstOf[j] < FirstOf[k - 1])
  BY <1>4, <1>5
<1>8. FirstOf[j] < FirstOf[k]
  BY <1>1, <1>5, <1>6, <1>7
<1>9. QED
  BY <1>4, <1>8

LEMMA MonthDays ==
  ASSUME NEW k \in Month
  PROVE  /\ FirstOf[k] \in Nat /\ FirstOf[k + 1] \in Nat /\ FirstOf[k] < FirstOf[k + 1]
         /\ DaysOf(k) = FirstOf[k]..(FirstOf[k + 1] - 1)
         /\ \A d \in Day : d \in DaysOf(k) <=> MonthOf(d) = k
<1> DEFINE n == Len(FirstOf)
           x == FirstOf[n]
<1>1. n \in Nat /\ n > 1 /\ k \in 1..n /\ k + 1 \in 1..n /\ n \in 1..n /\ \A m \in 1..n : FirstOf[m] \in Nat
  BY IcsAssumption DEF Month
<1>2. \A m \in 1..n : m < n => FirstOf[m] < x
  BY <1>1, FirstsRise
<1>3. FirstOf[k] \in Nat /\ FirstOf[k + 1] \in Nat /\ FirstOf[k] < FirstOf[k + 1]
  BY <1>1, IcsAssumption
<1>4. x \in Nat /\ FirstOf[k + 1] <= x
  BY <1>1, <1>2
<1>5. Day = 0..(x - 1)
  BY DEF Day
<1>6. DaysOf(k) = FirstOf[k]..(FirstOf[k + 1] - 1)
  <2> DEFINE a == FirstOf[k]
             b == FirstOf[k + 1]
  <2>1. DaysOf(k) = {d \in Day : a <= d /\ d < b} /\ a \in Nat /\ b \in Nat /\ b <= x
    BY <1>3, <1>4 DEF DaysOf
  <2> HIDE DEF a, b, x
  <2>2. {d \in 0..(x - 1) : a <= d /\ d < b} = a..(b - 1)
    BY <1>4, <2>1
  <2>3. QED
    BY <1>5, <2>1, <2>2 DEF a, b
<1>7. ASSUME NEW d \in Day PROVE d \in DaysOf(k) <=> MonthOf(d) = k
  <2> DEFINE m == MonthOf(d)
  <2>1. m \in Month /\ FirstOf[m] <= d /\ d < FirstOf[m + 1]
    BY MonthsOf
  <2> HIDE DEF m
  <2>2. d \in Nat /\ m \in 1..n /\ m + 1 \in 1..n
    BY <1>1, <2>1, Days DEF Month
  <2>3. ASSUME d \in DaysOf(k) PROVE m = k
    <3>1. FirstOf[k] <= d /\ d < FirstOf[k + 1]
      BY <2>3 DEF DaysOf
    <3>2. CASE m < k
      <4>1. m + 1 = k \/ FirstOf[m + 1] < FirstOf[k]
        BY <1>1, <2>2, <3>2, FirstsRise
      <4>2. QED
        BY <1>1, <2>1, <2>2, <3>1, <4>1
    <3>3. CASE k < m
      <4>1. k + 1 = m \/ FirstOf[k + 1] < FirstOf[m]
        BY <1>1, <2>2, <3>3, FirstsRise
      <4>2. QED
        BY <1>1, <2>1, <2>2, <3>1, <4>1
    <3>4. QED
      BY <1>1, <2>2, <3>2, <3>3
  <2>4. ASSUME m = k PROVE d \in DaysOf(k)
    BY <2>1, <2>4 DEF DaysOf
  <2>5. QED
    BY <2>3, <2>4 DEF m
<1>8. QED
  BY <1>3, <1>6, <1>7

LEMMA MonthsInOrder ==
  ASSUME NEW c \in Day, NEW d \in Day
  PROVE  /\ c <= d => MonthOf(c) <= MonthOf(d)
         /\ MonthOf(c) < MonthOf(d) => c < d
         /\ \A k \in Month : FirstOf[k] <= d <=> k <= MonthOf(d)
<1> DEFINE j == MonthOf(c)
           m == MonthOf(d)
           n == Len(FirstOf)
<1>1. j \in Month /\ FirstOf[j] <= c /\ c < FirstOf[j + 1] /\ m \in Month /\ FirstOf[m] <= d /\ d < FirstOf[m + 1]
  BY MonthsOf
<1> HIDE DEF j, m
<1>2. \A k \in Month : k \in Int /\ k \in 1..n /\ k + 1 \in 1..n /\ FirstOf[k] \in Nat /\ FirstOf[k + 1] \in Nat
  BY IcsAssumption DEF Month
<1>3. c \in Nat /\ d \in Nat
  BY Days
<1>4. \A k, l \in Month : k < l => FirstOf[k + 1] <= FirstOf[l]
  <2> TAKE k, l \in Month
  <2> HAVE k < l
  <2>1. k + 1 = l \/ k + 1 < l
    BY <1>2
  <2>2. k + 1 < l => FirstOf[k + 1] < FirstOf[l]
    BY <1>2, FirstsRise
  <2>3. QED
    BY <1>2, <2>1, <2>2
<1>5. ASSUME j < m PROVE c < d
  <2>1. FirstOf[j + 1] <= FirstOf[m]
    BY <1>1, <1>4, <1>5
  <2>2. QED
    BY <1>1, <1>2, <1>3, <2>1
<1>6. ASSUME m < j PROVE d < c
  <2>1. FirstOf[m + 1] <= FirstOf[j]
    BY <1>1, <1>4, <1>6
  <2>2. QED
    BY <1>1, <1>2, <1>3, <2>1
<1>7. ASSUME NEW k \in Month PROVE FirstOf[k] <= d <=> k <= m
  <2>1. CASE k = m
    BY <1>1, <1>2, <2>1
  <2>2. CASE k < m
    <3>1. FirstOf[k + 1] <= FirstOf[m]
      BY <1>1, <1>4, <2>2
    <3>2. FirstOf[k] < FirstOf[k + 1]
      BY MonthDays
    <3>3. QED
      BY <1>1, <1>2, <1>3, <2>2, <3>1, <3>2
  <2>3. CASE m < k
    <3>1. FirstOf[m + 1] <= FirstOf[k]
      BY <1>1, <1>4, <2>3
    <3>2. QED
      BY <1>1, <1>2, <1>3, <2>3, <3>1
  <2>4. QED
    BY <1>1, <1>2, <2>1, <2>2, <2>3
<1>8. c <= d => j <= m
  BY <1>1, <1>2, <1>3, <1>6
<1>9. QED
  BY <1>5, <1>7, <1>8 DEF j, m

\* Where a day stands in its month.
LEMMA DayOfMonth ==
  ASSUME NEW k \in Month, NEW d \in DaysOf(k)
  PROVE  /\ FrontPlace(DaysOf(k), d) = d - FirstOf[k] + 1
         /\ BackPlace(DaysOf(k), d) = FirstOf[k + 1] - d
<1> DEFINE a == FirstOf[k]
           b == FirstOf[k + 1]
<1>1. a \in Nat /\ b \in Nat /\ DaysOf(k) = a..(b - 1)
  BY MonthDays
<1> HIDE DEF a, b
<1>2. d \in Int /\ a <= d /\ d <= b - 1
  BY <1>1
<1>3. {c \in a..(b - 1) : c <= d} = a..d /\ {c \in a..(b - 1) : c >= d} = d..(b - 1)
  BY <1>1, <1>2
<1>4. Cardinality(a..d) = d - a + 1 /\ Cardinality(d..(b - 1)) = (b - 1) - d + 1
  BY <1>1, <1>2, FS_Interval
<1>5. FrontPlace(DaysOf(k), d) = d - a + 1 /\ BackPlace(DaysOf(k), d) = b - d
  <2>1. FrontPlace(a..(b - 1), d) = Cardinality(a..d) /\ BackPlace(a..(b - 1), d) = Cardinality(d..(b - 1))
    BY <1>3 DEF FrontPlace, BackPlace
  <2>2. FrontPlace(a..(b - 1), d) = d - a + 1 /\ BackPlace(a..(b - 1), d) = b - d
    BY <1>1, <1>2, <1>4, <2>1
  <2>3. QED
    BY <1>1, <2>2
<1>6. QED
  BY <1>5 DEF a, b

-----------------------------------------------------------------------------
\* The days a rule selects in a month.

\* Several ordinals of one sign pick different days.
Picks(A, pos) == {d \in A : \E p \in ToSet(pos) : p = FrontPlace(A, d) \/ p = -BackPlace(A, d)}

LEMMA NthsPick ==
  ASSUME NEW A \in SUBSET Int, IsFiniteSet(A), NEW s, Lists(s, A),
         NEW pos \in Seq(Int), \A i \in DOMAIN pos : pos[i] # 0, OneSign(pos), Distinct(pos)
  PROVE  LET all == FlattenSeq([i \in DOMAIN pos |-> Nth(s, pos[i])])
         IN all \in Seq(A) /\ Once(all) /\ ToSet(all) = Picks(A, pos)
<1> DEFINE n == Len(pos)
           each == [i \in DOMAIN pos |-> Nth(s, pos[i])]
           picked(p) == {d \in A : p = FrontPlace(A, d) \/ p = -BackPlace(A, d)}
<1>1. n \in Nat /\ DOMAIN pos = 1..n /\ \A i \in 1..n : pos[i] \in Int /\ pos[i] # 0
  OBVIOUS
<1> HIDE DEF n
<1>2. DOMAIN each = 1..n /\ \A i \in 1..n : each[i] = Nth(s, pos[i])
  BY <1>1
<1>3. \A i \in 1..n : each[i] \in Seq(A) /\ Once(each[i]) /\ ToSet(each[i]) = picked(pos[i])
  BY <1>1, <1>2, NthPicks
<1>4. each \in [1..n -> Seq(A)]
  BY <1>1, <1>3
<1> HIDE DEF each
<1>5. Apart(each)
  <2> SUFFICES ASSUME NEW i \in 1..n, NEW j \in 1..n, i < j PROVE picked(pos[i]) \cap picked(pos[j]) = {}
    BY <1>2, <1>3 DEF Apart
  <2>1. pos[i] # pos[j] /\ pos[i] \in Int /\ pos[j] \in Int
    BY <1>1 DEF Distinct
  <2>2. (pos[i] > 0 /\ pos[j] > 0) \/ (pos[i] < 0 /\ pos[j] < 0)
    BY <1>1 DEF OneSign
  <2>3. ASSUME NEW d \in A, d \in picked(pos[i]), d \in picked(pos[j]) PROVE FALSE
    <3>1. FrontPlace(A, d) \in Nat /\ BackPlace(A, d) \in Nat
      BY FrontAndBack
    <3> DEFINE f == FrontPlace(A, d)
               b == BackPlace(A, d)
    <3>2. f \in Nat /\ b \in Nat /\ (pos[i] = f \/ pos[i] = -b) /\ (pos[j] = f \/ pos[j] = -b)
      BY <2>3, <3>1
    <3> HIDE DEF f, b
    <3>3. QED
      BY <2>1, <2>2, <3>2
  <2>4. QED
    BY <2>3
<1>6. /\ FlattenSeq(each) \in Seq(A) /\ Once(FlattenSeq(each))
      /\ ToSet(FlattenSeq(each)) = UNION {ToSet(each[j]) : j \in 1..n}
  BY <1>1, <1>4, <1>5, FlattenKeepsApart
<1>7. ToSet(pos) = {pos[j] : j \in 1..n}
  BY <1>1 DEF ToSet
<1>8. UNION {ToSet(each[j]) : j \in 1..n} = Picks(A, pos)
  <2>1. \A d : d \in UNION {ToSet(each[j]) : j \in 1..n} <=> \E j \in 1..n : d \in picked(pos[j])
    BY <1>3
  <2>2. \A d : d \in Picks(A, pos) <=> \E j \in 1..n : d \in picked(pos[j])
    BY <1>7 DEF Picks
  <2> HIDE DEF picked
  <2>3. QED
    BY <2>1, <2>2
<1>9. QED
  BY <1>6, <1>8 DEF each

\* BYDAY takes the days of a weekday, or one of them.
OnWeekday(k, bd) == {d \in DaysOf(k) : WeekdayOf(d) = bd.weekday}
TakenBy(bd, k) ==
  {d \in OnWeekday(k, bd) :
     bd.ord \in {0, FrontPlace(OnWeekday(k, bd), d), -BackPlace(OnWeekday(k, bd), d)}}

LEMMA ByDayPicks ==
  ASSUME NEW bd \in WeekdayPart, NEW k
  PROVE  ByDay(bd, k) \in Seq(Day) /\ Once(ByDay(bd, k)) /\ ToSet(ByDay(bd, k)) = TakenBy(bd, k)
<1> DEFINE A == OnWeekday(k, bd)
           matches == InOrder(A)
<1>1. A \in SUBSET Day
  BY DEF OnWeekday, DaysOf
<1>2. ByDay(bd, k) = IF bd.ord = 0 THEN matches ELSE Nth(matches, bd.ord)
  BY DEF ByDay, OnWeekday
<1>3. TakenBy(bd, k) = {d \in A : bd.ord \in {0, FrontPlace(A, d), -BackPlace(A, d)}}
  BY DEF TakenBy
<1> HIDE DEF A
<1>4. Lists(matches, A) /\ IsFiniteSet(A) /\ A \in SUBSET Int
  BY <1>1, InOrderListsDays
<1> HIDE DEF matches
<1>5. bd.ord \in Int
  BY DEF WeekdayPart
<1>6. ByDay(bd, k) \in Seq(Day)
  BY ByDayIsSeq
<1>7. CASE bd.ord = 0
  <2>1. ToSet(matches) = A /\ Once(matches)
    BY <1>1, <1>4, ListIsWalk, PlacesInAList
  <2>2. TakenBy(bd, k) = A
    BY <1>3, <1>7
  <2>3. QED
    BY <1>2, <1>6, <1>7, <2>1, <2>2
<1>8. CASE bd.ord # 0
  <2>1. Once(Nth(matches, bd.ord))
        /\ ToSet(Nth(matches, bd.ord)) = {d \in A : bd.ord = FrontPlace(A, d) \/ bd.ord = -BackPlace(A, d)}
    BY <1>4, <1>5, <1>8, NthPicks
  <2>2. TakenBy(bd, k) = {d \in A : bd.ord = FrontPlace(A, d) \/ bd.ord = -BackPlace(A, d)}
    BY <1>3, <1>8
  <2>3. QED
    BY <1>2, <1>6, <1>8, <2>1, <2>2
<1>9. QED
  BY <1>7, <1>8

\* What a rule selects in month k, whatever the month.
SelectsDay(e, k, d) ==
  IF e.rule.byDay # <<>> THEN \E bd \in ToSet(e.rule.byDay) : d \in TakenBy(bd, k)
  ELSE IF e.rule.byMonthDay # <<>>
       THEN \E p \in ToSet(e.rule.byMonthDay) : p = d - FirstOf[k] + 1 \/ p = d - FirstOf[k + 1]
       ELSE d - FirstOf[k] = e.start - FirstOf[MonthOf(e.start)]

LEMMA NoZeroOrdinal ==
  ASSUME NEW r \in Rule
  PROVE  /\ \A i \in DOMAIN r.byMonthDay : r.byMonthDay[i] # 0
         /\ \A i \in DOMAIN r.bySetPos : r.bySetPos[i] # 0
<1>1. r.byMonthDay \in Seq(Int \ {0}) /\ r.bySetPos \in Seq(Int \ {0})
  BY DEF Rule
<1>2. \A s \in Seq(Int \ {0}) : \A i \in DOMAIN s : s[i] # 0
  OBVIOUS
<1>3. QED
  BY <1>1, <1>2

LEMMA SelectedPicks ==
  ASSUME NEW e, e.rule \in Rule, Unambiguous(e.rule), e.start \in Day, NEW k \in Month
  PROVE  /\ Selected(e, k) \in Seq(Day) /\ Once(Selected(e, k))
         /\ ToSet(Selected(e, k)) = {d \in DaysOf(k) : SelectsDay(e, k, d)}
<1> DEFINE r == e.rule
           D == DaysOf(k)
           days == InOrder(D)
           day == e.start - FirstOf[MonthOf(e.start)] + 1
           byDay == [i \in DOMAIN r.byDay |-> ByDay(r.byDay[i], k)]
           byMonthDay == [i \in DOMAIN r.byMonthDay |-> Nth(days, r.byMonthDay[i])]
           sel == Selected(e, k)
<1>1. r.byDay \in Seq(WeekdayPart) /\ r.byMonthDay \in Seq(Int)
  BY RuleParts
<1>2. sel \in Seq(Day)
  BY SelectedIsSeq
<1>3. D \in SUBSET Day /\ Lists(days, D) /\ IsFiniteSet(D) /\ D \in SUBSET Int
  <2>1. D \in SUBSET Day
    BY DEF DaysOf
  <2> HIDE DEF D
  <2>2. QED
    BY <2>1, InOrderListsDays
<1>4. \A d \in D : FrontPlace(D, d) = d - FirstOf[k] + 1 /\ BackPlace(D, d) = FirstOf[k + 1] - d /\ d \in Int
  BY <1>3, DayOfMonth
<1>5. FirstOf[k] \in Nat /\ FirstOf[k + 1] \in Nat
  BY MonthDays
<1>6. sel = IF r.byDay # <<>> THEN FlattenSeq(byDay)
            ELSE IF r.byMonthDay # <<>> THEN FlattenSeq(byMonthDay) ELSE Nth(days, day)
  BY DEF Selected
<1>7. CASE r.byDay # <<>>
  <2> DEFINE n == Len(r.byDay)
  <2>1. n \in Nat /\ DOMAIN r.byDay = 1..n /\ \A i \in 1..n : r.byDay[i] \in WeekdayPart
    BY <1>1
  <2> HIDE DEF n
  <2>2. DOMAIN byDay = 1..n /\ \A i \in 1..n : byDay[i] = ByDay(r.byDay[i], k)
    BY <2>1
  <2>3. \A i \in 1..n : byDay[i] \in Seq(Day) /\ Once(byDay[i]) /\ ToSet(byDay[i]) = TakenBy(r.byDay[i], k)
    BY <2>1, <2>2, ByDayPicks
  <2>4. byDay \in [1..n -> Seq(Day)]
    BY <2>1, <2>3
  <2> HIDE DEF byDay
  <2>5. Apart(byDay)
    <3> SUFFICES ASSUME NEW i \in 1..n, NEW j \in 1..n, i < j
                 PROVE  TakenBy(r.byDay[i], k) \cap TakenBy(r.byDay[j], k) = {}
      BY <2>2, <2>3 DEF Apart
    <3>1. r.byDay[i].weekday # r.byDay[j].weekday
      BY <2>1 DEF Unambiguous, Distinct
    <3>2. QED
      BY <3>1 DEF TakenBy, OnWeekday
  <2>6. /\ Once(FlattenSeq(byDay))
        /\ ToSet(FlattenSeq(byDay)) = UNION {ToSet(byDay[j]) : j \in 1..n}
    BY <2>1, <2>4, <2>5, FlattenKeepsApart
  <2>7. ToSet(r.byDay) = {r.byDay[j] : j \in 1..n}
    BY <2>1 DEF ToSet
  <2>8. \A bd : TakenBy(bd, k) \subseteq D
    BY DEF TakenBy, OnWeekday
  <2>9. \A d : SelectsDay(e, k, d) <=> \E bd \in ToSet(r.byDay) : d \in TakenBy(bd, k)
    BY <1>7 DEF SelectsDay
  <2> HIDE DEF D, r
  <2>10. UNION {ToSet(byDay[j]) : j \in 1..n} = {d \in D : SelectsDay(e, k, d)}
    BY <2>3, <2>7, <2>8, <2>9
  <2>11. sel = FlattenSeq(byDay)
    BY <1>6, <1>7
  <2>12. QED
    BY <1>2, <2>6, <2>10, <2>11 DEF D
<1>8. CASE r.byDay = <<>> /\ r.byMonthDay # <<>>
  <2>1. (\A i \in DOMAIN r.byMonthDay : r.byMonthDay[i] # 0) /\ OneSign(r.byMonthDay) /\ Distinct(r.byMonthDay)
    BY NoZeroOrdinal DEF Unambiguous
  <2>2. \A d : SelectsDay(e, k, d) <=>
               \E p \in ToSet(r.byMonthDay) : p = d - FirstOf[k] + 1 \/ p = d - FirstOf[k + 1]
    BY <1>8 DEF SelectsDay
  <2> HIDE DEF D, days, r
  <2>3. Once(FlattenSeq(byMonthDay)) /\ ToSet(FlattenSeq(byMonthDay)) = Picks(D, r.byMonthDay)
    BY <1>1, <1>3, <2>1, NthsPick
  <2>4. \A d \in D : -BackPlace(D, d) = d - FirstOf[k + 1]
    <3> TAKE d \in D
    <3> DEFINE b == BackPlace(D, d)
               x == FirstOf[k + 1]
    <3>1. b = x - d /\ x \in Nat /\ d \in Int
      BY <1>4, <1>5
    <3> HIDE DEF b, x
    <3>2. -b = d - x
      BY <3>1
    <3>3. QED
      BY <3>2 DEF b, x
  <2>5. Picks(D, r.byMonthDay) = {d \in D : SelectsDay(e, k, d)}
    BY <1>4, <2>2, <2>4 DEF Picks
  <2>6. sel = FlattenSeq(byMonthDay)
    BY <1>6, <1>8
  <2> HIDE DEF byMonthDay, sel
  <2>7. QED
    BY <1>2, <2>3, <2>5, <2>6 DEF D, sel
<1>9. CASE r.byDay = <<>> /\ r.byMonthDay = <<>>
  <2> DEFINE a == FirstOf[MonthOf(e.start)]
  <2>1. a \in Nat /\ a <= e.start /\ e.start \in Nat
    <3>1. MonthOf(e.start) \in Month /\ a <= e.start
      BY MonthsOf
    <3>2. QED
      BY <3>1, MonthDays, Days
  <2>2. \A d : SelectsDay(e, k, d) <=> d - FirstOf[k] = e.start - a
    BY <1>9 DEF SelectsDay
  <2>3. day = e.start - a + 1
    OBVIOUS
  <2> HIDE DEF a, day, D, days
  <2>4. day \in Int /\ day # 0 /\ day > 0
    BY <2>1, <2>3
  <2>5. Once(Nth(days, day)) /\ ToSet(Nth(days, day)) = {d \in D : day = FrontPlace(D, d) \/ day = -BackPlace(D, d)}
    BY <1>3, <2>4, NthPicks
  <2>6. ASSUME NEW d \in D
        PROVE  day = FrontPlace(D, d) \/ day = -BackPlace(D, d) <=> SelectsDay(e, k, d)
    <3> DEFINE f == FrontPlace(D, d)
               b == BackPlace(D, d)
               x == FirstOf[k]
    <3>1. f = d - x + 1 /\ x \in Nat /\ d \in Int /\ f \in Nat /\ b \in Nat
      BY <1>3, <1>4, <1>5, FrontAndBack
    <3>2. SelectsDay(e, k, d) <=> d - x = e.start - a
      BY <2>2
    <3> HIDE DEF f, b, x
    <3>3. day = f \/ day = -b <=> d - x = e.start - a
      BY <2>1, <2>3, <2>4, <3>1
    <3>4. QED
      BY <3>2, <3>3 DEF f, b
  <2>7. sel = Nth(days, day)
    BY <1>6, <1>9
  <2> HIDE DEF sel
  <2>8. ToSet(sel) = {d \in D : SelectsDay(e, k, d)}
    BY <2>5, <2>6, <2>7
  <2>9. QED
    BY <1>2, <2>5, <2>7, <2>8 DEF sel, D
<1>10. QED
  BY <1>7, <1>8, <1>9

\* The filters of RFC 5545 and what is selected in the month of a day.
LEMMA SelectsMeans ==
  ASSUME NEW e, e.rule \in Rule, e.rule.freq \in {"MONTHLY", "YEARLY"}, e.start \in Day,
         e.rule.byDay = <<>> \/ e.rule.byMonthDay = <<>>,
         NEW k \in Month, NEW d \in DaysOf(k), NEW a, a = MonthOf(e.start)
  PROVE  Selects(e, d, k, a) <=>
           /\ SelectsDay(e, k, d)
           /\ e.rule.byMonth # <<>> => PlaceInYear(k) \in ToSet(e.rule.byMonth)
           /\ e.rule.byMonth = <<>> /\ e.rule.byDay = <<>> /\ e.rule.byMonthDay = <<>> /\ e.rule.freq = "YEARLY" =>
                PlaceInYear(k) = PlaceInYear(a)
<1> DEFINE r == e.rule
           front(bd) == Cardinality({c \in DaysOf(k) : c <= d /\ WeekdayOf(c) = bd.weekday})
           back(bd)  == Cardinality({c \in DaysOf(k) : c >= d /\ WeekdayOf(c) = bd.weekday})
           byDay == \E bd \in ToSet(r.byDay) : WeekdayOf(d) = bd.weekday /\ bd.ord \in {0, front(bd), -back(bd)}
           byMonthDay == {d - FirstOf[k] + 1, d - FirstOf[k + 1]} \cap ToSet(r.byMonthDay) # {}
           other == d - FirstOf[k] + 1 = e.start - FirstOf[a] + 1
           inMonths == /\ r.byMonth # <<>> => PlaceInYear(k) \in ToSet(r.byMonth)
                       /\ r.byMonth = <<>> /\ r.byDay = <<>> /\ r.byMonthDay = <<>> /\ r.freq = "YEARLY" =>
                            PlaceInYear(k) = PlaceInYear(a)
<1>1. Selects(e, d, k, a) <=>
        /\ r.byDay # <<>> => byDay
        /\ r.byMonthDay # <<>> => byMonthDay
        /\ r.byDay = <<>> /\ r.byMonthDay = <<>> => other
        /\ inMonths
  BY DEF Selects
<1>2. byDay <=> \E bd \in ToSet(r.byDay) : d \in TakenBy(bd, k)
  <2>1. ASSUME NEW bd, WeekdayOf(d) = bd.weekday
        PROVE  front(bd) = FrontPlace(OnWeekday(k, bd), d) /\ back(bd) = BackPlace(OnWeekday(k, bd), d)
    <3>1. {c \in OnWeekday(k, bd) : c <= d} = {c \in DaysOf(k) : c <= d /\ WeekdayOf(c) = bd.weekday}
      BY DEF OnWeekday
    <3>2. {c \in OnWeekday(k, bd) : c >= d} = {c \in DaysOf(k) : c >= d /\ WeekdayOf(c) = bd.weekday}
      BY DEF OnWeekday
    <3>3. QED
      BY <3>1, <3>2 DEF FrontPlace, BackPlace
  <2> HIDE DEF front, back
  <2>2. ASSUME NEW bd
        PROVE  d \in TakenBy(bd, k) <=> WeekdayOf(d) = bd.weekday /\ bd.ord \in {0, front(bd), -back(bd)}
    <3>1. d \in OnWeekday(k, bd) <=> WeekdayOf(d) = bd.weekday
      BY DEF OnWeekday
    <3>2. QED
      BY <2>1, <3>1 DEF TakenBy
  <2>3. QED
    BY <2>2
<1> HIDE DEF byDay, inMonths
<1>3. byMonthDay <=> \E p \in ToSet(r.byMonthDay) : p = d - FirstOf[k] + 1 \/ p = d - FirstOf[k + 1]
  OBVIOUS
<1>4. other <=> d - FirstOf[k] = e.start - FirstOf[MonthOf(e.start)]
  <2> DEFINE x == FirstOf[k]
             y == FirstOf[a]
  <2>1. MonthOf(e.start) \in Month
    BY MonthsOf
  <2>2. x \in Nat /\ y \in Nat /\ d \in Int /\ e.start \in Int
    BY <2>1, MonthDays, Days DEF DaysOf
  <2> HIDE DEF x, y
  <2>3. d - x + 1 = e.start - y + 1 <=> d - x = e.start - y
    BY <2>2
  <2>4. QED
    BY <2>3 DEF x, y
<1> HIDE DEF byMonthDay, other
<1>5. SelectsDay(e, k, d) <=> IF r.byDay # <<>> THEN byDay ELSE IF r.byMonthDay # <<>> THEN byMonthDay ELSE other
  BY <1>2, <1>3, <1>4 DEF SelectsDay
<1>6. QED
  BY <1>1, <1>5 DEF inMonths

-----------------------------------------------------------------------------
\* The steps of a month.

WantedOf(e, k) == {d \in DaysOf(k) : SelectsDay(e, k, d)}
Wanted(e, k)   == {d \in WantedOf(e, k) : PlacedIn(e.rule.bySetPos, d, WantedOf(e, k))}

LEMMA PickedLists ==
  ASSUME NEW A \in SUBSET Day, NEW s, Lists(s, A),
         NEW pos \in Seq(Int), \A i \in DOMAIN pos : pos[i] # 0, OneSign(pos), Distinct(pos)
  PROVE  Lists(Picked(pos, s), {d \in A : PlacedIn(pos, d, A)})
<1> DEFINE all == FlattenSeq([i \in DOMAIN pos |-> Nth(s, pos[i])])
           placed == {d \in A : PlacedIn(pos, d, A)}
<1>1. Picked(pos, s) = IF pos = <<>> THEN s ELSE Sorted(all)
  BY DEF Picked
<1>2. CASE pos = <<>>
  <2>1. placed = A
    BY <1>2 DEF PlacedIn
  <2>2. QED
    BY <1>1, <1>2, <2>1
<1>3. CASE pos # <<>>
  <2>1. A \in SUBSET Int /\ IsFiniteSet(A)
    BY Days, FS_Subset
  <2>2. all \in Seq(A) /\ Once(all) /\ ToSet(all) = Picks(A, pos)
    BY <2>1, NthsPick
  <2> HIDE DEF all
  <2>3. all \in Seq(Day)
    BY <2>2, SeqOfMore
  <2>4. Lists(Sorted(all), ToSet(all))
    BY <2>2, <2>3, SortedLists
  <2>5. placed = Picks(A, pos)
    BY <1>3 DEF PlacedIn, Picks, FrontPlace, BackPlace
  <2> HIDE DEF placed
  <2>6. QED
    BY <1>1, <1>3, <2>2, <2>4, <2>5 DEF placed
<1>4. QED
  BY <1>2, <1>3

LEMMA MonthStepsPick ==
  ASSUME NEW e, e.rule \in Rule, Unambiguous(e.rule), e.start \in Day, NEW k \in Month
  PROVE  /\ MonthSteps(e, k) \in Seq(Entry) /\ Rising(MonthSteps(e, k))
         /\ DaysIn(MonthSteps(e, k)) = Wanted(e, k)
<1> DEFINE ticks == SelectTicks(e, k)
           s == Sorted(Selected(e, k))
           days == Picked(e.rule.bySetPos, s)
           D == WantedOf(e, k)
<1>1. ticks \in Seq(Entry) /\ Rising(ticks) /\ DaysIn(ticks) = {}
  BY SelectTicksAreNone, NoneIsWalk
<1>2. Lists(s, D) /\ D \in SUBSET Day
  <2>1. /\ Selected(e, k) \in Seq(Day) /\ Once(Selected(e, k)) /\ ToSet(Selected(e, k)) = D
    BY SelectedPicks DEF WantedOf
  <2> HIDE DEF D
  <2>2. QED
    BY <2>1, SortedLists
<1> HIDE DEF s, D
<1>3. Lists(days, Wanted(e, k))
  <2>1. /\ e.rule.bySetPos \in Seq(Int) /\ \A i \in DOMAIN e.rule.bySetPos : e.rule.bySetPos[i] # 0
        /\ OneSign(e.rule.bySetPos) /\ Distinct(e.rule.bySetPos)
    BY RuleParts, NoZeroOrdinal DEF Unambiguous
  <2>2. Lists(days, {d \in D : PlacedIn(e.rule.bySetPos, d, D)})
    BY <1>2, <2>1, PickedLists
  <2>3. QED
    BY <2>2 DEF Wanted, D
<1>4. Wanted(e, k) \in SUBSET Day
  BY <1>2 DEF Wanted, D
<1>5. MonthSteps(e, k) = ticks \o days
  BY DEF MonthSteps, s
<1> HIDE DEF ticks, days
<1>6. days \in Seq(Entry) /\ Rising(days) /\ DaysIn(days) = Wanted(e, k)
  BY <1>3, <1>4, ListIsWalk
<1>7. Ahead(ticks, days)
  BY <1>1 DEF Ahead
<1> DEFINE u == ticks \o days
<1>8. u \in Seq(Entry) /\ DaysIn(u) = DaysIn(ticks) \cup DaysIn(days) /\ Rising(u)
  BY <1>1, <1>6, <1>7, Joined
<1>9. MonthSteps(e, k) = u
  BY <1>5
<1> HIDE DEF u
<1>10. QED
  BY <1>1, <1>6, <1>8, <1>9

\* The months of a walk come one after the other.
LEMMA MonthsInTurn ==
  ASSUME NEW e, e.rule \in Rule, Unambiguous(e.rule), e.start \in Day,
         NEW n \in Nat, NEW ks \in [1..n -> Month], \A i, j \in 1..n : i < j => ks[i] < ks[j]
  PROVE  LET f == [i \in 1..n |-> MonthSteps(e, ks[i])]
         IN /\ f \in [1..n -> Seq(Entry)] /\ InTurn(f)
            /\ \A i \in 1..n : DaysIn(f[i]) = Wanted(e, ks[i])
<1> DEFINE f == [i \in 1..n |-> MonthSteps(e, ks[i])]
<1>1. \A i \in 1..n : f[i] \in Seq(Entry) /\ Rising(f[i]) /\ DaysIn(f[i]) = Wanted(e, ks[i])
  BY MonthStepsPick
<1>2. DOMAIN f = 1..n /\ f \in [1..n -> Seq(Entry)]
  BY <1>1
<1> HIDE DEF f
<1>3. ASSUME NEW i \in 1..n, NEW j \in 1..n, i < j PROVE Ahead(f[i], f[j])
  <2> SUFFICES ASSUME NEW c \in Wanted(e, ks[i]), NEW d \in Wanted(e, ks[j]) PROVE c < d
    BY <1>1 DEF Ahead
  <2>1. c \in DaysOf(ks[i]) /\ d \in DaysOf(ks[j]) /\ c \in Day /\ d \in Day
    BY DEF Wanted, WantedOf, DaysOf
  <2>2. MonthOf(c) = ks[i] /\ MonthOf(d) = ks[j] /\ ks[i] < ks[j]
    BY <1>3, <2>1, MonthDays
  <2>3. QED
    BY <2>1, <2>2, MonthsInOrder
<1>4. InTurn(f)
  BY <1>1, <1>2, <1>3 DEF InTurn
<1>5. QED
  BY <1>1, <1>2, <1>4 DEF f

\* Rounds of one walk each.
LEMMA RoundsInTurn ==
  ASSUME NEW n \in Nat, NEW f \in [1..n -> Seq(Entry)], InTurn(f)
  PROVE  LET walk == Rounds([i \in 1..n |-> <<None>> \o f[i]])
         IN walk \in Seq(Entry) /\ Rising(walk) /\ DaysIn(walk) = UNION {DaysIn(f[i]) : i \in 1..n}
<1> DEFINE rounds == [i \in 1..n |-> <<None>> \o f[i]]
<1>1. <<None>> \in Seq({None})
  OBVIOUS
<1>2. <<None>> \in Seq(Entry) /\ Rising(<<None>>) /\ DaysIn(<<None>>) = {}
  BY <1>1, NoneIsWalk
<1>3. ASSUME NEW i \in 1..n
      PROVE  rounds[i] \in Seq(Entry) /\ Rising(rounds[i]) /\ DaysIn(rounds[i]) = DaysIn(f[i])
  <2> DEFINE s == <<None>>
             t == f[i]
             u == s \o t
  <2>1. t \in Seq(Entry) /\ Rising(t)
    BY DEF InTurn
  <2>2. s \in Seq(Entry) /\ Rising(s) /\ DaysIn(s) = {}
    BY <1>2
  <2>3. rounds[i] = u
    OBVIOUS
  <2> HIDE DEF s, t, rounds
  <2>4. Ahead(s, t)
    BY <2>2 DEF Ahead
  <2>5. u \in Seq(Entry) /\ DaysIn(u) = DaysIn(s) \cup DaysIn(t) /\ Rising(u)
    BY <2>1, <2>2, <2>4, Joined
  <2> HIDE DEF u
  <2>6. QED
    BY <2>2, <2>3, <2>5 DEF t
<1>4. DOMAIN rounds = 1..n /\ rounds \in Seq(Seq(Entry))
  <2>1. rounds \in [1..n -> Seq(Entry)]
    BY <1>3
  <2> HIDE DEF rounds
  <2>2. QED
    BY <2>1, SeqDef
<1> HIDE DEF rounds
<1>5. InTurn(rounds)
  <2>1. \A i, j \in 1..n : i < j => Ahead(f[i], f[j])
    BY DEF InTurn
  <2>2. \A i, j \in 1..n : i < j => Ahead(rounds[i], rounds[j])
    BY <1>3, <2>1 DEF Ahead
  <2>3. QED
    BY <1>3, <1>4, <2>2 DEF InTurn
<1>6. /\ Rounds(rounds) \in Seq(Entry) /\ Rising(Rounds(rounds))
      /\ DaysIn(Rounds(rounds)) = UNION {DaysIn(rounds[j]) : j \in 1..n}
  BY <1>4, <1>5, RoundsCollect
<1>7. UNION {DaysIn(rounds[j]) : j \in 1..n} = UNION {DaysIn(f[i]) : i \in 1..n}
  BY <1>3
<1>8. QED
  BY <1>6, <1>7 DEF rounds

\* The months a walk looks at.
LEMMA MonthsOfAWalk ==
  ASSUME NEW k \in Nat, k > 0, NEW step, NEW end \in Day
  PROVE  LET M == {l \in k..MonthOf(end) : (l - k) % step = 0}
         IN /\ M \in SUBSET Month
            /\ Lists(MonthsFrom(k, step, end), M)
            /\ \E n \in Nat : /\ MonthsFrom(k, step, end) \in [1..n -> M]
                              /\ DOMAIN MonthsFrom(k, step, end) = 1..n
<1> DEFINE m == MonthOf(end)
           M == {l \in k..m : (l - k) % step = 0}
           s == MonthsFrom(k, step, end)
<1>1. m \in Month /\ m \in Nat /\ 1..m \subseteq Month
  <2>1. m \in Month
    BY MonthsOf
  <2> HIDE DEF m
  <2>2. QED
    BY <2>1, IcsAssumption DEF Month
<1>2. {l \in Month : FirstOf[l] <= end} = 1..m
  <2>1. \A l \in Month : FirstOf[l] <= end <=> l <= m
    BY MonthsInOrder
  <2> HIDE DEF m
  <2>2. \A l \in Month : l \in Nat /\ l >= 1
    BY IcsAssumption DEF Month
  <2>3. \A l \in 1..m : l \in Month /\ l <= m
    BY <1>1
  <2>4. \A l \in Month : l <= m => l \in 1..m
    BY <1>1, <2>2
  <2> DEFINE T == {l \in Month : FirstOf[l] <= end}
  <2>5. \A l : l \in T <=> l \in Month /\ l <= m
    BY <2>1
  <2> HIDE DEF T
  <2>6. T = 1..m
    BY <2>3, <2>4, <2>5
  <2>7. QED
    BY <2>6 DEF T
<1>3. Cardinality(1..m) = m
  <2> HIDE DEF m
  <2>1. QED
    BY <1>1, FS_Interval
<1>4. s = InOrder(M)
  BY <1>2, <1>3 DEF MonthsFrom, Every
<1> HIDE DEF m
<1>5. M \in SUBSET Month /\ M \in SUBSET Int /\ IsFiniteSet(M)
  <2>1. M \in SUBSET 1..m
    BY <1>1
  <2>2. IsFiniteSet(1..m)
    BY <1>1, FS_Interval
  <2> HIDE DEF M
  <2>3. M \in SUBSET Month
    BY <1>1, <2>1
  <2>4. M \in SUBSET Int
    BY <2>1
  <2>5. IsFiniteSet(M)
    BY <2>1, <2>2, FS_Subset
  <2>6. QED
    BY <2>3, <2>4, <2>5
<1> HIDE DEF M, s
<1>6. Lists(s, M)
  BY <1>4, <1>5, InOrderIsSeq DEF Lists
<1>7. Len(s) \in Nat /\ s \in [1..Len(s) -> M] /\ DOMAIN s = 1..Len(s)
  BY <1>6, LenProperties DEF Lists
<1>8. QED
  BY <1>5, <1>6, <1>7 DEF s, M, m

-----------------------------------------------------------------------------
\* The monthly walk follows the series.

LEMMA MonthlyFollows ==
  ASSUME NEW e, IsEvent(e), e.rule \in Rule, e.rule.freq = "MONTHLY", Plain(e.rule), Unambiguous(e.rule),
         NEW lower \in Day, e.start <= lower, NEW end \in Day
  PROVE  Follows(e, Steps(e, lower, end), lower, end)
<1> DEFINE a == MonthOf(e.start)
           M == {l \in a..MonthOf(end) : (l - a) % e.rule.interval = 0}
           ks == MonthsFrom(a, e.rule.interval, end)
           walk == MonthlySteps(e, end)
<1>1. Steps(e, lower, end) = walk
  BY DEF Steps
<1>2. e.start \in Day /\ e.start \in Nat /\ lower \in Nat
  BY Days DEF IsEvent
<1>3. a \in Month /\ a \in Nat /\ a > 0 /\ MonthOf(end) \in Nat
  <2>1. a \in Month /\ MonthOf(end) \in Month
    BY <1>2, MonthsOf
  <2> HIDE DEF a
  <2>2. QED
    BY <2>1, IcsAssumption DEF Month
<1>4. walk = Rounds([i \in DOMAIN ks |-> <<None>> \o MonthSteps(e, ks[i])])
  BY DEF MonthlySteps
<1> HIDE DEF a, walk
<1>5. M \in SUBSET Month /\ Lists(ks, M) /\ \E n \in Nat : ks \in [1..n -> M] /\ DOMAIN ks = 1..n
  BY <1>3, MonthsOfAWalk
<1> HIDE DEF ks
<1>6. PICK n \in Nat : ks \in [1..n -> M] /\ DOMAIN ks = 1..n
  BY <1>5
<1> DEFINE f == [i \in 1..n |-> MonthSteps(e, ks[i])]
<1>7. /\ f \in [1..n -> Seq(Entry)] /\ InTurn(f)
      /\ \A i \in 1..n : DaysIn(f[i]) = Wanted(e, ks[i])
  <2>1. ks \in [1..n -> Month]
    BY <1>5, <1>6
  <2>2. \A i, j \in 1..n : i < j => ks[i] < ks[j]
    BY <1>5, <1>6 DEF Lists
  <2> HIDE DEF M
  <2>3. QED
    BY <1>2, <2>1, <2>2, MonthsInTurn
<1>8. [i \in DOMAIN ks |-> <<None>> \o MonthSteps(e, ks[i])] = [i \in 1..n |-> <<None>> \o f[i]]
  BY <1>6
<1> HIDE DEF f
<1>9. walk \in Seq(Entry) /\ Rising(walk) /\ DaysIn(walk) = UNION {DaysIn(f[i]) : i \in 1..n}
  BY <1>4, <1>7, <1>8, RoundsInTurn
<1>10. \A d : d \in DaysIn(walk) <=> \E k \in M : d \in Wanted(e, k)
  <2>1. \A d : d \in DaysIn(walk) <=> \E i \in 1..n : d \in Wanted(e, ks[i])
    BY <1>7, <1>9
  <2>2. \A k \in M : \E i \in 1..n : ks[i] = k
    BY <1>5, <1>6 DEF Lists
  <2>3. \A i \in 1..n : ks[i] \in M
    BY <1>6
  <2> HIDE DEF M
  <2>4. QED
    BY <2>1, <2>2, <2>3
<1>11. ASSUME NEW d \in Day
       PROVE  d \in Recurs(e) <=>
                d >= e.start /\ (MonthOf(d) - a) % e.rule.interval = 0 /\ d \in Wanted(e, MonthOf(d))
  <2> DEFINE k == MonthOf(d)
             D == WantedOf(e, k)
  <2>1. k \in Month /\ d \in DaysOf(k)
    BY MonthsOf, MonthDays
  <2>2. Aligned(e, d) <=> (k - a) % e.rule.interval = 0
    BY DEF Aligned, a
  <2>3. \A c \in DaysOf(k) : Filters(e, c) <=> SelectsDay(e, k, c)
    <3> TAKE c \in DaysOf(k)
    <3>1. c \in Day /\ MonthOf(c) = k
      BY <2>1, MonthDays DEF DaysOf
    <3>2. Filters(e, c) <=> Selects(e, c, k, MonthOf(e.start))
      BY <3>1 DEF Filters
    <3>3. e.rule.byMonth = <<>> /\ (e.rule.byDay = <<>> \/ e.rule.byMonthDay = <<>>)
      BY DEF Plain
    <3> HIDE DEF k
    <3>4. QED
      BY <1>2, <2>1, <3>2, <3>3, SelectsMeans
  <2>4. {c \in UNION {DaysOf(l) : l \in PeriodMonths(e.rule, k)} : Filters(e, c)} = D
    <3>1. PeriodMonths(e.rule, k) = {k}
      BY DEF PeriodMonths
    <3>2. UNION {DaysOf(l) : l \in {k}} = DaysOf(k)
      OBVIOUS
    <3>3. QED
      BY <2>3, <3>1, <3>2 DEF WantedOf
  <2>5. Placed(e, d) <=> PlacedIn(e.rule.bySetPos, d, D)
    BY <2>4 DEF Placed
  <2>6. d \in Wanted(e, k) <=> SelectsDay(e, k, d) /\ PlacedIn(e.rule.bySetPos, d, D)
    BY <2>1 DEF Wanted, WantedOf
  <2>7. QED
    BY <2>1, <2>2, <2>3, <2>5, <2>6 DEF Recurs
<1>12. ASSUME NEW d \in DaysIn(walk), e.start <= d PROVE d \in Recurs(e)
  <2>1. PICK k \in M : d \in Wanted(e, k)
    BY <1>10
  <2>2. k \in Month /\ (k - a) % e.rule.interval = 0
    BY <1>5
  <2>3. d \in DaysOf(k) /\ d \in Day
    BY <2>1 DEF Wanted, WantedOf, DaysOf
  <2>4. MonthOf(d) = k /\ d \in Nat
    BY <2>2, <2>3, MonthDays, Days
  <2>5. QED
    BY <1>2, <1>11, <1>12, <2>1, <2>2, <2>3, <2>4
<1>13. ASSUME NEW d \in Recurs(e), d <= end PROVE d \in DaysIn(walk)
  <2>1. d \in Day /\ d >= e.start /\ (MonthOf(d) - a) % e.rule.interval = 0 /\ d \in Wanted(e, MonthOf(d))
    BY <1>11 DEF Recurs
  <2>2. MonthOf(d) \in Nat /\ MonthOf(d) <= MonthOf(end) /\ a <= MonthOf(d)
    <3>1. MonthOf(d) \in Month /\ MonthOf(d) <= MonthOf(end)
      BY <1>13, <2>1, MonthsOf, MonthsInOrder
    <3>2. e.start <= d
      BY <1>2, <2>1, Days
    <3>3. a <= MonthOf(d)
      BY <1>2, <2>1, <3>2, MonthsInOrder DEF a
    <3>4. QED
      BY <3>1, <3>3, IcsAssumption DEF Month
  <2>3. MonthOf(d) \in M
    BY <1>3, <2>1, <2>2
  <2>4. QED
    BY <1>10, <2>1, <2>3
<1>14. QED
  BY <1>1, <1>9, <1>12, <1>13 DEF Follows

-----------------------------------------------------------------------------
\* Years.

LEMMA Quotient ==
  ASSUME NEW q \in Int, NEW m \in Nat, m > 0, NEW r \in 0..(m - 1)
  PROVE  /\ ((m * q) + r) % m = r
         /\ ((m * q) + r) \div m = q
<1> DEFINE x == (m * q) + r
<1>1. x \in Int /\ x = r + (q * m) /\ r \in Int
  OBVIOUS
<1>2. x % m = r % m
  <2> HIDE DEF x
  <2>1. (r + (q * m)) % m = r % m
    BY <1>1, Shifted
  <2>2. QED
    BY <1>1, <2>1
<1>3. r % m = r
  OBVIOUS
<1>4. x = (m * (x \div m)) + (x % m) /\ x \div m \in Int
  <2> HIDE DEF x
  <2>1. QED
    BY <1>1, Divided
<1> DEFINE p == x \div m
<1>5. m * p = m * q /\ p \in Int
  <2> DEFINE u == m * p
             v == m * q
  <2>1. x = u + r /\ x = v + r /\ u \in Int /\ v \in Int
    BY <1>2, <1>3, <1>4
  <2> HIDE DEF u, v, x, p
  <2>2. u = v
    BY <1>1, <2>1
  <2>3. QED
    BY <1>4, <2>2 DEF u, v, p
<1> HIDE DEF p
<1>6. p - q = 0
  <2>1. m * (p - q) = (m * p) - (m * q) /\ m * p \in Int /\ p - q \in Int
    BY <1>5
  <2>2. m * (p - q) = 0
    BY <1>5, <2>1
  <2>3. QED
    BY <2>1, <2>2, NoLessThanOne
<1>7. p = q
  BY <1>5, <1>6
<1>8. QED
  BY <1>2, <1>3, <1>7 DEF x, p

\* The years of a calendar of months, from 0 on.
YearOf(k) == (k - 1) \div MonthsPerYear

LEMMA YearsOfMonths ==
  ASSUME NEW k \in Int
  PROVE  /\ YearOf(k) \in Int /\ PlaceInYear(k) \in 1..MonthsPerYear
         /\ YearStart(k) = (MonthsPerYear * YearOf(k)) + 1 /\ YearStart(k) \in Int
         /\ k = YearStart(k) + PlaceInYear(k) - 1
<1> DEFINE m == MonthsPerYear
           q == YearOf(k)
           r == (k - 1) % m
<1>1. m \in Nat /\ m > 0 /\ k - 1 \in Int
  BY IcsAssumption
<1>2. r \in 0..(m - 1) /\ q \in Int /\ k - 1 = (m * q) + r
  <2> DEFINE x == k - 1
  <2>1. x \in Int
    OBVIOUS
  <2> HIDE DEF x
  <2>2. x % m \in 0..(m - 1) /\ x \div m \in Int /\ x = (m * (x \div m)) + (x % m)
    BY <1>1, <2>1, Divided
  <2>3. QED
    BY <2>2 DEF x, YearOf
<1>3. PlaceInYear(k) = 1 + r /\ YearStart(k) = k - (1 + r) + 1
  BY DEF PlaceInYear, YearStart
<1>4. m * q \in Int
  BY <1>1, <1>2
<1> DEFINE u == m * q
<1>5. u \in Int /\ k - 1 = u + r
  BY <1>2, <1>4
<1> HIDE DEF r, u, q
<1>6. PlaceInYear(k) \in 1..m /\ YearStart(k) = u + 1 /\ k = YearStart(k) + PlaceInYear(k) - 1
  BY <1>1, <1>2, <1>3, <1>5
<1>7. QED
  BY <1>2, <1>5, <1>6 DEF u, q

LEMMA MonthOfYear ==
  ASSUME NEW q \in Int, NEW p \in 1..MonthsPerYear
  PROVE  LET k == (MonthsPerYear * q) + p
         IN k \in Int /\ YearOf(k) = q /\ PlaceInYear(k) = p /\ YearStart(k) = (MonthsPerYear * q) + 1
<1> DEFINE m == MonthsPerYear
           k == (m * q) + p
           r == p - 1
<1>1. m \in Nat /\ m > 0 /\ p \in Int /\ r \in 0..(m - 1) /\ m * q \in Int
  BY IcsAssumption
<1>2. k \in Int /\ k - 1 = (m * q) + r
  BY <1>1
<1>3. ((m * q) + r) % m = r /\ ((m * q) + r) \div m = q
  BY <1>1, Quotient
<1>4. (k - 1) % m = r /\ (k - 1) \div m = q
  BY <1>2, <1>3
<1> HIDE DEF k
<1>5. YearOf(k) = q /\ PlaceInYear(k) = p
  BY <1>1, <1>4 DEF YearOf, PlaceInYear
<1>6. YearStart(k) = (m * q) + 1
  BY <1>2, <1>5, YearsOfMonths
<1>7. QED
  BY <1>2, <1>5, <1>6 DEF k

\* An interval of years, counted in months.
LEMMA YearsApart ==
  ASSUME NEW j \in Int, NEW k \in Int, NEW interval \in Nat, interval > 0
  PROVE  /\ (YearStart(k) - YearStart(j)) \div MonthsPerYear = YearOf(k) - YearOf(j)
         /\ (YearStart(k) - YearStart(j)) % (interval * MonthsPerYear) = 0 <=> (YearOf(k) - YearOf(j)) % interval = 0
         /\ j <= k => YearOf(j) <= YearOf(k)
<1> DEFINE m == MonthsPerYear
           z == YearOf(k) - YearOf(j)
           x == YearStart(k) - YearStart(j)
           im == interval * m
<1>1. m \in Nat /\ m > 0
  BY IcsAssumption
<1>2. YearOf(j) \in Int /\ YearOf(k) \in Int /\ z \in Int
  BY YearsOfMonths
<1>3. x = m * z /\ x \in Int
  <2> DEFINE a == YearOf(j)
             b == YearOf(k)
  <2>1. YearStart(j) = (m * a) + 1 /\ YearStart(k) = (m * b) + 1 /\ a \in Int /\ b \in Int
    BY YearsOfMonths
  <2> HIDE DEF a, b
  <2>2. ((m * b) + 1) - ((m * a) + 1) = m * (b - a)
    BY <1>1, <2>1
  <2>3. x = m * (b - a) /\ m * (b - a) \in Int
    BY <1>1, <2>1, <2>2
  <2>4. QED
    BY <2>3 DEF a, b
<1>4. im \in Nat /\ im > 0
  <2>1. im \in Nat
    BY <1>1
  <2>2. im # 0
    BY <1>1
  <2>3. QED
    BY <2>1, <2>2
<1> HIDE DEF z, x
<1>5. x \div m = z
  <2>1. ((m * z) + 0) \div m = z
    BY <1>1, <1>2, Quotient
  <2>2. (m * z) + 0 = m * z
    BY <1>3
  <2>3. QED
    BY <1>3, <2>1, <2>2
<1>6. ASSUME z % interval = 0 PROVE x % im = 0
  <2> DEFINE w == z \div interval
  <2>1. z = (interval * w) + 0 /\ w \in Int
    BY <1>2, <1>6, Divided
  <2> HIDE DEF w
  <2>2. z = interval * w
    BY <2>1
  <2>3. m * (interval * w) = w * (interval * m)
    BY <1>1, <2>1
  <2>4. (w * im) % im = 0
    <3> HIDE DEF im
    <3>1. QED
      BY <1>4, <2>1, Multiple
  <2>5. QED
    BY <1>3, <2>2, <2>3, <2>4
<1>7. ASSUME x % im = 0 PROVE z % interval = 0
  <2> DEFINE w == x \div im
  <2>1. x = (im * w) + 0 /\ w \in Int
    <3> HIDE DEF im
    <3>1. QED
      BY <1>3, <1>4, <1>7, Divided
  <2> HIDE DEF w
  <2>2. im * w = m * (w * interval)
    BY <1>1, <2>1
  <2>3. x = m * (w * interval)
    BY <1>1, <1>4, <2>1, <2>2
  <2> DEFINE v == w * interval
  <2>4. v \in Int /\ m * z = m * v
    BY <1>3, <2>1, <2>3
  <2>5. v % interval = 0
    BY <2>1, Multiple
  <2> HIDE DEF v
  <2>6. m * (z - v) = (m * z) - (m * v) /\ m * z \in Int /\ z - v \in Int
    BY <1>1, <1>2, <2>4
  <2>7. m * (z - v) = 0
    BY <2>4, <2>6
  <2>8. z - v = 0
    BY <1>1, <2>6, <2>7, NoLessThanOne
  <2>9. z = v
    BY <1>2, <2>4, <2>8
  <2>10. QED
    BY <2>5, <2>9
<1>8. ASSUME j <= k PROVE YearOf(j) <= YearOf(k)
  <2> DEFINE a == YearOf(j)
             b == YearOf(k)
             s == PlaceInYear(j)
             t == PlaceInYear(k)
  <2>1. /\ a \in Int /\ b \in Int /\ s \in 1..m /\ t \in 1..m
        /\ j = ((m * a) + 1) + s - 1 /\ k = ((m * b) + 1) + t - 1
    BY YearsOfMonths
  <2> HIDE DEF a, b, s, t
  <2> SUFFICES ASSUME ~(a <= b) PROVE FALSE
    BY DEF a, b
  <2>2. a - b - 1 \in Nat
    BY <2>1
  <2>3. m * (a - b - 1) \in Nat
    BY <1>1, <2>2
  <2>4. m * (a - b - 1) = (m * a) - (m * b) - m /\ m * a \in Int /\ m * b \in Int
    BY <1>1, <2>1
  <2> DEFINE u == m * a
             v == m * b
  <2>5. u - v - m \in Nat /\ u \in Int /\ v \in Int /\ j = (u + 1) + s - 1 /\ k = (v + 1) + t - 1
    BY <2>1, <2>3, <2>4
  <2> HIDE DEF u, v
  <2>6. QED
    BY <1>1, <1>8, <2>1, <2>5
<1>9. QED
  BY <1>5, <1>6, <1>7, <1>8 DEF x, z

\* The months that make up the year of a month are all in the calendar.
LEMMA YearIsWhole ==
  ASSUME NEW k \in Month
  PROVE  LET y == YearStart(k)
         IN /\ y \in Nat /\ y > 0
            /\ \A p \in 1..MonthsPerYear :
                 /\ y + p - 1 \in Month /\ PlaceInYear(y + p - 1) = p
                 /\ YearStart(y + p - 1) = y /\ YearOf(y + p - 1) = YearOf(k)
<1> DEFINE m == MonthsPerYear
           q == YearOf(k)
           t == PlaceInYear(k)
           L == Len(FirstOf) - 1
           N == L \div m
           y == YearStart(k)
<1>1. m \in Nat /\ m > 0 /\ L \in Nat /\ L > 0 /\ k \in 1..L /\ Month = 1..L
  BY IcsAssumption DEF Month
<1>2. q \in Int /\ t \in 1..m /\ y = (m * q) + 1 /\ y \in Int /\ k = y + t - 1
  <2>1. k \in Int
    BY <1>1
  <2>2. QED
    BY <2>1, YearsOfMonths
<1>3. L = m * N /\ N \in Int
  <2> HIDE DEF L, N
  <2>1. L \in Int
    BY <1>1
  <2>2. L % m = 0
    BY WholeYears DEF L
  <2>3. L = (m * (L \div m)) + (L % m) /\ L \div m \in Int
    BY <1>1, <2>1, Divided
  <2> DEFINE x == L \div m
  <2>4. L = (m * x) + 0 /\ x \in Int
    BY <2>2, <2>3
  <2> HIDE DEF x
  <2>5. L = m * x
    BY <1>1, <2>4
  <2>6. QED
    BY <2>4, <2>5 DEF x, N
<1> HIDE DEF q, t, L, N, y
<1>4. q >= 0
  <2> SUFFICES ASSUME ~(q >= 0) PROVE FALSE
    OBVIOUS
  <2>1. 0 - 1 - q \in Nat
    BY <1>2
  <2> DEFINE z == 0 - 1 - q
             mq == m * q
  <2>2. m * z \in Nat
    BY <1>1, <2>1
  <2>3. m * z = 0 - m - mq /\ mq \in Int
    BY <1>1, <1>2
  <2> HIDE DEF z
  <2>4. y = mq + 1
    BY <1>2
  <2> HIDE DEF mq
  <2>5. QED
    BY <1>1, <1>2, <2>2, <2>3, <2>4
<1>5. q < N
  <2> SUFFICES ASSUME ~(q < N) PROVE FALSE
    OBVIOUS
  <2>1. q - N \in Nat
    BY <1>2, <1>3
  <2> DEFINE z == q - N
             mq == m * q
             mN == m * N
  <2>2. m * z \in Nat
    BY <1>1, <2>1
  <2>3. m * z = mq - mN /\ mq \in Int /\ mN \in Int
    BY <1>1, <1>2, <1>3
  <2> HIDE DEF z
  <2>4. y = mq + 1 /\ L = mN
    BY <1>2, <1>3
  <2> HIDE DEF mq, mN
  <2>5. QED
    BY <1>1, <1>2, <2>2, <2>3, <2>4
<1>6. (m * q) + m <= L /\ m * q >= 0 /\ m * q \in Nat
  <2>1. N - q - 1 \in Nat /\ q \in Nat
    BY <1>2, <1>3, <1>4, <1>5
  <2> DEFINE z == N - q - 1
             mq == m * q
             mN == m * N
  <2>2. m * z \in Nat /\ mq \in Nat
    BY <1>1, <2>1
  <2>3. m * z = mN - mq - m /\ mN \in Int
    BY <1>1, <1>2, <1>3
  <2> HIDE DEF z
  <2>4. L = mN
    BY <1>3
  <2> HIDE DEF mN
  <2>5. mq + m <= L /\ mq >= 0
    <3> HIDE DEF mq
    <3>1. QED
      BY <1>1, <2>2, <2>3, <2>4
  <2>6. QED
    BY <2>2, <2>5
<1>7. ASSUME NEW p \in 1..m
      PROVE  y + p - 1 \in Month /\ PlaceInYear(y + p - 1) = p /\ YearStart(y + p - 1) = y /\ YearOf(y + p - 1) = q
  <2> DEFINE mq == m * q
  <2>1. y + p - 1 = mq + p
    <3>1. mq \in Int /\ y = mq + 1 /\ p \in Int
      BY <1>1, <1>2, <1>6
    <3> HIDE DEF mq
    <3>2. QED
      BY <3>1
  <2>2. YearOf(mq + p) = q /\ PlaceInYear(mq + p) = p /\ YearStart(mq + p) = mq + 1
    BY <1>2, MonthOfYear
  <2>3. mq + p \in Month
    <3>1. mq \in Nat /\ mq + m <= L /\ p \in 1..m
      BY <1>6
    <3> HIDE DEF mq
    <3>2. QED
      BY <1>1, <3>1
  <2>4. y = mq + 1
    BY <1>2
  <2> HIDE DEF mq
  <2>5. QED
    BY <2>1, <2>2, <2>3, <2>4
<1>8. y \in Nat /\ y > 0
  <2> DEFINE mq == m * q
  <2>1. mq \in Nat /\ y = mq + 1
    BY <1>2, <1>6
  <2> HIDE DEF mq
  <2>2. QED
    BY <2>1
<1>9. QED
  BY <1>7, <1>8 DEF q, y

\* The months of its years a rule looks at, and what a year of the walk holds.
RuleMonths(e) == IF e.rule.byMonth = <<>> THEN <<PlaceInYear(MonthOf(e.start))>> ELSE e.rule.byMonth
YearSteps(e, y) == FlattenSeq([j \in DOMAIN RuleMonths(e) |-> MonthSteps(e, y + RuleMonths(e)[j] - 1)])

LEMMA RuleMonthsRise ==
  ASSUME NEW e, e.rule \in Rule, Unambiguous(e.rule), e.start \in Day
  PROVE  LET ms == RuleMonths(e)
         IN /\ Len(ms) \in Nat /\ DOMAIN ms = 1..Len(ms) /\ ms \in [1..Len(ms) -> 1..MonthsPerYear]
            /\ \A i, j \in 1..Len(ms) : i < j => ms[i] < ms[j]
<1>1. CASE e.rule.byMonth = <<>>
  <2> DEFINE p == PlaceInYear(MonthOf(e.start))
  <2>1. MonthOf(e.start) \in Int
    BY MonthsOf, IcsAssumption DEF Month
  <2>2. p \in 1..MonthsPerYear
    BY <2>1, YearsOfMonths
  <2>3. RuleMonths(e) = <<p>>
    BY <1>1 DEF RuleMonths
  <2> HIDE DEF p
  <2>4. Len(<<p>>) = 1 /\ DOMAIN <<p>> = 1..1 /\ <<p>> \in [1..1 -> 1..MonthsPerYear]
    BY <2>2
  <2>5. QED
    BY <2>3, <2>4
<1>2. CASE e.rule.byMonth # <<>>
  <2> DEFINE ms == e.rule.byMonth
  <2>1. ms \in Seq(1..MonthsPerYear) /\ RuleMonths(e) = ms
    BY <1>2, RuleParts DEF RuleMonths
  <2>2. \A i, j \in DOMAIN ms : i < j => ms[i] < ms[j]
    BY DEF Unambiguous
  <2> HIDE DEF ms
  <2>3. Len(ms) \in Nat /\ DOMAIN ms = 1..Len(ms) /\ ms \in [1..Len(ms) -> 1..MonthsPerYear]
    BY <2>1, LenProperties
  <2>4. QED
    BY <2>1, <2>2, <2>3
<1>3. QED
  BY <1>1, <1>2

LEMMA YearStepsPick ==
  ASSUME NEW e, e.rule \in Rule, Unambiguous(e.rule), e.start \in Day,
         NEW y \in Int, \A p \in 1..MonthsPerYear : y + p - 1 \in Month
  PROVE  /\ YearSteps(e, y) \in Seq(Entry) /\ Rising(YearSteps(e, y))
         /\ \A d : d \in DaysIn(YearSteps(e, y)) <=> \E p \in ToSet(RuleMonths(e)) : d \in Wanted(e, y + p - 1)
<1> DEFINE ms == RuleMonths(e)
           n == Len(ms)
           ks == [j \in 1..n |-> y + ms[j] - 1]
           f == [j \in 1..n |-> MonthSteps(e, ks[j])]
<1>1. n \in Nat /\ DOMAIN ms = 1..n /\ ms \in [1..n -> 1..MonthsPerYear] /\ \A i, j \in 1..n : i < j => ms[i] < ms[j]
  BY RuleMonthsRise
<1>2. YearSteps(e, y) = FlattenSeq(f)
  <2>1. f = [j \in DOMAIN RuleMonths(e) |-> MonthSteps(e, y + RuleMonths(e)[j] - 1)]
    BY <1>1
  <2> HIDE DEF f
  <2>2. QED
    BY <2>1 DEF YearSteps
<1>3. ToSet(ms) = {ms[j] : j \in 1..n}
  BY <1>1 DEF ToSet
<1> HIDE DEF ms, n
<1>4. ks \in [1..n -> Month] /\ \A i, j \in 1..n : i < j => ks[i] < ks[j]
  <2>1. \A j \in 1..n : ms[j] \in 1..MonthsPerYear /\ ms[j] \in Int
    BY <1>1, IcsAssumption
  <2>2. QED
    BY <1>1, <2>1
<1>5. \A j \in 1..n : ks[j] = y + ms[j] - 1
  OBVIOUS
<1> HIDE DEF ks
<1>6. f \in [1..n -> Seq(Entry)] /\ InTurn(f) /\ \A i \in 1..n : DaysIn(f[i]) = Wanted(e, ks[i])
  BY <1>1, <1>4, MonthsInTurn
<1> HIDE DEF f
<1>7. f \in Seq(Seq(Entry)) /\ DOMAIN f = 1..n
  BY <1>1, <1>6, SeqDef
<1>8. /\ FlattenSeq(f) \in Seq(Entry) /\ Rising(FlattenSeq(f))
      /\ DaysIn(FlattenSeq(f)) = UNION {DaysIn(f[j]) : j \in 1..n}
  BY <1>6, <1>7, FlattenCollects
<1>9. \A d : d \in DaysIn(FlattenSeq(f)) <=> \E j \in 1..n : d \in Wanted(e, y + ms[j] - 1)
  BY <1>5, <1>6, <1>8
<1>10. \A d : (\E j \in 1..n : d \in Wanted(e, y + ms[j] - 1)) <=> \E p \in ToSet(ms) : d \in Wanted(e, y + p - 1)
  BY <1>3
<1>11. QED
  BY <1>2, <1>8, <1>9, <1>10 DEF ms

\* The years of a walk come one after the other.
LEMMA YearsInTurn ==
  ASSUME NEW e, e.rule \in Rule, Unambiguous(e.rule), e.start \in Day,
         NEW n \in Nat, NEW ys \in [1..n -> Month],
         \A i, j \in 1..n : i < j => ys[i] < ys[j],
         \A i \in 1..n : ys[i] = YearStart(ys[i])
  PROVE  LET f == [i \in 1..n |-> YearSteps(e, ys[i])]
         IN /\ f \in [1..n -> Seq(Entry)] /\ InTurn(f)
            /\ \A i \in 1..n : \A d : d \in DaysIn(f[i]) <=>
                 \E p \in ToSet(RuleMonths(e)) : d \in Wanted(e, ys[i] + p - 1)
<1> DEFINE f == [i \in 1..n |-> YearSteps(e, ys[i])]
           ps == ToSet(RuleMonths(e))
<1>1. ASSUME NEW i \in 1..n
      PROVE  ys[i] \in Int /\ \A p \in 1..MonthsPerYear :
               ys[i] + p - 1 \in Month /\ YearStart(ys[i] + p - 1) = ys[i]
  <2>1. ys[i] \in Month /\ YearStart(ys[i]) = ys[i]
    OBVIOUS
  <2> DEFINE k == ys[i]
  <2> HIDE DEF k
  <2>2. k \in Month /\ YearStart(k) = k
    BY <2>1 DEF k
  <2>3. k \in Int /\ \A p \in 1..MonthsPerYear : k + p - 1 \in Month /\ YearStart(k + p - 1) = k
    BY <2>2, YearIsWhole
  <2>4. QED
    BY <2>3 DEF k
<1>2. ASSUME NEW i \in 1..n
      PROVE  /\ f[i] \in Seq(Entry) /\ Rising(f[i])
             /\ \A d : d \in DaysIn(f[i]) <=> \E p \in ps : d \in Wanted(e, ys[i] + p - 1)
  BY <1>1, YearStepsPick
<1>3. f \in [1..n -> Seq(Entry)] /\ DOMAIN f = 1..n
  BY <1>2
<1> HIDE DEF f
<1>4. ps \in SUBSET (1..MonthsPerYear)
  BY RuleMonthsRise DEF ToSet
<1> HIDE DEF ps
<1>5. ASSUME NEW i \in 1..n, NEW j \in 1..n, i < j PROVE Ahead(f[i], f[j])
  <2> SUFFICES ASSUME NEW c \in DaysIn(f[i]), NEW d \in DaysIn(f[j]) PROVE c < d
    BY DEF Ahead
  <2>1. PICK p \in ps : c \in Wanted(e, ys[i] + p - 1)
    BY <1>2
  <2>2. PICK s \in ps : d \in Wanted(e, ys[j] + s - 1)
    BY <1>2
  <2> DEFINE k == ys[i] + p - 1
             l == ys[j] + s - 1
  <2>3. k \in Month /\ l \in Month /\ YearStart(k) = ys[i] /\ YearStart(l) = ys[j]
    BY <1>1, <1>4
  <2>4. c \in Wanted(e, k) /\ d \in Wanted(e, l)
    BY <2>1, <2>2
  <2> HIDE DEF k, l
  <2>5. c \in DaysOf(k) /\ d \in DaysOf(l) /\ c \in Day /\ d \in Day
    BY <2>4 DEF Wanted, WantedOf, DaysOf
  <2>6. MonthOf(c) = k /\ MonthOf(d) = l
    BY <2>3, <2>5, MonthDays
  <2>7. k < l
    <3> SUFFICES ASSUME ~(k < l) PROVE FALSE
      OBVIOUS
    <3>1. k \in Int /\ l \in Int /\ l <= k
      BY <2>3, IcsAssumption DEF Month
    <3>2. YearOf(l) <= YearOf(k) /\ YearOf(l) \in Int /\ YearOf(k) \in Int
      <4>1. 1 \in Nat /\ 1 > 0
        OBVIOUS
      <4>2. YearOf(l) <= YearOf(k)
        BY <3>1, <4>1, YearsApart
      <4>3. QED
        BY <3>1, <4>2, YearsOfMonths
    <3> DEFINE u == YearOf(l)
               v == YearOf(k)
               m == MonthsPerYear
    <3>3. ys[j] = (m * u) + 1 /\ ys[i] = (m * v) + 1
      BY <2>3, <3>1, YearsOfMonths
    <3>4. m \in Nat /\ v - u \in Nat /\ u \in Int /\ v \in Int
      BY <3>2, IcsAssumption
    <3> HIDE DEF u, v, m
    <3>5. m * (v - u) \in Nat /\ m * (v - u) = (m * v) - (m * u) /\ m * v \in Int /\ m * u \in Int
      BY <3>4
    <3> DEFINE mu == m * u
               mv == m * v
    <3>6. mv - mu \in Nat /\ mu \in Int /\ mv \in Int /\ ys[j] = mu + 1 /\ ys[i] = mv + 1
      BY <3>3, <3>5
    <3> HIDE DEF mu, mv
    <3>7. ys[i] < ys[j]
      BY <1>5
    <3>8. QED
      BY <3>6, <3>7
  <2>8. QED
    BY <2>5, <2>6, <2>7, MonthsInOrder
<1>6. InTurn(f)
  BY <1>2, <1>3, <1>5 DEF InTurn
<1>7. QED
  BY <1>2, <1>3, <1>6 DEF f, ps

\* The days of a yearly series: in the years of the interval, those wanted of the
\* months the rule looks at.
LEMMA YearlyRecurs ==
  ASSUME NEW e, IsEvent(e), e.rule \in Rule, e.rule.freq = "YEARLY", Plain(e.rule), NEW d \in Day
  PROVE  LET k == MonthOf(d)
         IN d \in Recurs(e) <=>
              /\ d >= e.start
              /\ (YearStart(k) - YearStart(MonthOf(e.start))) % (e.rule.interval * MonthsPerYear) = 0
              /\ PlaceInYear(k) \in ToSet(RuleMonths(e)) /\ d \in Wanted(e, k)
<1> DEFINE k == MonthOf(d)
           a == MonthOf(e.start)
           ps == ToSet(RuleMonths(e))
           D == WantedOf(e, k)
<1>1. e.start \in Day /\ k \in Month /\ a \in Month /\ d \in DaysOf(k)
  BY MonthsOf, MonthDays DEF IsEvent
<1>2. \A l \in Month : l \in Int
  BY IcsAssumption DEF Month
<1> HIDE DEF k, a, ps, D
<1>3. ASSUME NEW l \in Month, NEW c \in DaysOf(l)
      PROVE  Filters(e, c) <=> SelectsDay(e, l, c) /\ PlaceInYear(l) \in ps
  <2>1. c \in Day /\ MonthOf(c) = l
    BY MonthDays DEF DaysOf
  <2>2. Filters(e, c) <=> Selects(e, c, l, a)
    BY <2>1 DEF Filters, a
  <2>3. /\ e.rule.byDay = <<>> \/ e.rule.byMonthDay = <<>>
        /\ e.rule.byMonth = <<>> => e.rule.byDay = <<>> /\ e.rule.byMonthDay = <<>>
    BY DEF Plain
  <2>4. Selects(e, c, l, a) <=>
          /\ SelectsDay(e, l, c)
          /\ e.rule.byMonth # <<>> => PlaceInYear(l) \in ToSet(e.rule.byMonth)
          /\ e.rule.byMonth = <<>> /\ e.rule.byDay = <<>> /\ e.rule.byMonthDay = <<>> /\ e.rule.freq = "YEARLY" =>
               PlaceInYear(l) = PlaceInYear(a)
    BY <1>1, <2>3, SelectsMeans DEF a
  <2>5. CASE e.rule.byMonth = <<>>
    <3> DEFINE p == PlaceInYear(a)
    <3>1. RuleMonths(e) = <<p>>
      BY <2>5 DEF RuleMonths, a
    <3> HIDE DEF p
    <3>2. ps = {p}
      BY <3>1 DEF ps, ToSet
    <3>3. QED
      BY <2>2, <2>3, <2>4, <2>5, <3>2 DEF p
  <2>6. CASE e.rule.byMonth # <<>>
    <3>1. ps = ToSet(e.rule.byMonth)
      BY <2>6 DEF RuleMonths, ps
    <3>2. QED
      BY <2>2, <2>4, <2>6, <3>1
  <2>7. QED
    BY <2>5, <2>6
<1>4. Aligned(e, d) <=> (YearStart(k) - YearStart(a)) % (e.rule.interval * MonthsPerYear) = 0
  <2>1. Aligned(e, d) <=> ((YearStart(k) - YearStart(a)) \div MonthsPerYear) % e.rule.interval = 0
    BY DEF Aligned, k, a
  <2>2. e.rule.interval \in Nat /\ e.rule.interval > 0
    BY RuleParts
  <2> DEFINE n == e.rule.interval
  <2> HIDE DEF n
  <2>3. n \in Nat /\ n > 0 /\ k \in Int /\ a \in Int
    BY <1>1, <1>2, <2>2 DEF n
  <2>4. /\ (YearStart(k) - YearStart(a)) \div MonthsPerYear = YearOf(k) - YearOf(a)
        /\ (YearStart(k) - YearStart(a)) % (n * MonthsPerYear) = 0 <=> (YearOf(k) - YearOf(a)) % n = 0
    BY <2>3, YearsApart
  <2>5. QED
    BY <2>1, <2>4 DEF n
<1>5. d \in D <=> SelectsDay(e, k, d)
  BY <1>1 DEF D, WantedOf
<1>6. ASSUME PlaceInYear(k) \in ps
      PROVE  Placed(e, d) <=> PlacedIn(e.rule.bySetPos, d, D)
  <2>1. CASE e.rule.bySetPos = <<>>
    BY <2>1 DEF Placed, PlacedIn
  <2>2. CASE e.rule.bySetPos # <<>>
    <3>1. Len(e.rule.byMonth) = 1 /\ e.rule.byMonth \in Seq(1..MonthsPerYear)
      BY <2>2, RuleParts DEF Plain
    <3>2. ps = {PlaceInYear(k)}
      <4> DEFINE ms == e.rule.byMonth
      <4>1. ms # <<>> /\ DOMAIN ms = {1}
        <5>1. ms \in Seq(1..MonthsPerYear) /\ Len(ms) = 1
          BY <3>1
        <5> HIDE DEF ms
        <5>2. DOMAIN ms = 1..1
          BY <5>1, LenProperties
        <5>3. QED
          BY <5>2
      <4>2. ps = ToSet(ms)
        BY <4>1 DEF RuleMonths, ps
      <4> HIDE DEF ms
      <4>3. ps = {ms[1]}
        BY <4>1, <4>2 DEF ToSet
      <4>4. QED
        BY <1>6, <4>3
    <3>3. ASSUME NEW l \in Month, YearStart(l) = YearStart(k), PlaceInYear(l) = PlaceInYear(k)
          PROVE  l = k
      <4>1. l \in Int /\ k \in Int
        BY <1>1, <1>2
      <4>2. l = YearStart(l) + PlaceInYear(l) - 1 /\ k = YearStart(k) + PlaceInYear(k) - 1
        BY <4>1, YearsOfMonths
      <4>3. QED
        BY <3>3, <4>2
    <3> DEFINE Year == {l \in Month : YearStart(l) = YearStart(k)}
               all == {c \in UNION {DaysOf(l) : l \in Year} : Filters(e, c)}
    <3>4. PeriodMonths(e.rule, k) = Year
      BY DEF PeriodMonths
    <3>5. \A c \in all : c \in D
      <4> TAKE c \in all
      <4>1. PICK l \in Year : c \in DaysOf(l)
        OBVIOUS
      <4>2. SelectsDay(e, l, c) /\ PlaceInYear(l) \in ps
        BY <1>3, <4>1
      <4>3. l = k
        BY <3>2, <3>3, <4>2
      <4>4. QED
        BY <4>1, <4>2, <4>3 DEF D, WantedOf
    <3>6. \A c \in D : c \in all
      <4> TAKE c \in D
      <4>1. c \in DaysOf(k) /\ SelectsDay(e, k, c)
        BY DEF D, WantedOf
      <4>2. k \in Year /\ Filters(e, c)
        BY <1>1, <1>3, <1>6, <4>1
      <4>3. QED
        BY <4>1, <4>2
    <3>7. all = D
      BY <3>5, <3>6
    <3>8. Placed(e, d) <=> PlacedIn(e.rule.bySetPos, d, all)
      BY <3>4 DEF Placed, k
    <3>9. QED
      BY <3>7, <3>8
  <2>3. QED
    BY <2>1, <2>2
<1>7. d \in Wanted(e, k) <=> SelectsDay(e, k, d) /\ PlacedIn(e.rule.bySetPos, d, D)
  BY <1>5 DEF Wanted, D
<1>8. Filters(e, d) <=> SelectsDay(e, k, d) /\ PlaceInYear(k) \in ps
  BY <1>1, <1>3
<1>9. d \in Recurs(e) <=> d >= e.start /\ Aligned(e, d) /\ Filters(e, d) /\ Placed(e, d)
  BY DEF Recurs
<1>10. QED
  BY <1>4, <1>6, <1>7, <1>8, <1>9 DEF k, a, ps

\* The yearly walk follows the series.
LEMMA YearlyFollows ==
  ASSUME NEW e, IsEvent(e), e.rule \in Rule, e.rule.freq = "YEARLY", Plain(e.rule), Unambiguous(e.rule),
         NEW lower \in Day, e.start <= lower, NEW end \in Day
  PROVE  Follows(e, Steps(e, lower, end), lower, end)
<1> DEFINE first == YearStart(MonthOf(e.start))
           step == e.rule.interval * MonthsPerYear
           Y == {l \in first..MonthOf(end) : (l - first) % step = 0}
           ys == MonthsFrom(first, step, end)
           ps == ToSet(RuleMonths(e))
           walk == YearlySteps(e, end)
<1>1. Steps(e, lower, end) = walk
  BY DEF Steps
<1>2. e.start \in Day /\ e.start \in Nat
  BY Days DEF IsEvent
<1>3. first \in Nat /\ first > 0 /\ MonthOf(e.start) \in Int /\ MonthOf(end) \in Nat
  <2> DEFINE a == MonthOf(e.start)
             z == MonthOf(end)
  <2>1. a \in Month /\ z \in Month
    BY <1>2, MonthsOf
  <2> HIDE DEF a, z
  <2>2. YearStart(a) \in Nat /\ YearStart(a) > 0
    BY <2>1, YearIsWhole
  <2>3. a \in Int /\ z \in Nat
    BY <2>1, IcsAssumption DEF Month
  <2>4. QED
    BY <2>2, <2>3 DEF a, z
<1>4. walk = Rounds([i \in DOMAIN ys |-> <<None>> \o YearSteps(e, ys[i])])
  BY DEF YearlySteps, YearSteps, RuleMonths
<1>5. step \in Nat /\ step > 0
  <2>1. e.rule.interval \in Nat /\ e.rule.interval > 0 /\ MonthsPerYear \in Nat /\ MonthsPerYear > 0
    BY RuleParts, IcsAssumption
  <2>2. step \in Nat /\ step # 0
    BY <2>1
  <2>3. QED
    BY <2>2
<1>6. ASSUME NEW y \in Y PROVE y = YearStart(y) /\ y \in Int
  <2> DEFINE a == MonthOf(e.start)
             m == MonthsPerYear
             q == YearOf(a)
             w == (y - first) \div step
             n == e.rule.interval
  <2>1. y \in Int /\ (y - first) % step = 0
    BY <1>3
  <2>2. y - first = step * w /\ w \in Int
    <3> HIDE DEF step
    <3> DEFINE x == y - first
    <3>1. x \in Int /\ x % step = 0
      BY <1>3, <2>1
    <3> HIDE DEF x
    <3>2. x = (step * (x \div step)) + (x % step) /\ x \div step \in Int
      BY <1>5, <3>1, Divided
    <3> DEFINE v == x \div step
    <3>3. x = (step * v) + 0 /\ v \in Int
      BY <3>1, <3>2
    <3> HIDE DEF v
    <3>4. x = step * v
      BY <1>5, <3>3
    <3>5. QED
      BY <3>3, <3>4 DEF v, x
  <2>3. first = (m * q) + 1 /\ q \in Int
    BY <1>3, YearsOfMonths
  <2>4. m \in Nat /\ m > 0 /\ n \in Nat
    BY RuleParts, IcsAssumption
  <2>5. step = n * m
    OBVIOUS
  <2> HIDE DEF step, first, a, m, q, w, n
  <2>6. step * w = m * (n * w) /\ n * w \in Int
    BY <2>2, <2>4, <2>5
  <2> DEFINE nw == n * w
             s == q + nw
  <2>7. s \in Int /\ m * s = (m * q) + (m * nw) /\ m * q \in Int /\ m * nw \in Int
    BY <2>3, <2>4, <2>6
  <2>8. y = (m * s) + 1
    <3> DEFINE mq == m * q
               mn == m * nw
               ms == m * s
    <3>1. y - first = mn /\ first = mq + 1 /\ ms = mq + mn /\ mq \in Int /\ mn \in Int
      BY <2>2, <2>3, <2>6, <2>7
    <3> HIDE DEF mq, mn, ms
    <3>2. y = ms + 1
      BY <2>1, <3>1
    <3>3. QED
      BY <3>2 DEF ms
  <2> HIDE DEF s
  <2>9. 1 \in 1..m
    BY <2>4
  <2>10. YearStart((m * s) + 1) = (m * s) + 1
    BY <2>7, <2>9, MonthOfYear DEF m
  <2>11. QED
    BY <2>1, <2>8, <2>10
<1> HIDE DEF first, step, walk
<1>7. Y \in SUBSET Month /\ Lists(ys, Y) /\ \E n \in Nat : ys \in [1..n -> Y] /\ DOMAIN ys = 1..n
  BY <1>3, MonthsOfAWalk
<1> HIDE DEF ys
<1>8. PICK n \in Nat : ys \in [1..n -> Y] /\ DOMAIN ys = 1..n
  BY <1>7
<1> DEFINE f == [i \in 1..n |-> YearSteps(e, ys[i])]
<1>9. /\ f \in [1..n -> Seq(Entry)] /\ InTurn(f)
      /\ \A i \in 1..n : \A d : d \in DaysIn(f[i]) <=> \E p \in ps : d \in Wanted(e, ys[i] + p - 1)
  <2>1. ys \in [1..n -> Month] /\ \A i \in 1..n : ys[i] \in Y
    BY <1>7, <1>8
  <2>2. \A i, j \in 1..n : i < j => ys[i] < ys[j]
    BY <1>7, <1>8 DEF Lists
  <2>3. \A i \in 1..n : ys[i] = YearStart(ys[i])
    BY <1>6, <2>1
  <2> HIDE DEF Y
  <2>4. QED
    BY <1>2, <2>1, <2>2, <2>3, YearsInTurn
<1>10. [i \in DOMAIN ys |-> <<None>> \o YearSteps(e, ys[i])] = [i \in 1..n |-> <<None>> \o f[i]]
  BY <1>8
<1> HIDE DEF f
<1>11. walk \in Seq(Entry) /\ Rising(walk) /\ DaysIn(walk) = UNION {DaysIn(f[i]) : i \in 1..n}
  BY <1>4, <1>9, <1>10, RoundsInTurn
<1> HIDE DEF ps
<1>12. \A d : d \in DaysIn(walk) <=> \E y \in Y : \E p \in ps : d \in Wanted(e, y + p - 1)
  <2>1. \A d : d \in DaysIn(walk) <=> \E i \in 1..n : \E p \in ps : d \in Wanted(e, ys[i] + p - 1)
    BY <1>9, <1>11
  <2>2. \A y \in Y : \E i \in 1..n : ys[i] = y
    BY <1>7, <1>8 DEF Lists
  <2>3. \A i \in 1..n : ys[i] \in Y
    BY <1>8
  <2> HIDE DEF Y
  <2>4. QED
    BY <2>1, <2>2, <2>3
<1>13. ps \in SUBSET (1..MonthsPerYear)
  BY <1>2, RuleMonthsRise DEF ToSet, ps
<1>14. ASSUME NEW d \in DaysIn(walk), e.start <= d PROVE d \in Recurs(e)
  <2>1. PICK y \in Y, p \in ps : d \in Wanted(e, y + p - 1)
    BY <1>12
  <2> DEFINE k == y + p - 1
  <2>2. y \in Month /\ YearStart(y) = y /\ (y - first) % step = 0
    BY <1>6, <1>7
  <2> HIDE DEF Y
  <2>3. k \in Month /\ PlaceInYear(k) = p /\ YearStart(k) = y
    BY <1>13, <2>2, YearIsWhole
  <2>4. d \in Wanted(e, k)
    BY <2>1
  <2> HIDE DEF k
  <2>5. d \in DaysOf(k) /\ d \in Day
    BY <2>4 DEF Wanted, WantedOf, DaysOf
  <2>6. MonthOf(d) = k /\ d \in Nat
    BY <2>3, <2>5, MonthDays, Days
  <2>7. d >= e.start
    BY <1>2, <1>14, <2>6
  <2>8. QED
    BY <2>2, <2>3, <2>4, <2>5, <2>6, <2>7, YearlyRecurs DEF first, step, ps
<1>15. ASSUME NEW d \in Recurs(e), d <= end PROVE d \in DaysIn(walk)
  <2> DEFINE k == MonthOf(d)
             y == YearStart(k)
             p == PlaceInYear(k)
  <2>1. d \in Day /\ d >= e.start /\ (y - first) % step = 0 /\ p \in ps /\ d \in Wanted(e, k)
    <3>1. d \in Day
      BY DEF Recurs
    <3>2. QED
      BY <3>1, YearlyRecurs DEF first, step, ps
  <2>2. k \in Month /\ k \in Int /\ k <= MonthOf(end) /\ MonthOf(e.start) <= k
    <3>1. k \in Month /\ MonthOf(d) <= MonthOf(end)
      BY <1>15, <2>1, MonthsOf, MonthsInOrder
    <3>2. e.start <= d
      BY <1>2, <2>1, Days
    <3>3. MonthOf(e.start) <= k
      BY <1>2, <2>1, <3>2, MonthsInOrder
    <3>4. QED
      BY <3>1, <3>3, IcsAssumption DEF Month
  <2>3. y \in Int /\ k = y + p - 1 /\ p \in 1..MonthsPerYear
    <3> HIDE DEF k
    <3>1. QED
      BY <2>2, YearsOfMonths
  <2>4. first <= y
    <3> DEFINE a == MonthOf(e.start)
               m == MonthsPerYear
               u == YearOf(a)
               v == YearOf(k)
    <3>1. a \in Int /\ k \in Int /\ a <= k
      BY <1>3, <2>2
    <3> HIDE DEF a, k
    <3>2. u <= v
      <4>1. 1 \in Nat /\ 1 > 0
        OBVIOUS
      <4>2. QED
        BY <3>1, <4>1, YearsApart
    <3>3. first = (m * u) + 1 /\ y = (m * v) + 1 /\ u \in Int /\ v \in Int
      BY <3>1, YearsOfMonths DEF first, a
    <3>4. m \in Nat
      BY IcsAssumption
    <3> HIDE DEF u, v, m, y
    <3>5. v - u \in Nat
      BY <3>2, <3>3
    <3>6. m * (v - u) \in Nat /\ m * (v - u) = (m * v) - (m * u) /\ m * v \in Int /\ m * u \in Int
      BY <3>3, <3>4, <3>5
    <3> DEFINE mu == m * u
               mv == m * v
    <3>7. mv - mu \in Nat /\ mu \in Int /\ mv \in Int /\ first = mu + 1 /\ y = mv + 1
      BY <3>3, <3>6
    <3> HIDE DEF mu, mv
    <3>8. QED
      BY <3>7
  <2> HIDE DEF k, y, p
  <2>5. y <= k
    BY <2>2, <2>3, IcsAssumption
  <2>6. y \in Y
    BY <1>3, <2>1, <2>2, <2>3, <2>4, <2>5
  <2> HIDE DEF Y
  <2>7. d \in Wanted(e, y + p - 1)
    BY <2>1, <2>3
  <2>8. QED
    BY <1>12, <2>1, <2>6, <2>7
<1>16. QED
  BY <1>1, <1>11, <1>14, <1>15 DEF Follows

LEMMA SingleGivesTheSeries ==
  ASSUME NEW e, IsEvent(e), e.rule = None
  PROVE  GivesTheSeries(e)
<1>1. RuleStarts(e).starts = <<e.start>> /\ Series(e) = {e.start}
  BY DEF RuleStarts, Series
<1>2. DOMAIN <<e.start>> = {1} /\ <<e.start>>[1] = e.start
  OBVIOUS
<1>3. QED
  BY <1>1, <1>2 DEF GivesTheSeries

LEMMA WalkGivesTheSeries ==
  ASSUME NEW e, IsEvent(e), e.rule # None, InWindow,
         \A lower, end \in Day : e.start <= lower => Follows(e, Steps(e, lower, end), lower, end)
  PROVE  GivesTheSeries(e)
<1> DEFINE lower == Lower(e, WindowStart(e))
           end == EndOf(e, window[2])
           steps == Steps(e, lower, end)
<1>1. e.rule \in Rule
  BY DEF IsEvent
<1>2. lower \in Day /\ e.start <= lower /\ end \in Day
  <2>1. WindowStart(e) \in Day /\ window[2] \in Day
    BY WindowBegins DEF InWindow
  <2>2. QED
    BY <1>1, <2>1, WalkBounds
<1>3. Follows(e, steps, lower, end)
  <2> HIDE DEF lower, end
  <2>1. QED
    BY <1>2
<1>4. lower = Lower(e, WindowStart(e)) /\ end = EndOf(e, window[2]) /\ steps = Steps(e, lower, end)
  OBVIOUS
<1> HIDE DEF lower, end, steps
<1>5. QED
  BY <1>1, <1>3, <1>4, StartsOfTheSeries DEF GivesTheSeries

LEMMA ScopeGivesTheSeries ==
  ASSUME NEW e, IsEvent(e), InWindow, InScope(e), e.rule # None => e.rule.freq # "HOURLY"
  PROVE  GivesTheSeries(e)
<1>1. CASE e.rule = None
  BY <1>1, SingleGivesTheSeries
<1>2. CASE e.rule # None
  <2>1. e.rule \in Rule /\ Plain(e.rule) /\ Unambiguous(e.rule)
    BY <1>2 DEF IsEvent, InScope
  <2>2. \A lower, end \in Day : e.start <= lower => Follows(e, Steps(e, lower, end), lower, end)
    <3> TAKE lower, end \in Day
    <3> HAVE e.start <= lower
    <3>1. CASE e.rule.freq = "DAILY"
      BY <2>1, <3>1, DailyFollows
    <3>2. CASE e.rule.freq = "WEEKLY"
      BY <2>1, <3>2, WeeklyFollows
    <3>3. CASE e.rule.freq = "MONTHLY"
      BY <2>1, <3>3, MonthlyFollows
    <3>4. CASE e.rule.freq = "YEARLY"
      BY <2>1, <3>4, YearlyFollows
    <3>5. e.rule.freq \in {"DAILY", "WEEKLY", "MONTHLY", "YEARLY"}
      BY <1>2, <2>1, RuleParts
    <3>6. QED
      BY <3>1, <3>2, <3>3, <3>4, <3>5
  <2>3. QED
    BY <1>2, <2>2, WalkGivesTheSeries
<1>3. QED
  BY <1>1, <1>2

\* The results of an event, when its starts give its series.
LEMMA GivenOnce ==
  ASSUME ExpandInv, ResultInv, NEW i \in Done, InScope(feed[i]), GivesTheSeries(feed[i])
  PROVE  Expanded(i)
<1>1. i \in 1..Len(feed) /\ i \in Nat \ {0} /\ IsEvent(feed[i]) /\ InWindow
  BY DEF ExpandInv, Done
<1>2. /\ ~Refused(feed[i]) /\ {occs[k] : k \in Given(i)} = ToSet(Occurrences(i))
      /\ Once(Occurrences(i)) => \A k, m \in Given(i) : occs[k] = occs[m] => k = m
  BY DEF ResultInv, HasItsOwn
<1>3. ToSet(Occurrences(i)) = Promised(i) /\ Once(Occurrences(i))
  <2>1. feed[i].rule # None => feed[i].rule.freq # "HOURLY"
    BY <1>2 DEF Refused, Parses
  <2>2. \A d \in DOMAIN feed[i].overrides : d <= window[2]
    BY DEF InScope
  <2>3. QED
    BY <1>1, <2>1, <2>2, GivenIsPromised
<1>4. Cardinality(Given(i)) = Cardinality(Promised(i))
  <2> DEFINE f == [k \in Given(i) |-> occs[k]]
  <2>1. f \in Bijection(Given(i), Promised(i))
    <3>1. \A k \in Given(i) : f[k] = occs[k] /\ occs[k] \in Promised(i)
      BY <1>2, <1>3
    <3>2. \A p \in Promised(i) : \E k \in Given(i) : f[k] = p
      BY <1>2, <1>3
    <3>3. \A k, m \in Given(i) : f[k] = f[m] => k = m
      BY <1>2, <1>3
    <3>4. f \in [Given(i) -> Promised(i)]
      BY <3>1
    <3> HIDE DEF f
    <3>5. QED
      BY <3>2, <3>3, <3>4 DEF Bijection, Injection, Surjection, IsInjective
  <2>2. IsFiniteSet(Given(i))
    <3>1. occs \in Seq(Occurrence) /\ Given(i) \in SUBSET DOMAIN occs
      BY DEF ResultInv, Given
    <3>2. DOMAIN occs = 1..Len(occs) /\ Len(occs) \in Nat
      BY <3>1
    <3>3. IsFiniteSet(1..Len(occs))
      BY <3>2, FS_Interval
    <3>4. QED
      BY <3>1, <3>2, <3>3, FS_Subset
  <2> HIDE DEF f
  <2>3. QED
    BY <2>1, <2>2, FS_Bijection DEF ExistsBijection
<1>5. QED
  BY <1>2, <1>3, <1>4 DEF Expanded

\* An event that is not reported as skipped has the occurrences of its recurrence set in
\* the window, each once, however its neighbours spent the feed's budget (Expand,
\* expandRule and the walks of the four frequencies).
THEOREM SeriesAreExpanded == Spec => []ExpandsTheSeries
<1>1. Init => ExpandInv /\ ResultInv
  BY InitExpandInv, InitResultInv
<1>2. ExpandInv /\ ResultInv /\ [Next]_vars => ExpandInv' /\ ResultInv'
  BY StepExpandInv, StepResultInv
<1>3. ExpandInv /\ ResultInv => ExpandsTheSeries
  <2> SUFFICES ASSUME ExpandInv, ResultInv, NEW i \in Done, InScope(feed[i])
               PROVE  Expanded(i)
    BY DEF ExpandsTheSeries
  <2>1. IsEvent(feed[i]) /\ InWindow
    BY DEF ExpandInv, Done
  <2>2. feed[i].rule # None => feed[i].rule.freq # "HOURLY"
    BY DEF ResultInv, HasItsOwn, Refused, Parses
  <2>3. GivesTheSeries(feed[i])
    BY <2>1, <2>2, ScopeGivesTheSeries
  <2>4. QED
    BY <2>3, GivenOnce
<1>4. QED
  BY <1>1, <1>2, <1>3, PTL DEF Spec
=============================================================================
