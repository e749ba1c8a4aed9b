----------------------- MODULE DispatchPolicy_proofs ------------------------
(***************************************************************************)
(* Proofs about DispatchPolicy for any tasks, agents, requests, quotas and *)
(* clocks, under every policy: aging bounds what priority can do, tasks    *)
(* start in the order of the policy, and on the best agent.                *)
(***************************************************************************)
EXTENDS DispatchPolicy, TLAPS, FiniteSetTheorems, SequenceTheorems, WellFoundedInduction

(* Most steps are first-order reasoning about sets and functions: Zenon    *)
(* proves them, and the steps that need more say SMT.                      *)
USE Zenon

-----------------------------------------------------------------------------
(* A strict total order on S, as a set of pairs, and p that enumerates S   *)
(* along it: the place of a member is given by the number of those below.  *)
StrictOrder(S, R) ==
    /\ \A x \in S : <<x, x>> \notin R
    /\ \A x, y, z \in S : <<x, y>> \in R /\ <<y, z>> \in R => <<x, z>> \in R
    /\ \A x, y \in S : x # y => <<x, y>> \in R \/ <<y, x>> \in R
Below(x, S, R) == {y \in S : <<y, x>> \in R}
Ranks(p, S, R) ==
    /\ p \in [1..Cardinality(S) -> S]
    /\ \A x \in S : \E i \in 1..Cardinality(S) : p[i] = x
    /\ \A i, j \in 1..Cardinality(S) : i < j => <<p[i], p[j]>> \in R
    /\ \A i \in 1..Cardinality(S), x \in S : Cardinality(Below(x, S, R)) = i - 1 <=> x = p[i]

LEMMA BelowGrows ==
    ASSUME NEW S, IsFiniteSet(S), NEW R, StrictOrder(S, R), NEW x \in S, NEW y \in S, <<x, y>> \in R
    PROVE  Cardinality(Below(x, S, R)) < Cardinality(Below(y, S, R))
<1> DEFINE A == Below(x, S, R)
           B == Below(y, S, R)
<1>1. A \in SUBSET S /\ B \in SUBSET S /\ x \notin A /\ A \union {x} \in SUBSET B
  BY DEF Below, StrictOrder
<1> HIDE DEF A, B
<1>2. IsFiniteSet(A) /\ IsFiniteSet(B)
  BY <1>1, FS_Subset
<1>3. Cardinality(A) \in Nat /\ Cardinality(B) \in Nat
  BY <1>2, FS_CardinalityType
<1>4. Cardinality(A \union {x}) = Cardinality(A) + 1
  BY <1>1, <1>2, FS_AddElement
<1>5. Cardinality(A \union {x}) <= Cardinality(B)
  BY <1>1, <1>2, FS_Subset
<1>6. Cardinality(A) < Cardinality(B)
  BY <1>3, <1>4, <1>5, SMT
<1> QED BY <1>6 DEF A, B

LEMMA BelowBounded ==
    ASSUME NEW S, IsFiniteSet(S), NEW R, StrictOrder(S, R), NEW x \in S
    PROVE  Cardinality(Below(x, S, R)) + 1 \in 1..Cardinality(S) /\ Cardinality(Below(x, S, R)) \in Nat
<1> DEFINE A == Below(x, S, R)
<1>1. A \in SUBSET (S \ {x})
  BY DEF Below, StrictOrder
<1> HIDE DEF A
<1>2. IsFiniteSet(S \ {x}) /\ Cardinality(S \ {x}) = Cardinality(S) - 1
  BY FS_RemoveElement
<1>3. IsFiniteSet(A) /\ Cardinality(A) <= Cardinality(S \ {x})
  BY <1>1, <1>2, FS_Subset
<1>4. Cardinality(A) \in Nat /\ Cardinality(S) \in Nat
  BY <1>3, FS_CardinalityType
<1>5. Cardinality(A) + 1 \in 1..Cardinality(S)
  BY <1>2, <1>3, <1>4, SMTT(30)
<1> QED BY <1>4, <1>5 DEF A

(* Such an enumeration exists: the places are all different, so that none  *)
(* is left over.                                                           *)
LEMMA Ranking ==
    ASSUME NEW S, IsFiniteSet(S), NEW R, StrictOrder(S, R)
    PROVE  \E p : Ranks(p, S, R)
<1> DEFINE n == Cardinality(S)
           place == [x \in S |-> Cardinality(Below(x, S, R)) + 1]
           p == [i \in 1..n |-> CHOOSE x \in S : place[x] = i]
<1>1. n \in Nat /\ IsFiniteSet(1..n) /\ Cardinality(1..n) = n
  <2>1. n \in Nat
    BY FS_CardinalityType
  <2>2. 1 \in Int /\ n \in Int /\ (1 > n => n = 0) /\ n - 1 + 1 = n
    BY <2>1, SMT
  <2> QED BY <2>1, <2>2, FS_Interval
<1>2. place \in [S -> 1..n]
  BY BelowBounded
<1>3. \A x, y \in S : <<x, y>> \in R => place[x] < place[y]
  <2> SUFFICES ASSUME NEW x \in S, NEW y \in S, <<x, y>> \in R PROVE place[x] < place[y]
    OBVIOUS
  <2>1. Cardinality(Below(x, S, R)) < Cardinality(Below(y, S, R))
    BY BelowGrows
  <2>2. Cardinality(Below(x, S, R)) \in Nat /\ Cardinality(Below(y, S, R)) \in Nat
    BY BelowBounded
  <2>3. Cardinality(Below(x, S, R)) + 1 < Cardinality(Below(y, S, R)) + 1
    BY <2>1, <2>2, SMT
  <2> QED BY <2>3
<1>4. \A i \in 1..n, x \in S : Cardinality(Below(x, S, R)) = i - 1 <=> place[x] = i
  <2> SUFFICES ASSUME NEW i \in 1..n, NEW x \in S
               PROVE  Cardinality(Below(x, S, R)) = i - 1 <=> Cardinality(Below(x, S, R)) + 1 = i
    OBVIOUS
  <2>1. Cardinality(Below(x, S, R)) \in Nat
    BY BelowBounded
  <2> QED BY <1>1, <2>1, SMT
<1> HIDE DEF place, n
<1>5. \A x, y \in S : place[x] = place[y] => x = y
  <2> SUFFICES ASSUME NEW x \in S, NEW y \in S, x # y, place[x] = place[y] PROVE FALSE
    OBVIOUS
  <2>1. place[x] < place[y] \/ place[y] < place[x]
    BY <1>3 DEF StrictOrder
  <2> QED BY <1>1, <1>2, <2>1, SMT
<1>6. \A i \in 1..n : \E x \in S : place[x] = i
  <2>1. place \in Injection(S, 1..n)
    BY <1>2, <1>5 DEF Injection, IsInjective
  <2>2. place \in Surjection(S, 1..n)
    BY <1>1, <2>1, FS_Injection DEF n
  <2> QED BY <2>2 DEF Surjection
<1>7. \A i \in 1..n : p[i] \in S /\ place[p[i]] = i
  BY <1>6
<1>8. \A x \in S : place[x] \in 1..n /\ p[place[x]] = x
  BY <1>2, <1>5, <1>7
<1>9. p \in [1..n -> S]
  BY <1>7
<1> HIDE DEF p
<1>10. ASSUME NEW i \in 1..n, NEW j \in 1..n, i < j
       PROVE  <<p[i], p[j]>> \in R
  <2>1. p[i] # p[j]
    BY <1>1, <1>7, <1>10, SMT
  <2>2. CASE <<p[j], p[i]>> \in R
    <3>1. j < i
      BY <1>3, <1>7, <2>2
    <3> QED BY <1>1, <1>10, <3>1, SMT
  <2> QED BY <1>7, <2>1, <2>2 DEF StrictOrder
<1>11. \A i \in 1..n, x \in S : place[x] = i <=> x = p[i]
  BY <1>5, <1>7
<1>12. \A i \in 1..n, x \in S : Cardinality(Below(x, S, R)) = i - 1 <=> x = p[i]
  BY <1>4, <1>11
<1>13. \A x \in S : \E i \in 1..n : p[i] = x
  BY <1>8
<1>14. Ranks(p, S, R)
  BY <1>9, <1>10, <1>12, <1>13 DEF Ranks, n
<1> QED BY <1>14

-----------------------------------------------------------------------------
(* Python compares lists of m numbers at the first place where they        *)
(* differ: a strict total order.                                           *)
LEMMA LeastNumber ==
    ASSUME NEW S \in SUBSET Nat, S # {}
    PROVE  \E x \in S : \A y \in S : x <= y
<1>1. PICK x \in S : \A y \in S : ~(<<y, x>> \in OpToRel(<, Nat))
  BY NatLessThanWellFounded, WFMin
<1>2. ASSUME NEW y \in S PROVE x <= y
  <2>1. <<y, x>> \in Nat \X Nat /\ <<y, x>>[1] = y /\ <<y, x>>[2] = x /\ x \in Nat /\ y \in Nat
    BY SMT
  <2>2. ~(y < x)
    BY <1>1, <2>1, SMT DEF OpToRel
  <2> QED BY <2>1, <2>2, SMT
<1> QED BY <1>2

LEMMA LessTransitive ==
    ASSUME NEW m \in Nat, NEW k \in [1..m -> Int], NEW l \in [1..m -> Int], NEW h \in [1..m -> Int],
           Less(k, l), Less(l, h)
    PROVE  Less(k, h)
<1>1. DOMAIN k = 1..m /\ DOMAIN l = 1..m
  OBVIOUS
<1>2. PICK i \in 1..m : k[i] < l[i] /\ \A j \in 1..(i - 1) : k[j] = l[j]
  BY <1>1 DEF Less
<1>3. PICK j \in 1..m : l[j] < h[j] /\ \A g \in 1..(j - 1) : l[g] = h[g]
  BY <1>1 DEF Less
<1>4. CASE i <= j
  <2>1. k[i] < h[i] /\ \A g \in 1..(i - 1) : k[g] = h[g]
    BY <1>2, <1>3, <1>4, SMTT(30)
  <2> QED BY <1>1, <2>1 DEF Less
<1>5. CASE j < i
  <2>1. k[j] < h[j] /\ \A g \in 1..(j - 1) : k[g] = h[g]
    BY <1>2, <1>3, <1>5, SMTT(30)
  <2> QED BY <1>1, <2>1 DEF Less
<1> QED BY <1>4, <1>5, SMT

LEMMA LessIrreflexive ==
    ASSUME NEW m \in Nat, NEW k \in [1..m -> Int]
    PROVE  ~Less(k, k)
BY SMT DEF Less

LEMMA LessTotal ==
    ASSUME NEW m \in Nat, NEW k \in [1..m -> Int], NEW l \in [1..m -> Int], k # l
    PROVE  Less(k, l) \/ Less(l, k)
<1> DEFINE X == {i \in 1..m : k[i] # l[i]}
<1>1. X # {} /\ X \in SUBSET Nat
  BY SMTT(30)
<1>2. PICK i \in X : \A j \in X : i <= j
  BY <1>1, LeastNumber
<1>3. \A j \in 1..(i - 1) : k[j] = l[j]
  BY <1>2, SMT
<1>4. k[i] < l[i] \/ l[i] < k[i]
  BY SMT
<1> QED BY <1>3, <1>4 DEF Less

(* Sorted by keys that all differ, a queue is permuted, and its keys grow. *)
Keyed(q, key, m) == /\ key \in [DOMAIN q -> [1..m -> Int]]
                    /\ \A i, j \in DOMAIN q : i # j => key[i] # key[j]

LEMMA SortedFacts ==
    ASSUME NEW T, NEW q \in Seq(T), NEW m \in Nat, NEW key, Keyed(q, key, m)
    PROVE  \E p \in [1..Len(q) -> 1..Len(q)] :
               /\ Sorted(q, key) = [a \in 1..Len(q) |-> q[p[a]]]
               /\ \A i \in 1..Len(q) : \E a \in 1..Len(q) : p[a] = i
               /\ \A a, b \in 1..Len(q) : a < b => Less(key[p[a]], key[p[b]])
<1> DEFINE S == 1..Len(q)
           R == {e \in S \X S : Less(key[e[1]], key[e[2]])}
<1>1. Len(q) \in Nat /\ DOMAIN q = S /\ \A i \in S : key[i] \in [1..m -> Int]
  BY SMT DEF Keyed
<1>2. \A i, j \in S : <<i, j>> \in R <=> Less(key[i], key[j])
  BY SMT
<1>3. IsFiniteSet(S) /\ Cardinality(S) = Len(q)
  <2>1. 1 \in Int /\ Len(q) \in Int /\ (1 > Len(q) => Len(q) = 0) /\ Len(q) - 1 + 1 = Len(q)
    BY <1>1, SMT
  <2> QED BY <2>1, FS_Interval
<1>4. \A i \in S : Below(i, S, R) = {j \in DOMAIN q : Less(key[j], key[i])}
  BY <1>1, <1>2 DEF Below
<1> HIDE DEF R
<1>5. \A i \in S : <<i, i>> \notin R
  BY <1>1, <1>2, LessIrreflexive
<1>6. \A i, j, g \in S : <<i, j>> \in R /\ <<j, g>> \in R => <<i, g>> \in R
  <2> SUFFICES ASSUME NEW i \in S, NEW j \in S, NEW g \in S, Less(key[i], key[j]), Less(key[j], key[g])
               PROVE  Less(key[i], key[g])
    BY <1>2
  <2> DEFINE a == key[i]
             b == key[j]
             c == key[g]
  <2>1. a \in [1..m -> Int] /\ b \in [1..m -> Int] /\ c \in [1..m -> Int] /\ Less(a, b) /\ Less(b, c)
    BY <1>1
  <2> HIDE DEF a, b, c
  <2>2. Less(a, c)
    BY <2>1, LessTransitive
  <2> QED BY <2>2 DEF a, c
<1>7. \A i, j \in S : i # j => <<i, j>> \in R \/ <<j, i>> \in R
  <2> SUFFICES ASSUME NEW i \in S, NEW j \in S, i # j
               PROVE  Less(key[i], key[j]) \/ Less(key[j], key[i])
    BY <1>2
  <2> DEFINE a == key[i]
             b == key[j]
  <2>1. a \in [1..m -> Int] /\ b \in [1..m -> Int] /\ a # b
    BY <1>1 DEF Keyed
  <2> HIDE DEF a, b
  <2>2. Less(a, b) \/ Less(b, a)
    BY <2>1, LessTotal
  <2> QED BY <2>2 DEF a, b
<1>8. StrictOrder(S, R)
  BY <1>5, <1>6, <1>7 DEF StrictOrder
<1>9. PICK p : Ranks(p, S, R)
  BY <1>3, <1>8, Ranking
<1>10. /\ p \in [S -> S]
       /\ \A i \in S : \E a \in S : p[a] = i
       /\ \A a, b \in S : a < b => Less(key[p[a]], key[p[b]])
  BY <1>2, <1>3, <1>9 DEF Ranks
<1>11. Sorted(q, key) = [a \in S |-> q[p[a]]]
  <2>1. \A a \in S : (CHOOSE i \in DOMAIN q : Cardinality({j \in DOMAIN q : Less(key[j], key[i])}) = a - 1) = p[a]
    <3> SUFFICES ASSUME NEW a \in S
                 PROVE  (CHOOSE i \in S : Cardinality({j \in S : Less(key[j], key[i])}) = a - 1) = p[a]
      BY <1>1
    <3>1. \A i \in S : Cardinality({j \in S : Less(key[j], key[i])}) = a - 1 <=> i = p[a]
      BY <1>1, <1>3, <1>4, <1>9 DEF Ranks
    <3> QED BY <1>10, <3>1
  <2>2. Sorted(q, key) =
            [a \in DOMAIN q |-> q[CHOOSE i \in DOMAIN q : Cardinality({j \in DOMAIN q : Less(key[j], key[i])}) = a - 1]]
    BY DEF Sorted
  <2> QED BY <1>1, <2>1, <2>2
<1> QED BY <1>10, <1>11

-----------------------------------------------------------------------------
(* Finite sets of numbers can be put in order.                             *)
LEMMA InOrderFacts ==
    ASSUME NEW S \in SUBSET Nat, IsFiniteSet(S)
    PROVE  /\ InOrder(S) \in [1..Cardinality(S) -> S]
           /\ \A x \in S : \E i \in 1..Cardinality(S) : InOrder(S)[i] = x
           /\ \A i, j \in 1..Cardinality(S) : i < j => InOrder(S)[i] < InOrder(S)[j]
<1> DEFINE R == {e \in S \X S : e[1] < e[2]}
           n == Cardinality(S)
           IsOrder(q) == /\ \A x \in S : \E i \in DOMAIN q : q[i] = x
                         /\ \A i, j \in DOMAIN q : i < j => q[i] < q[j]
<1>1. \A x, y \in S : <<x, y>> \in R <=> x < y
  BY SMT
<1> HIDE DEF R
<1>2. StrictOrder(S, R)
  <2>1. \A x \in S : ~(x < x)
    BY SMT
  <2>2. \A x, y, z \in S : x < y /\ y < z => x < z
    BY SMT
  <2>3. \A x, y \in S : x # y => x < y \/ y < x
    BY SMT
  <2> QED BY <1>1, <2>1, <2>2, <2>3 DEF StrictOrder
<1>3. PICK p : Ranks(p, S, R)
  BY <1>2, Ranking
<1>4. p \in [1..n -> S] /\ IsOrder(p)
  BY <1>1, <1>3 DEF Ranks
<1>5. InOrder(S) = CHOOSE q \in [1..n -> S] : IsOrder(q)
  BY DEF InOrder
<1> HIDE DEF IsOrder
<1>6. InOrder(S) \in [1..n -> S] /\ IsOrder(InOrder(S))
  BY <1>4, <1>5
<1>7. DOMAIN InOrder(S) = 1..n
  BY <1>6
<1> QED BY <1>6, <1>7 DEF IsOrder

(* What is kept of a queue keeps its order.                                *)
LEMMA OutsideFacts ==
    ASSUME NEW T, NEW q \in Seq(T), NEW S
    PROVE  /\ Outside(q, S) \in Seq(T)
           /\ \A x : x \in Range(Outside(q, S)) <=> x \in Range(q) /\ x \notin S
           /\ \A i, j \in DOMAIN q :
                  i < j /\ q[i] \notin S /\ q[j] \notin S => Before(q[i], q[j], Outside(q, S))
<1> DEFINE X == {i \in DOMAIN q : q[i] \notin S}
           n == Cardinality(X)
           at == InOrder(X)
           o == [k \in 1..n |-> q[at[k]]]
<1>1. Len(q) \in Nat /\ DOMAIN q = 1..Len(q) /\ q \in [1..Len(q) -> T]
  BY SMT
<1>2. X \in SUBSET (1..Len(q)) /\ X \in SUBSET Nat
  <2>1. 1..Len(q) \in SUBSET Nat
    BY <1>1, SMT
  <2> QED BY <1>1, <2>1
<1>3. IsFiniteSet(X) /\ n \in Nat
  <2>1. IsFiniteSet(1..Len(q))
    BY <1>1, FS_Interval, SMT
  <2> QED BY <1>2, <2>1, FS_Subset, FS_CardinalityType
<1>4. /\ at \in [1..n -> X]
      /\ \A i \in X : \E k \in 1..n : at[k] = i
      /\ \A k, l \in 1..n : k < l => at[k] < at[l]
  BY <1>2, <1>3, InOrderFacts
<1>5. Outside(q, S) = o /\ DOMAIN o = 1..n
  <2>1. DOMAIN at = 1..n
    BY <1>4
  <2> QED BY <2>1 DEF Outside
<1> HIDE DEF at, n
<1>6. o \in [1..n -> T] /\ \A k \in 1..n : o[k] = q[at[k]]
  BY <1>1, <1>2, <1>4
<1> HIDE DEF o
<1>7. o \in Seq(T)
  BY <1>3, <1>6, SMT
<1>8. ASSUME NEW x, x \in Range(o) PROVE x \in Range(q) /\ x \notin S
  <2>1. PICK k \in 1..n : o[k] = x
    BY <1>5, <1>8 DEF Range
  <2>2. at[k] \in X /\ x = q[at[k]]
    BY <1>4, <1>6, <2>1
  <2> QED BY <2>2 DEF Range
<1>9. ASSUME NEW x, x \in Range(q), x \notin S PROVE x \in Range(o)
  <2>1. PICK i \in DOMAIN q : q[i] = x
    BY <1>9 DEF Range
  <2>2. PICK k \in 1..n : at[k] = i
    BY <1>4, <1>9, <2>1
  <2>3. o[k] = x /\ k \in DOMAIN o
    BY <1>5, <1>6, <2>1, <2>2
  <2> QED BY <2>3 DEF Range
<1>10. ASSUME NEW i \in DOMAIN q, NEW j \in DOMAIN q, i < j, q[i] \notin S, q[j] \notin S
       PROVE  Before(q[i], q[j], o)
  <2>1. PICK k \in 1..n : at[k] = i
    BY <1>4, <1>10
  <2>2. PICK l \in 1..n : at[l] = j
    BY <1>4, <1>10
  <2>3. k < l
    <3>1. l < k => j < i
      BY <1>4, <2>1, <2>2
    <3>2. l = k => i = j
      BY <2>1, <2>2
    <3>3. i \in Nat /\ j \in Nat
      BY <1>1, SMT
    <3> QED BY <1>3, <1>10, <3>1, <3>2, <3>3, SMT
  <2>4. o[k] = q[i] /\ o[l] = q[j]
    BY <1>6, <2>1, <2>2
  <2> QED BY <1>5, <2>3, <2>4 DEF Before
<1> QED BY <1>5, <1>7, <1>8, <1>9, <1>10

-----------------------------------------------------------------------------
(* _sort_ready: a permutation of the queue in which no entry comes after   *)
(* one with a larger sort key, whatever the keys of three numbers are.     *)
SortKeys == {k \in Seq(Int) : Len(k) = 3}

LEMMA SortKeyFacts ==
    ASSUME NEW k \in SortKeys
    PROVE  k \in [1..3 -> Int] /\ DOMAIN k = 1..3 /\ k \in Seq(Int) /\ Len(k) = 3
<1>1. k \in Seq(Int) /\ Len(k) = 3
  BY DEF SortKeys
<1>2. k \in [1..Len(k) -> Int] /\ DOMAIN k = 1..Len(k)
  BY <1>1, LenProperties
<1> QED BY <1>1, <1>2

LEMMA AppendedKey ==
    ASSUME NEW k \in SortKeys, NEW i \in Int
    PROVE  /\ Append(k, i) \in [1..4 -> Int]
           /\ Append(k, i)[4] = i
           /\ \A n \in 1..3 : Append(k, i)[n] = k[n]
<1>1. k \in Seq(Int) /\ Len(k) = 3 /\ 3 + 1 = 4
  BY SortKeyFacts, SMT
<1> DEFINE a == Append(k, i)
<1>2. /\ a \in Seq(Int) /\ Len(a) = Len(k) + 1 /\ a[Len(k) + 1] = i
      /\ \A n \in 1..Len(k) : a[n] = k[n]
  <2>1. k \in Seq(Int)
    BY <1>1
  <2>2. a \in Seq(Int) /\ Len(a) = Len(k) + 1 /\ a[Len(k) + 1] = i
    BY <2>1, AppendProperties
  <2>3. \A n \in 1..Len(k) : a[n] = k[n]
    BY <2>1, SMT
  <2> QED BY <2>2, <2>3
<1> HIDE DEF a
<1>3. a \in Seq(Int) /\ Len(a) = 4 /\ a[4] = i /\ \A n \in 1..3 : a[n] = k[n]
  BY <1>1, <1>2
<1>4. a \in [1..Len(a) -> Int]
  BY <1>3, LenProperties
<1> QED BY <1>3, <1>4 DEF a

LEMMA AppendedLess ==
    ASSUME NEW k \in SortKeys, NEW l \in SortKeys, NEW i \in Int, NEW j \in Int
    PROVE  /\ Append(k, i) \in [1..4 -> Int]
           /\ i # j => Append(k, i) # Append(l, j)
           /\ Less(k, l) => Less(Append(k, i), Append(l, j))
<1> DEFINE a == Append(k, i)
           b == Append(l, j)
<1>1. /\ a \in [1..4 -> Int] /\ a[4] = i /\ \A n \in 1..3 : a[n] = k[n]
      /\ b \in [1..4 -> Int] /\ b[4] = j /\ \A n \in 1..3 : b[n] = l[n]
  BY AppendedKey
<1> HIDE DEF a, b
<1>2. DOMAIN a = 1..4 /\ DOMAIN k = 1..3
  BY <1>1, SortKeyFacts
<1>3. ASSUME Less(k, l) PROVE Less(a, b)
  <2>1. PICK n \in 1..3 : k[n] < l[n] /\ \A m \in 1..(n - 1) : k[m] = l[m]
    BY <1>2, <1>3 DEF Less
  <2>2. n \in 1..4 /\ a[n] < b[n] /\ \A m \in 1..(n - 1) : a[m] = b[m]
    BY <1>1, <2>1, SMTT(30)
  <2> QED BY <1>2, <2>2 DEF Less
<1>4. a # b \/ i = j
  BY <1>1
<1> QED BY <1>1, <1>3, <1>4 DEF a, b

LEMMA StableSort ==
    ASSUME NEW q \in Seq(Tasks), NEW key \in [1..Len(q) -> SortKeys]
    PROVE  \E p \in [1..Len(q) -> 1..Len(q)] :
               /\ Sorted(q, [i \in DOMAIN q |-> Append(key[i], i)]) = [a \in 1..Len(q) |-> q[p[a]]]
               /\ \A i \in 1..Len(q) : \E a \in 1..Len(q) : p[a] = i
               /\ \A a, b \in 1..Len(q) : a < b => ~Less(key[p[b]], key[p[a]])
<1> DEFINE full == [i \in DOMAIN q |-> Append(key[i], i)]
<1>1. Len(q) \in Nat /\ DOMAIN q = 1..Len(q) /\ \A i \in 1..Len(q) : i \in Int
  BY SMT
<1>2. \A i \in 1..Len(q) : full[i] = Append(key[i], i) /\ full[i] \in [1..4 -> Int]
  BY <1>1, AppendedLess
<1>3. \A i, j \in 1..Len(q) : i # j => full[i] # full[j]
  <2> SUFFICES ASSUME NEW i \in 1..Len(q), NEW j \in 1..Len(q), i # j PROVE full[i] # full[j]
    OBVIOUS
  <2> DEFINE k == key[i]
             l == key[j]
  <2>1. k \in SortKeys /\ l \in SortKeys /\ i \in Int /\ j \in Int /\ full[i] = Append(k, i) /\ full[j] = Append(l, j)
    BY <1>1, <1>2
  <2> HIDE DEF k, l, full
  <2> QED BY <2>1, AppendedLess
<1>4. full \in [DOMAIN q -> [1..4 -> Int]]
  BY <1>1, <1>2
<1> HIDE DEF full
<1>5. Keyed(q, full, 4) /\ 4 \in Nat
  BY <1>1, <1>3, <1>4, SMTT(30) DEF Keyed
<1>6. PICK p \in [1..Len(q) -> 1..Len(q)] :
               /\ Sorted(q, full) = [a \in 1..Len(q) |-> q[p[a]]]
               /\ \A i \in 1..Len(q) : \E a \in 1..Len(q) : p[a] = i
               /\ \A a, b \in 1..Len(q) : a < b => Less(full[p[a]], full[p[b]])
  BY <1>5, SortedFacts
<1>7. ASSUME NEW a \in 1..Len(q), NEW b \in 1..Len(q), a < b, Less(key[p[b]], key[p[a]]) PROVE FALSE
  <2> DEFINE x == full[p[a]]
             y == full[p[b]]
  <2>1. p[a] \in 1..Len(q) /\ p[b] \in 1..Len(q)
    BY <1>6
  <2>2. x \in [1..4 -> Int] /\ y \in [1..4 -> Int] /\ Less(x, y)
    BY <1>2, <1>6, <1>7, <2>1
  <2>3. Less(y, x)
    <3> DEFINE k == key[p[b]]
               l == key[p[a]]
               i == p[b]
               j == p[a]
    <3>1. k \in SortKeys /\ l \in SortKeys /\ i \in Int /\ j \in Int /\ Less(k, l)
      BY <1>1, <1>7, <2>1
    <3>2. y = Append(k, i) /\ x = Append(l, j)
      BY <1>2, <2>1
    <3> HIDE DEF k, l, i, j, x, y
    <3> QED BY <3>1, <3>2, AppendedLess
  <2> HIDE DEF x, y
  <2>4. Less(x, x)
    BY <1>5, <2>2, <2>3, LessTransitive
  <2> QED BY <1>5, <2>2, <2>4, LessIrreflexive
<1> QED BY <1>6, <1>7 DEF full

(* The order that Sorted gives to q, in terms of the keys of the tasks.    *)
SortedBy(s, q, key) ==
    /\ s \in Seq(Tasks) /\ Range(s) = Range(q)
    /\ \A t, u \in Range(q) : Less(key[t], key[u]) => Before(t, u, s)
    /\ \A a, b \in DOMAIN s : a < b => ~Less(key[s[b]], key[s[a]])

LEMMA SortReadyFacts ==
    ASSUME NEW q \in Seq(Tasks), NEW key, \A t \in Range(q) : key[t] \in SortKeys
    PROVE  SortedBy(Sorted(q, [i \in DOMAIN q |-> Append(key[q[i]], i)]), q, key)
<1> DEFINE at == [i \in 1..Len(q) |-> key[q[i]]]
           s == Sorted(q, [i \in DOMAIN q |-> Append(key[q[i]], i)])
<1>1. Len(q) \in Nat /\ DOMAIN q = 1..Len(q) /\ q \in [1..Len(q) -> Tasks]
  BY SMT
<1>2. at \in [1..Len(q) -> SortKeys]
  BY <1>1 DEF Range
<1>3. s = Sorted(q, [i \in DOMAIN q |-> Append(at[i], i)])
  <2>1. [i \in DOMAIN q |-> Append(key[q[i]], i)] = [i \in DOMAIN q |-> Append(at[i], i)]
    BY <1>1
  <2> QED BY <2>1
<1> HIDE DEF s
<1>4. PICK p \in [1..Len(q) -> 1..Len(q)] :
               /\ s = [a \in 1..Len(q) |-> q[p[a]]]
               /\ \A i \in 1..Len(q) : \E a \in 1..Len(q) : p[a] = i
               /\ \A a, b \in 1..Len(q) : a < b => ~Less(at[p[b]], at[p[a]])
  BY <1>2, <1>3, StableSort
<1>5. /\ s \in [1..Len(q) -> Tasks] /\ DOMAIN s = 1..Len(q)
      /\ \A a \in 1..Len(q) : p[a] \in 1..Len(q) /\ s[a] = q[p[a]] /\ at[p[a]] = key[s[a]]
  BY <1>1, <1>4
<1>6. s \in Seq(Tasks)
  BY <1>1, <1>5, SMT
<1>7. \A i \in 1..Len(q) : \E a \in 1..Len(q) : s[a] = q[i]
  BY <1>4, <1>5
<1>8. Range(s) = Range(q)
  <2>1. ASSUME NEW x \in Range(s) PROVE x \in Range(q)
    <3>1. PICK a \in 1..Len(q) : s[a] = x
      BY <1>5 DEF Range
    <3>2. x = q[p[a]] /\ p[a] \in DOMAIN q
      BY <1>1, <1>5, <3>1
    <3> QED BY <3>2 DEF Range
  <2>2. ASSUME NEW x \in Range(q) PROVE x \in Range(s)
    <3>1. PICK i \in 1..Len(q) : q[i] = x
      BY <1>1 DEF Range
    <3>2. PICK a \in 1..Len(q) : s[a] = x
      BY <1>7, <3>1
    <3> QED BY <1>5, <3>2 DEF Range
  <2> QED BY <2>1, <2>2
<1>9. \A a, b \in 1..Len(q) : a < b => ~Less(key[s[b]], key[s[a]])
  BY <1>4, <1>5
<1>10. ASSUME NEW t \in Range(q), NEW u \in Range(q), Less(key[t], key[u]) PROVE Before(t, u, s)
  <2>1. PICK a \in 1..Len(q) : s[a] = t
    BY <1>1, <1>7 DEF Range
  <2>2. PICK b \in 1..Len(q) : s[b] = u
    BY <1>1, <1>7 DEF Range
  <2>3. ~(b < a)
    BY <1>9, <1>10, <2>1, <2>2
  <2>4. a # b
    <3>1. t # u
      <4> DEFINE k == key[t]
      <4>1. Less(k, k) \/ t # u
        BY <1>10
      <4>2. k \in SortKeys
        OBVIOUS
      <4> HIDE DEF k
      <4>3. k \in [1..3 -> Int] /\ 3 \in Nat
        BY <4>2, SortKeyFacts, SMT
      <4> QED BY <4>1, <4>3, LessIrreflexive
    <3> QED BY <2>1, <2>2, <3>1
  <2>5. a < b
    BY <1>1, <2>3, <2>4, SMT
  <2> QED BY <1>5, <2>1, <2>2, <2>5 DEF Before
<1>11. SortedBy(s, q, key)
  BY <1>5, <1>6, <1>8, <1>9, <1>10 DEF SortedBy
<1> QED BY <1>11 DEF s

-----------------------------------------------------------------------------
(* The inductive invariant.  KeysOK is what the sort keys of the submitted *)
(* tasks need to be numbers: agents that exist, for all the policies that  *)
(* look at the agent.  The rest says that the queues hold submitted tasks, *)
(* and that a task without requirements keeps the agent of its request.    *)
KeysOK ==
    /\ clock \in Nat /\ created \in [Tasks -> Int] /\ served \in [Agents -> Nat]
    /\ \A t \in Submitted : agentOf[t] \in Agents
QueuesOK ==
    /\ ready \in Seq(Tasks) /\ waiting \in Seq(Tasks) /\ running \in Seq(Tasks)
    /\ \A t \in Range(ready) \union Range(waiting) : t \in Submitted
AgentsOK ==
    /\ registered \subseteq Agents /\ agentOf \in [Tasks -> Agents \union {None}]
    /\ \A t \in Submitted : TaskOf[t].required = {} => agentOf[t] = TaskOf[t].agent
IndInv == KeysOK /\ QueuesOK /\ AgentsOK /\ OvertakingIsBounded

(* What the policies weigh are numbers.                                    *)
LEMMA ScoresAreNumbers ==
    ASSUME NEW t \in Tasks
    PROVE  /\ DeadlineValue(t) \in Int /\ ResourceWeight(t) \in Int /\ CapabilityScore(t) \in Int
           /\ TaskOf[t].priority \in Int /\ TaskOf[t].priority * AgingPeriod \in Int
<1>1. DeadlineValue(t) \in Int
  <2>1. TaskOf[t].deadline \in {NoDeadline} \union (Horizon + 1) .. (Infinity - 1) /\ Horizon \in Nat
    BY RequestsFit, DispatchIsTyped
  <2> QED BY <2>1, SMT DEF DeadlineValue, NoDeadline, Infinity
<1>2. ASSUME NEW k \in Kinds PROVE KindRatio(t, k) \in Int
  <2> DEFINE n == RequestedNumber(t, k)
             m == MaxRequested(Candidates(t), k)
  <2>1. n \in Nat
    BY DispatchIsTyped DEF RequestedNumber
  <2>2. m = CHOOSE v \in {RequestedNumber(u, k) : u \in {t}} : \A u \in {t} : RequestedNumber(u, k) <= v
    BY DEF MaxRequested, Candidates
  <2>3. {RequestedNumber(u, k) : u \in {t}} = {n}
    OBVIOUS
  <2> HIDE DEF n, m
  <2>4. m = n
    <3>1. n <= n
      BY <2>1, SMT
    <3>2. \A u \in {t} : RequestedNumber(u, k) <= n
      BY <3>1 DEF n
    <3> QED BY <2>2, <2>3, <3>2
  <2>5. Ratio(n, m) \in Int
    BY <2>1, <2>4, SMT DEF Ratio, Scale
  <2> QED BY <2>5 DEF KindRatio, n, m
<1>3. ResourceWeight(t) \in Int
  <2>1. KindRatio(t, "memory") \in Int /\ KindRatio(t, "tokens") \in Int /\ KindRatio(t, "llm") \in Int
    BY <1>2 DEF Kinds
  <2> QED BY <2>1, SMT DEF ResourceWeight
<1>4. CapabilityScore(t) \in Int
  <2> DEFINE S == {r \in TaskOf[t].required : r.key \notin {"languages", "tool"}}
  <2>1. IsFiniteSet(TaskOf[t].required) /\ S \in SUBSET TaskOf[t].required
    BY DispatchIsTyped
  <2> HIDE DEF S
  <2>2. Cardinality(S) \in Nat
    BY <2>1, FS_Subset, FS_CardinalityType
  <2>3. Cardinality(S) \in Int
    BY <2>2, SMT
  <2> QED BY <2>3 DEF S, CapabilityScore
<1>5. TaskOf[t].priority \in Int /\ AgingPeriod \in Nat
  BY DispatchIsTyped
<1>6. TaskOf[t].priority * AgingPeriod \in Int
  BY <1>5, SMT
<1> QED BY <1>1, <1>3, <1>4, <1>5, <1>6

LEMMA RankIsNumber ==
    ASSUME KeysOK, NEW t \in Tasks, created[t] # NotYet
    PROVE  Rank(t) \in Int /\ SortKey(t) \in SortKeys
<1>1. agentOf[t] \in Agents
  BY DEF KeysOK, Submitted
<1>2. CostScore(t) \in Int /\ ReliabilityScore(t) \in Int
  BY <1>1, DispatchIsTyped DEF CostScore, ReliabilityScore
<1>3. served[agentOf[t]] \in Nat
  BY <1>1 DEF KeysOK
<1>4. -CapabilityScore(t) \in Int /\ -ReliabilityScore(t) \in Int /\ served[agentOf[t]] \in Int /\ 0 \in Int
  BY <1>2, <1>3, ScoresAreNumbers, SMT
<1>5. Rank(t) \in Int
  BY <1>2, <1>4, ScoresAreNumbers, SMT DEF Rank
<1>6. clock \in Nat /\ created[t] \in Int /\ TaskOf[t].priority * AgingPeriod \in Int
  BY ScoresAreNumbers DEF KeysOK
<1>7. -AgedPriority(t) \in Int
  BY <1>6, SMT DEF AgedPriority
<1>8. SortKey(t) \in SortKeys
  BY <1>4, <1>5, <1>6, <1>7, SMT DEF SortKey, SortKeys
<1> QED BY <1>5, <1>8

LEMMA NextKeyIsNumbers ==
    ASSUME KeysOK', NEW t \in Tasks, created'[t] # NotYet
    PROVE  SortKey(t)' \in SortKeys
<1>1. agentOf'[t] \in Agents
  BY DEF KeysOK, Submitted
<1>2. CapabilityOf[agentOf'[t]].cost \in Int /\ CapabilityOf[agentOf'[t]].reliability \in Int
  BY <1>1, DispatchIsTyped
<1>3. served'[agentOf'[t]] \in Nat
  BY <1>1 DEF KeysOK
<1>4. /\ -CapabilityScore(t) \in Int /\ -CapabilityOf[agentOf'[t]].reliability \in Int
      /\ served'[agentOf'[t]] \in Int /\ 0 \in Int
  BY <1>2, <1>3, ScoresAreNumbers, SMT
<1>5. Rank(t)' \in Int
  BY <1>2, <1>4, ScoresAreNumbers, SMT DEF Rank, CostScore, ReliabilityScore
<1>6. clock' \in Nat /\ created'[t] \in Int /\ TaskOf[t].priority * AgingPeriod \in Int
  BY ScoresAreNumbers DEF KeysOK
<1>7. -AgedPriority(t)' \in Int
  BY <1>6, SMT DEF AgedPriority
<1>8. SortKey(t)' \in SortKeys
  BY <1>4, <1>5, <1>6, <1>7, SMT DEF SortKey, SortKeys
<1> QED BY <1>8

(* _sort_ready, before dispatch and on enqueueing.                         *)
LEMMA SortsByKey ==
    ASSUME KeysOK, NEW q \in Seq(Tasks), \A t \in Range(q) : t \in Submitted
    PROVE  SortedBy(SortReady(q), q, [t \in Tasks |-> SortKey(t)])
<1> DEFINE key == [t \in Tasks |-> SortKey(t)]
<1>1. \A t \in Range(q) : t \in Tasks /\ created[t] # NotYet
  BY DEF Submitted
<1>2. \A t \in Range(q) : key[t] \in SortKeys
  BY <1>1, RankIsNumber
<1>3. \A i \in DOMAIN q : q[i] \in Tasks
  BY SMT
<1>4. [i \in DOMAIN q |-> Append(SortKey(q[i]), i)] = [i \in DOMAIN q |-> Append(key[q[i]], i)]
  BY <1>3
<1> HIDE DEF key
<1>5. SortedBy(Sorted(q, [i \in DOMAIN q |-> Append(key[q[i]], i)]), q, key)
  BY <1>2, SortReadyFacts
<1>6. SortedBy(SortReady(q), q, key)
  BY <1>4, <1>5 DEF SortReady
<1> QED BY <1>6 DEF key

LEMMA NextSortsByKey ==
    ASSUME KeysOK', NEW q \in Seq(Tasks), \A t \in Range(q) : created'[t] # NotYet
    PROVE  SortedBy(SortReady(q)', q, [t \in Tasks |-> SortKey(t)'])
<1> DEFINE key == [t \in Tasks |-> SortKey(t)']
<1>1. \A i \in DOMAIN q : q[i] \in Tasks
  BY SMT
<1>2. \A t \in Range(q) : t \in Tasks
  BY <1>1 DEF Range
<1>3. \A t \in Range(q) : key[t] \in SortKeys
  BY <1>2, NextKeyIsNumbers
<1>4. [i \in DOMAIN q |-> Append(SortKey(q[i])', i)] = [i \in DOMAIN q |-> Append(key[q[i]], i)]
  BY <1>1
<1> HIDE DEF key
<1>5. SortedBy(Sorted(q, [i \in DOMAIN q |-> Append(key[q[i]], i)]), q, key)
  BY <1>3, SortReadyFacts
<1>6. SortReady(q)' = Sorted(q, [i \in DOMAIN q |-> Append(SortKey(q[i])', i)])
  BY DEF SortReady, Sorted, Less
<1>7. SortedBy(SortReady(q)', q, key)
  BY <1>4, <1>5, <1>6
<1> QED BY <1>7 DEF key

(* Two facts about the keys.  Under the priority policy an entry that is   *)
(* not behind has waited enough for its priority; and the key of a task    *)
(* that the policy prefers is the smaller one.                             *)
LEMMA AgingBounds ==
    ASSUME KeysOK', policy' = "priority", NEW t \in Tasks, NEW u \in Tasks,
           created'[t] # NotYet, created'[u] # NotYet, ~Less(SortKey(u)', SortKey(t)')
    PROVE  created'[t] - created'[u] <= AgingPeriod * (TaskOf[t].priority - TaskOf[u].priority)
<1>1. /\ clock' \in Int /\ created'[t] \in Int /\ created'[u] \in Int
      /\ TaskOf[t].priority \in Int /\ TaskOf[u].priority \in Int /\ AgingPeriod \in Int
  BY DispatchIsTyped, SMT DEF KeysOK
<1>2. /\ SortKey(t)' = <<0, -(TaskOf[t].priority * AgingPeriod + (clock' - created'[t])), created'[t]>>
      /\ SortKey(u)' = <<0, -(TaskOf[u].priority * AgingPeriod + (clock' - created'[u])), created'[u]>>
  BY SMT DEF SortKey, Rank, AgedPriority
<1>3. ~(-(TaskOf[u].priority * AgingPeriod + (clock' - created'[u]))
            < -(TaskOf[t].priority * AgingPeriod + (clock' - created'[t])))
  BY <1>2, SMT DEF Less
<1> DEFINE a == TaskOf[t].priority
           b == TaskOf[u].priority
<1>4. AgingPeriod * (a - b) = a * AgingPeriod - b * AgingPeriod
  BY <1>1, SMT
<1> QED BY <1>1, <1>3, <1>4, SMT

LEMMA PreferredIsLess ==
    ASSUME KeysOK, NEW t \in Tasks, NEW u \in Tasks, created[t] # NotYet, created[u] # NotYet, Prefers(t, u)
    PROVE  Less(SortKey(t), SortKey(u))
<1>1. /\ clock \in Nat /\ created[t] \in Int /\ created[u] \in Int
      /\ TaskOf[t].priority * AgingPeriod \in Int /\ Rank(t) \in Int /\ Rank(u) \in Int
  BY ScoresAreNumbers, RankIsNumber DEF KeysOK
<1>2. CASE policy = "fifo"
  <2>1. Rank(t) = 0 /\ Rank(u) = 0
    BY <1>2, SMT DEF Rank
  <2>2. created[t] < created[u]
    BY <2>1, SMT DEF Prefers
  <2> QED BY <1>1, <1>2, <2>2, SMT DEF SortKey, Less
<1>3. CASE policy # "fifo" /\ Rank(t) < Rank(u)
  BY <1>1, <1>3, SMT DEF SortKey, Less
<1>4. CASE policy # "fifo" /\ ~(Rank(t) < Rank(u))
  <2>1. Rank(t) = Rank(u) /\ created[t] < created[u] /\ TaskOf[t].priority = TaskOf[u].priority
    BY <1>4 DEF Prefers
  <2>2. -AgedPriority(t) < -AgedPriority(u)
    BY <1>1, <2>1, SMT DEF AgedPriority
  <2> QED BY <1>1, <1>4, <2>1, <2>2, SMTT(30) DEF SortKey, Less
<1> QED BY <1>2, <1>3, <1>4

-----------------------------------------------------------------------------
(* The choice of match_agent has its agent: the names tell the keys        *)
(* apart, so that one of the matching agents is best.                      *)
LEMMA BestMatchFacts ==
    ASSUME NEW t \in Tasks, registered \subseteq Agents, BestMatch(t) # None
    PROVE  /\ BestMatch(t) \in registered /\ MatchCapability(t, BestMatch(t))
           /\ \A b \in registered : MatchCapability(t, b) =>
                  CapabilityOf[b].reliability <= CapabilityOf[BestMatch(t)].reliability
<1> DEFINE M == {a \in registered : MatchCapability(t, a)}
           R == {e \in M \X M : Less(MatchAgentKey(e[1]), MatchAgentKey(e[2]))}
           Best(a) == \A b \in M \ {a} : Less(MatchAgentKey(a), MatchAgentKey(b))
           best == BestMatch(t)
<1>1. M # {} /\ best = CHOOSE a \in M : Best(a)
  BY DEF BestMatch
<1>2. IsFiniteSet(M) /\ M \in SUBSET Agents
  BY DispatchIsTyped, FS_Subset
<1>3. \A a, b \in M : <<a, b>> \in R <=> Less(MatchAgentKey(a), MatchAgentKey(b))
  BY SMT
<1>4. \A a \in Agents : /\ CapabilityOf[a].reliability \in Int /\ CapabilityOf[a].cost \in Int
                        /\ CapabilityOf[a].name \in Int
  BY DispatchIsTyped
<1>5. \A a \in Agents : MatchAgentKey(a) \in [1..3 -> Int] /\ MatchAgentKey(a)[1] = -CapabilityOf[a].reliability
                        /\ MatchAgentKey(a)[3] = CapabilityOf[a].name
  <2> SUFFICES ASSUME NEW a \in Agents
               PROVE  MatchAgentKey(a) \in SortKeys /\ MatchAgentKey(a)[1] = -CapabilityOf[a].reliability
                      /\ MatchAgentKey(a)[3] = CapabilityOf[a].name
    BY SortKeyFacts
  <2> QED BY <1>4, SMT DEF MatchAgentKey, SortKeys
<1>6. 3 \in Nat
  BY SMT
<1> HIDE DEF M, R
<1>7. StrictOrder(M, R)
  <2>1. \A a \in M : ~Less(MatchAgentKey(a), MatchAgentKey(a))
    BY <1>2, <1>5, <1>6, LessIrreflexive
  <2>2. ASSUME NEW a \in M, NEW b \in M, NEW c \in M,
               Less(MatchAgentKey(a), MatchAgentKey(b)), Less(MatchAgentKey(b), MatchAgentKey(c))
        PROVE  Less(MatchAgentKey(a), MatchAgentKey(c))
    <3> DEFINE x == MatchAgentKey(a)
               y == MatchAgentKey(b)
               z == MatchAgentKey(c)
    <3>1. x \in [1..3 -> Int] /\ y \in [1..3 -> Int] /\ z \in [1..3 -> Int] /\ Less(x, y) /\ Less(y, z)
      BY <1>2, <1>5, <2>2
    <3> HIDE DEF x, y, z
    <3>2. Less(x, z)
      BY <1>6, <3>1, LessTransitive
    <3> QED BY <3>2 DEF x, z
  <2>3. ASSUME NEW a \in M, NEW b \in M, a # b
        PROVE  Less(MatchAgentKey(a), MatchAgentKey(b)) \/ Less(MatchAgentKey(b), MatchAgentKey(a))
    <3> DEFINE x == MatchAgentKey(a)
               y == MatchAgentKey(b)
    <3>1. x \in [1..3 -> Int] /\ y \in [1..3 -> Int]
      BY <1>2, <1>5
    <3>2. x # y
      <4>1. CapabilityOf[a].name # CapabilityOf[b].name
        BY <1>2, <2>3, DispatchIsTyped
      <4>2. x[3] = CapabilityOf[a].name /\ y[3] = CapabilityOf[b].name
        BY <1>2, <1>5
      <4> QED BY <4>1, <4>2
    <3> HIDE DEF x, y
    <3>3. Less(x, y) \/ Less(y, x)
      BY <1>6, <3>1, <3>2, LessTotal
    <3> QED BY <3>3 DEF x, y
  <2> QED BY <1>3, <2>1, <2>2, <2>3 DEF StrictOrder
<1>8. PICK p : Ranks(p, M, R)
  BY <1>2, <1>7, Ranking
<1>9. PICK a \in M : Best(a)
  <2>1. Cardinality(M) \in Nat
    BY <1>2, FS_CardinalityType
  <2>2. \A b \in M : \E i \in 1..Cardinality(M) : p[i] = b
    BY <1>8 DEF Ranks
  <2>3. 1 \in 1..Cardinality(M) /\ \A i \in 1..Cardinality(M) : i # 1 => 1 < i
    BY <1>1, <2>1, <2>2, SMTT(30)
  <2>4. p[1] \in M /\ \A i \in 1..Cardinality(M) : i # 1 => <<p[1], p[i]>> \in R
    BY <1>8, <2>3 DEF Ranks
  <2>5. ASSUME NEW b \in M \ {p[1]} PROVE Less(MatchAgentKey(p[1]), MatchAgentKey(b))
    BY <1>3, <2>2, <2>4
  <2> QED BY <2>4, <2>5
<1> HIDE DEF Best
<1>10. best \in M /\ Best(best)
  BY <1>1, <1>9
<1>11. ASSUME NEW b \in M PROVE CapabilityOf[b].reliability <= CapabilityOf[best].reliability
  <2>1. CASE b = best
    BY <1>2, <1>4, <1>10, <2>1, SMTT(30)
  <2>2. CASE b # best
    <3> DEFINE x == MatchAgentKey(best)
               y == MatchAgentKey(b)
    <3>1. x \in [1..3 -> Int] /\ y \in [1..3 -> Int] /\ Less(x, y)
      BY <1>2, <1>5, <1>10, <2>2 DEF Best
    <3>2. x[1] = -CapabilityOf[best].reliability /\ y[1] = -CapabilityOf[b].reliability
      BY <1>2, <1>5, <1>10
    <3>3. CapabilityOf[best].reliability \in Int /\ CapabilityOf[b].reliability \in Int
      BY <1>2, <1>4, <1>10
    <3> HIDE DEF x, y
    <3>4. x[1] <= y[1]
      BY <3>1, SMT DEF Less
    <3> QED BY <3>2, <3>3, <3>4, SMT
  <2> QED BY <2>1, <2>2
<1> QED BY <1>10, <1>11 DEF M

(* Queues that are joined.                                                 *)
LEMMA JoinFacts ==
    ASSUME NEW q \in Seq(Tasks), NEW r \in Seq(Tasks)
    PROVE  /\ q \o r \in Seq(Tasks)
           /\ \A t : t \in Range(q \o r) <=> t \in Range(q) \/ t \in Range(r)
           /\ \A t, u : Before(t, u, r) => Before(t, u, q \o r)
<1> DEFINE s == q \o r
           m == Len(q)
           n == Len(r)
<1>1. /\ m \in Nat /\ n \in Nat /\ DOMAIN q = 1..m /\ DOMAIN r = 1..n
      /\ s \in Seq(Tasks) /\ Len(s) = m + n /\ DOMAIN s = 1..(m + n)
  BY SMT
<1>2. \A i \in 1..m : s[i] = q[i]
  BY SMT
<1>3. \A i \in 1..n : s[m + i] = r[i]
  BY SMT
<1> HIDE DEF s, m, n
<1>4. \A i \in 1..m : i \in 1..(m + n)
  BY <1>1, SMT
<1>5. \A i \in 1..n : m + i \in 1..(m + n)
  BY <1>1, SMT
<1>6. \A k \in 1..(m + n) : k \in 1..m \/ \E i \in 1..n : k = m + i
  <2> SUFFICES ASSUME NEW k \in 1..(m + n), k \notin 1..m PROVE \E i \in 1..n : k = m + i
    OBVIOUS
  <2>1. k - m \in 1..n /\ k = m + (k - m)
    BY <1>1, SMT
  <2> QED BY <2>1
<1>7. ASSUME NEW t, t \in Range(s) PROVE t \in Range(q) \/ t \in Range(r)
  <2>1. PICK k \in 1..(m + n) : s[k] = t
    BY <1>1, <1>7 DEF Range
  <2>2. CASE k \in 1..m
    BY <1>1, <1>2, <2>1, <2>2 DEF Range
  <2>3. CASE \E i \in 1..n : k = m + i
    BY <1>1, <1>3, <2>1, <2>3 DEF Range
  <2> QED BY <1>6, <2>2, <2>3
<1>8. ASSUME NEW t, t \in Range(q) PROVE t \in Range(s)
  <2>1. PICK i \in 1..m : q[i] = t
    BY <1>1, <1>8 DEF Range
  <2> QED BY <1>1, <1>2, <1>4, <2>1 DEF Range
<1>9. ASSUME NEW t, t \in Range(r) PROVE t \in Range(s)
  <2>1. PICK i \in 1..n : r[i] = t
    BY <1>1, <1>9 DEF Range
  <2>2. s[m + i] = t /\ m + i \in DOMAIN s
    BY <1>1, <1>3, <1>5, <2>1
  <2> QED BY <2>2 DEF Range
<1>10. ASSUME NEW t, NEW u, Before(t, u, r) PROVE Before(t, u, s)
  <2>1. PICK i \in 1..n, j \in 1..n : i < j /\ r[i] = t /\ r[j] = u
    BY <1>1, <1>10 DEF Before
  <2>2. m + i < m + j
    BY <1>1, <2>1, SMT
  <2>3. m + i \in DOMAIN s /\ m + j \in DOMAIN s /\ s[m + i] = t /\ s[m + j] = u
    BY <1>1, <1>3, <1>5, <2>1
  <2> QED BY <2>2, <2>3 DEF Before
<1> QED BY <1>1, <1>7, <1>8, <1>9, <1>10 DEF s

-----------------------------------------------------------------------------
(* What one dispatch_ready does.  queue is the sorted queue it works off,  *)
(* kept the part of the waiting queue that it leaves alone.                *)
Starts(t) == SelectAgentIfNeeded(t) # None /\ ResourceAvailable(t)
Placed(t, queue) ==
    IF t \in Range(queue) /\ SelectAgentIfNeeded(t) # None THEN SelectAgentIfNeeded(t) ELSE agentOf[t]
Dispatched(queue, kept) ==
    /\ queue \in Seq(Tasks) /\ kept \in Seq(Tasks)
    /\ \A t \in Range(ready) : t \in Range(queue)
    /\ \A t \in Range(queue) \union Range(kept) : t \in Submitted
    /\ \A t, u \in Range(queue) : Less(SortKey(t), SortKey(u)) => Before(t, u, queue)
    /\ agentOf' = [t \in Tasks |-> Placed(t, queue)]
    /\ ready' = <<>>
    /\ waiting' = kept \o Outside(queue, {t \in Tasks : Starts(t)})
    /\ running' = running \o Outside(queue, {t \in Tasks : ~Starts(t)})
    /\ served' = [a \in Agents |-> served[a] +
           Cardinality({i \in DOMAIN queue : Starts(queue[i]) /\ Placed(queue[i], queue) = a})]

LEMMA ScheduleFacts ==
    ASSUME IndInv, ScheduleTick
    PROVE  \E queue, kept : Dispatched(queue, kept)
<1> DEFINE woken == Woken
           all == ready \o woken
           queue == SortReady(all)
           kept == Outside(waiting, Range(woken))
<1>1. /\ KeysOK /\ ready \in Seq(Tasks) /\ waiting \in Seq(Tasks)
      /\ \A t \in Range(ready) \union Range(waiting) : t \in Submitted
  BY DEF IndInv, QueuesOK
<1>2. /\ agentOf' = [t \in Tasks |-> Placed(t, queue)]
      /\ ready' = <<>>
      /\ waiting' = kept \o Outside(queue, {t \in Tasks : Starts(t)})
      /\ running' = running \o Outside(queue, {t \in Tasks : ~Starts(t)})
      /\ served' = [a \in Agents |-> served[a] +
             Cardinality({i \in DOMAIN queue : Starts(queue[i]) /\ Placed(queue[i], queue) = a})]
  <2> DEFINE Effect(w, q) ==
            /\ agentOf' = [t \in Tasks |-> Placed(t, q)]
            /\ ready' = <<>>
            /\ waiting' = Outside(waiting, Range(w)) \o Outside(q, {t \in Tasks : Starts(t)})
            /\ running' = running \o Outside(q, {t \in Tasks : ~Starts(t)})
            /\ served' = [a \in Agents |-> served[a] +
                   Cardinality({i \in DOMAIN q : Starts(q[i]) /\ Placed(q[i], q) = a})]
  <2>1. \E w \in {Woken} : \E q \in {SortReady(ready \o w)} : Effect(w, q)
    BY DEF ScheduleTick, Starts, Placed
  <2> HIDE DEF Effect
  <2>2. Effect(woken, queue)
    BY <2>1
  <2> QED BY <2>2 DEF Effect
<1> HIDE DEF queue, kept
<1>3. woken \in Seq(Tasks) /\ \A t \in Range(woken) : t \in Range(waiting)
  <2>1. CASE ready = <<>>
    <3>1. woken = Outside(waiting, {t \in Tasks : ~ResourceAvailable(t)})
      BY <2>1 DEF Woken
    <3> QED BY <1>1, <3>1, OutsideFacts
  <2>2. CASE ready # <<>>
    <3>1. woken = <<>>
      BY <2>2 DEF Woken
    <3>2. woken \in Seq(Tasks) /\ DOMAIN woken = {}
      BY <3>1, SMT
    <3> QED BY <3>2 DEF Range
  <2> QED BY <2>1, <2>2
<1> HIDE DEF woken
<1>4. all \in Seq(Tasks) /\ \A t : t \in Range(all) <=> t \in Range(ready) \/ t \in Range(woken)
  BY <1>1, <1>3, JoinFacts
<1> HIDE DEF all
<1>5. \A t \in Range(all) : t \in Submitted
  BY <1>1, <1>3, <1>4
<1>6. SortedBy(queue, all, [t \in Tasks |-> SortKey(t)])
  BY <1>1, <1>4, <1>5, SortsByKey DEF queue
<1>7. queue \in Seq(Tasks) /\ Range(queue) = Range(all)
  BY <1>6 DEF SortedBy
<1>8. \A t \in Range(queue) : t \in Tasks
  BY <1>5, <1>7 DEF Submitted
<1>9. \A t, u \in Range(queue) : Less(SortKey(t), SortKey(u)) => Before(t, u, queue)
  BY <1>6, <1>7, <1>8 DEF SortedBy
<1>10. kept \in Seq(Tasks) /\ \A t \in Range(kept) : t \in Range(waiting)
  BY <1>1, OutsideFacts DEF kept
<1>11. Dispatched(queue, kept)
  BY <1>1, <1>2, <1>4, <1>5, <1>7, <1>9, <1>10 DEF Dispatched
<1> QED BY <1>11

(* Where the tasks of the queue are afterwards.                            *)
LEMMA DispatchMoves ==
    ASSUME IndInv, NEW queue, NEW kept, Dispatched(queue, kept)
    PROVE  /\ waiting' \in Seq(Tasks) /\ running' \in Seq(Tasks)
           /\ \A t : t \in Range(waiting') <=> t \in Range(kept) \/ (t \in Range(queue) /\ ~Starts(t))
           /\ \A t : t \in Range(running') <=> t \in Range(running) \/ (t \in Range(queue) /\ Starts(t))
           /\ \A t, u \in Range(queue) : Before(t, u, queue) /\ Starts(t) /\ Starts(u) => Before(t, u, running')
<1> DEFINE Y == {t \in Tasks : Starts(t)}
           N == {t \in Tasks : ~Starts(t)}
           blocked == Outside(queue, Y)
           started == Outside(queue, N)
<1>1. /\ queue \in Seq(Tasks) /\ kept \in Seq(Tasks) /\ running \in Seq(Tasks)
      /\ waiting' = kept \o blocked /\ running' = running \o started
      /\ \A t \in Range(queue) : t \in Tasks
  BY DEF Dispatched, IndInv, QueuesOK, Submitted
<1>2. \A t \in Range(queue) : (t \in Y <=> Starts(t)) /\ (t \in N <=> ~Starts(t))
  BY <1>1
<1> HIDE DEF Y, N
<1>3. /\ blocked \in Seq(Tasks)
      /\ \A x : x \in Range(blocked) <=> x \in Range(queue) /\ x \notin Y
  BY <1>1, OutsideFacts
<1>4. /\ started \in Seq(Tasks)
      /\ \A x : x \in Range(started) <=> x \in Range(queue) /\ x \notin N
      /\ \A i, j \in DOMAIN queue :
             i < j /\ queue[i] \notin N /\ queue[j] \notin N => Before(queue[i], queue[j], started)
  BY <1>1, OutsideFacts
<1> HIDE DEF blocked, started
<1>5. /\ waiting' \in Seq(Tasks)
      /\ \A t : t \in Range(waiting') <=> t \in Range(kept) \/ t \in Range(blocked)
  BY <1>1, <1>3, JoinFacts
<1>6. /\ running' \in Seq(Tasks)
      /\ \A t : t \in Range(running') <=> t \in Range(running) \/ t \in Range(started)
      /\ \A t, u : Before(t, u, started) => Before(t, u, running')
  BY <1>1, <1>4, JoinFacts
<1>7. ASSUME NEW t \in Range(queue), NEW u \in Range(queue), Before(t, u, queue), Starts(t), Starts(u)
      PROVE  Before(t, u, running')
  <2>1. PICK i \in DOMAIN queue, j \in DOMAIN queue : i < j /\ queue[i] = t /\ queue[j] = u
    BY <1>7 DEF Before
  <2>2. Before(t, u, started)
    BY <1>2, <1>4, <1>7, <2>1
  <2> QED BY <1>6, <2>2
<1>8. \A t : t \in Range(waiting') <=> t \in Range(kept) \/ (t \in Range(queue) /\ ~Starts(t))
  BY <1>2, <1>3, <1>5
<1>9. \A t : t \in Range(running') <=> t \in Range(running) \/ (t \in Range(queue) /\ Starts(t))
  BY <1>2, <1>4, <1>6
<1> QED BY <1>5, <1>6, <1>7, <1>8, <1>9

(* Where a queued task is placed, before and when it starts.               *)
LEMMA PlacedFacts ==
    ASSUME IndInv, NEW queue, NEW t \in Submitted
    PROVE  /\ Placed(t, queue) \in Agents
           /\ TaskOf[t].required = {} => Placed(t, queue) = TaskOf[t].agent
           /\ t \in Range(queue) /\ Starts(t) /\ TaskOf[t].required # {} =>
                  /\ MatchCapability(t, Placed(t, queue))
                  /\ \A b \in registered : MatchCapability(t, b) =>
                         CapabilityOf[b].reliability <= CapabilityOf[Placed(t, queue)].reliability
<1>1. t \in Tasks /\ agentOf[t] \in Agents /\ registered \subseteq Agents
      /\ (TaskOf[t].required = {} => agentOf[t] = TaskOf[t].agent)
  BY DEF IndInv, KeysOK, AgentsOK, Submitted
<1>2. CASE TaskOf[t].required = {}
  <2>1. SelectAgentIfNeeded(t) = agentOf[t]
    BY <1>2 DEF SelectAgentIfNeeded
  <2>2. Placed(t, queue) = agentOf[t]
    BY <2>1 DEF Placed
  <2> QED BY <1>1, <1>2, <2>2
<1>3. CASE TaskOf[t].required # {}
  <2>1. SelectAgentIfNeeded(t) = BestMatch(t)
    BY <1>3 DEF SelectAgentIfNeeded
  <2>2. CASE BestMatch(t) # None
    <3>1. /\ BestMatch(t) \in Agents /\ MatchCapability(t, BestMatch(t))
          /\ \A b \in registered : MatchCapability(t, b) =>
                 CapabilityOf[b].reliability <= CapabilityOf[BestMatch(t)].reliability
      BY <1>1, <2>2, BestMatchFacts
    <3>2. Placed(t, queue) = IF t \in Range(queue) THEN BestMatch(t) ELSE agentOf[t]
      BY <2>1, <2>2 DEF Placed
    <3> QED BY <1>1, <1>3, <3>1, <3>2
  <2>3. CASE BestMatch(t) = None
    <3>1. ~Starts(t) /\ Placed(t, queue) = agentOf[t]
      BY <2>1, <2>3 DEF Starts, Placed
    <3> QED BY <1>1, <1>3, <3>1
  <2> QED BY <2>2, <2>3
<1> QED BY <1>2, <1>3

-----------------------------------------------------------------------------
(* Every action keeps the invariant.                                       *)
LEMMA InitHolds == Init => IndInv
<1> SUFFICES ASSUME Init PROVE IndInv
  OBVIOUS
<1>1. DOMAIN <<>> = {} /\ <<>> \in Seq(Tasks) /\ 0 \in Int /\ 0 \in Nat /\ NotYet \in Int
  BY SMT DEF NotYet
<1>2. Submitted = {} /\ Range(<<>>) = {}
  BY <1>1 DEF Init, Submitted, Range
<1>3. KeysOK
  BY <1>1, <1>2 DEF Init, KeysOK
<1>4. QueuesOK
  BY <1>1, <1>2 DEF Init, QueuesOK
<1>5. AgentsOK
  BY <1>2, DispatchIsTyped DEF Init, AgentsOK
<1>6. OvertakingIsBounded
  BY <1>1 DEF Init, OvertakingIsBounded
<1> QED BY <1>3, <1>4, <1>5, <1>6 DEF IndInv

LEMMA SubmitTaskKeeps ==
    ASSUME IndInv, NEW t \in Tasks, SubmitTask(t)
    PROVE  IndInv'
<1> DEFINE a == SelectAgentName(t)
<1>1. /\ a \in registered
      /\ created' = [created EXCEPT ![t] = clock] /\ agentOf' = [agentOf EXCEPT ![t] = a]
      /\ UNCHANGED <<policy, clock, registered, waiting, running, served>>
  BY DEF SubmitTask
<1>2. PICK queue \in {Append(ready, t)} : ready' = SortReady(queue)'
  BY DEF SubmitTask
<1>3. TaskOf[t].required = {} => a = TaskOf[t].agent
  <2>1. a # None
    BY <1>1, DispatchIsTyped DEF IndInv, AgentsOK
  <2> QED BY <2>1 DEF SelectAgentName
<1> HIDE DEF a
<1>4. /\ a \in Agents /\ clock \in Nat /\ clock \in Int /\ clock # NotYet
      /\ created \in [Tasks -> Int] /\ agentOf \in [Tasks -> Agents \union {None}]
  <2>1. clock \in Nat
    BY DEF IndInv, KeysOK
  <2>2. clock \in Int /\ clock # NotYet
    BY <2>1, SMT DEF NotYet
  <2> QED BY <1>1, <2>1, <2>2 DEF IndInv, KeysOK, AgentsOK
<1>5. KeysOK' /\ AgentsOK'
  BY <1>1, <1>3, <1>4 DEF IndInv, KeysOK, AgentsOK, Submitted
<1>6. created'[t] # NotYet /\ \A u \in Submitted : u \in Tasks /\ created'[u] # NotYet
  BY <1>1, <1>4 DEF Submitted
<1>7. queue \in Seq(Tasks) /\ \A u \in Range(queue) : u = t \/ u \in Range(ready)
  <2>1. ready \in Seq(Tasks) /\ queue = Append(ready, t)
    BY <1>2 DEF IndInv, QueuesOK
  <2>2. /\ queue \in Seq(Tasks) /\ DOMAIN queue = 1..(Len(ready) + 1) /\ queue[Len(ready) + 1] = t
        /\ DOMAIN ready = 1..Len(ready) /\ \A i \in 1..Len(ready) : queue[i] = ready[i]
    BY <2>1, SMT
  <2>3. \A i \in 1..(Len(ready) + 1) : i \in 1..Len(ready) \/ i = Len(ready) + 1
    BY <2>1, SMT
  <2>4. ASSUME NEW u \in Range(queue), u # t PROVE u \in Range(ready)
    <3>1. PICK i \in 1..(Len(ready) + 1) : queue[i] = u
      BY <2>2, <2>4 DEF Range
    <3>2. i \in DOMAIN ready /\ ready[i] = u
      BY <2>2, <2>3, <2>4, <3>1
    <3> QED BY <3>2 DEF Range
  <2> QED BY <2>2, <2>4
<1>8. \A u \in Range(queue) : u \in Tasks /\ created'[u] # NotYet
  BY <1>6, <1>7 DEF IndInv, QueuesOK
<1>9. SortedBy(SortReady(queue)', queue, [u \in Tasks |-> SortKey(u)'])
  BY <1>5, <1>7, <1>8, NextSortsByKey
<1>10. SortedBy(ready', queue, [u \in Tasks |-> SortKey(u)'])
  BY <1>2, <1>9
<1>11. /\ ready' \in Seq(Tasks) /\ Range(ready') = Range(queue)
       /\ \A u \in Range(ready') : u \in Tasks /\ created'[u] # NotYet
  BY <1>8, <1>10 DEF SortedBy
<1>12. QueuesOK'
  BY <1>1, <1>6, <1>11 DEF IndInv, QueuesOK, Submitted
<1>13. OvertakingIsBounded'
  <2> SUFFICES ASSUME policy' = "priority", NEW i \in DOMAIN ready', NEW j \in DOMAIN ready', i < j
               PROVE  created'[ready'[i]] - created'[ready'[j]]
                         <= AgingPeriod * (TaskOf[ready'[i]].priority - TaskOf[ready'[j]].priority)
    BY DEF OvertakingIsBounded
  <2>1. PICK x, y : x = ready'[i] /\ y = ready'[j]
    OBVIOUS
  <2>2. x \in Range(ready') /\ y \in Range(ready')
    BY <2>1 DEF Range
  <2>3. x \in Tasks /\ y \in Tasks /\ created'[x] # NotYet /\ created'[y] # NotYet
    BY <1>11, <2>2
  <2>4. ~Less(SortKey(y)', SortKey(x)')
    BY <1>10, <2>1, <2>3 DEF SortedBy
  <2>5. created'[x] - created'[y] <= AgingPeriod * (TaskOf[x].priority - TaskOf[y].priority)
    BY <1>5, <2>3, <2>4, AgingBounds
  <2> QED BY <2>1, <2>5
<1> QED BY <1>5, <1>12, <1>13 DEF IndInv

LEMMA ScheduleTickKeeps ==
    ASSUME IndInv, ScheduleTick
    PROVE  IndInv'
<1>1. PICK queue, kept : Dispatched(queue, kept)
  BY ScheduleFacts
<1>2. UNCHANGED <<policy, clock, registered, created>>
  BY DEF ScheduleTick
<1>3. Submitted' = Submitted /\ \A t \in Submitted : t \in Tasks
  BY <1>2 DEF Submitted
<1>4. /\ \A t \in Submitted : agentOf'[t] \in Agents
      /\ \A t \in Submitted : TaskOf[t].required = {} => agentOf'[t] = TaskOf[t].agent
  BY <1>1, <1>3, PlacedFacts DEF Dispatched
<1>5. agentOf' \in [Tasks -> Agents \union {None}]
  <2>1. \A t \in Tasks : Placed(t, queue) \in Agents \union {None}
    <3> SUFFICES ASSUME NEW t \in Tasks PROVE Placed(t, queue) \in Agents \union {None}
      OBVIOUS
    <3>1. CASE t \in Range(queue)
      BY <1>1, <3>1, PlacedFacts DEF Dispatched
    <3>2. CASE t \notin Range(queue)
      BY <3>2 DEF Placed, IndInv, AgentsOK
    <3> QED BY <3>1, <3>2
  <2> QED BY <1>1, <2>1 DEF Dispatched
<1>6. served' \in [Agents -> Nat]
  <2>1. ASSUME NEW a \in Agents
        PROVE  served[a] + Cardinality({i \in DOMAIN queue : Starts(queue[i]) /\ Placed(queue[i], queue) = a}) \in Nat
    <3> DEFINE S == {i \in DOMAIN queue : Starts(queue[i]) /\ Placed(queue[i], queue) = a}
    <3>1. queue \in Seq(Tasks)
      BY <1>1 DEF Dispatched
    <3>2. Len(queue) \in Int /\ 1 \in Int /\ DOMAIN queue = 1..Len(queue)
      BY <3>1, SMT
    <3>3. IsFiniteSet(DOMAIN queue)
      BY <3>2, FS_Interval
    <3>4. S \in SUBSET DOMAIN queue
      OBVIOUS
    <3> HIDE DEF S
    <3>5. Cardinality(S) \in Nat
      BY <3>3, <3>4, FS_Subset, FS_CardinalityType
    <3>6. served[a] \in Nat
      BY DEF IndInv, KeysOK
    <3>7. served[a] + Cardinality(S) \in Nat
      BY <3>5, <3>6, SMT
    <3> QED BY <3>7 DEF S
  <2> QED BY <1>1, <2>1 DEF Dispatched
<1>7. KeysOK'
  BY <1>2, <1>3, <1>4, <1>6 DEF IndInv, KeysOK
<1>8. AgentsOK'
  BY <1>2, <1>3, <1>4, <1>5 DEF IndInv, AgentsOK
<1>9. ready' = <<>> /\ ready' \in Seq(Tasks) /\ DOMAIN ready' = {}
  <2>1. ready' = <<>>
    BY <1>1 DEF Dispatched
  <2> QED BY <2>1, SMT
<1>10. QueuesOK'
  <2>1. \A t : t \in Range(waiting') => t \in Range(kept) \/ t \in Range(queue)
    BY <1>1, DispatchMoves
  <2>2. \A t \in Range(waiting') : t \in Submitted
    BY <1>1, <2>1 DEF Dispatched
  <2>3. waiting' \in Seq(Tasks) /\ running' \in Seq(Tasks)
    BY <1>1, DispatchMoves
  <2>4. Range(ready') = {}
    BY <1>9 DEF Range
  <2> QED BY <1>3, <1>9, <2>2, <2>3, <2>4 DEF QueuesOK
<1>11. OvertakingIsBounded'
  BY <1>9 DEF OvertakingIsBounded
<1> QED BY <1>7, <1>8, <1>10, <1>11 DEF IndInv

(* A turn of the loop is the only action that starts tasks; the others may *)
(* take one out of the running table.                                      *)
LEMMA OtherActions ==
    ASSUME IndInv, [Next]_vars, ~ScheduleTick, \A t \in Tasks : ~SubmitTask(t)
    PROVE  IndInv' /\ \A t : t \in Range(running') => t \in Range(running)
<1>1. running \in Seq(Tasks) /\ clock \in Nat /\ registered \subseteq Agents
  BY DEF IndInv, QueuesOK, KeysOK, AgentsOK
<1>2. UNCHANGED <<policy, created, agentOf, ready, waiting, served>>
  BY DEF Next, vars, Tick, CreateAgent, KillAgent, StartExecution, Finish, EndExecution
<1>3. running' = running \/ \E t \in Tasks : running' = Outside(running, {t})
  BY DEF Next, vars, Tick, CreateAgent, KillAgent, StartExecution, Finish, EndExecution
<1>4. running' \in Seq(Tasks) /\ \A t : t \in Range(running') => t \in Range(running)
  <2>1. CASE running' = running
    BY <1>1, <2>1
  <2>2. CASE \E t \in Tasks : running' = Outside(running, {t})
    <3>1. PICK S : running' = Outside(running, S)
      BY <2>2
    <3> QED BY <1>1, <3>1, OutsideFacts
  <2> QED BY <1>3, <2>1, <2>2
<1>5. registered' \subseteq Agents
  BY <1>1 DEF Next, vars, Tick, CreateAgent, KillAgent, StartExecution, Finish, EndExecution
<1>6. clock' \in Nat
  <2>1. clock' = clock \/ clock' = clock + 1
    BY DEF Next, vars, Tick, CreateAgent, KillAgent, StartExecution, Finish, EndExecution
  <2> QED BY <1>1, <2>1, SMT
<1>7. KeysOK'
  BY <1>2, <1>6 DEF IndInv, KeysOK, Submitted
<1>8. QueuesOK'
  BY <1>2, <1>4 DEF IndInv, QueuesOK, Submitted
<1>9. AgentsOK'
  BY <1>2, <1>5 DEF IndInv, AgentsOK, Submitted
<1>10. OvertakingIsBounded'
  BY <1>2 DEF IndInv, OvertakingIsBounded
<1> QED BY <1>4, <1>7, <1>8, <1>9, <1>10 DEF IndInv

LEMMA SubmitStartsNothing ==
    ASSUME NEW t \in Tasks, SubmitTask(t)
    PROVE  running' = running
BY DEF SubmitTask

LEMMA NextKeeps ==
    ASSUME IndInv, [Next]_vars
    PROVE  IndInv'
<1>1. CASE ScheduleTick
  BY <1>1, ScheduleTickKeeps
<1>2. CASE \E t \in Tasks : SubmitTask(t)
  BY <1>2, SubmitTaskKeeps
<1>3. CASE ~ScheduleTick /\ \A t \in Tasks : ~SubmitTask(t)
  BY <1>3, OtherActions
<1> QED BY <1>1, <1>2, <1>3

(* If a task starts, then in a dispatch that found it in the queue.        *)
LEMMA StartsInDispatch ==
    ASSUME IndInv, [Next]_vars, NEW t, Begins(t)
    PROVE  \E queue, kept : Dispatched(queue, kept) /\ t \in Range(queue) /\ Starts(t)
<1>1. t \in Range(running') /\ t \notin Range(running)
  BY DEF Begins
<1>2. ScheduleTick
  BY <1>1, OtherActions, SubmitStartsNothing
<1>3. PICK queue, kept : Dispatched(queue, kept)
  BY <1>2, ScheduleFacts
<1>4. t \in Range(queue) /\ Starts(t)
  BY <1>1, <1>3, DispatchMoves
<1> QED BY <1>3, <1>4

-----------------------------------------------------------------------------
(* Under every policy the queues hold submitted tasks, whose agents exist  *)
(* and whose sort keys are numbers, and the ready queue respects aging.    *)
THEOREM Invariance == Spec => []IndInv
<1>1. IndInv /\ [Next]_vars => IndInv'
  BY NextKeeps
<1> QED BY <1>1, InitHolds, PTL DEF Spec

(* _aged_priority and _sort_ready: under the priority policy a task is     *)
(* ahead of one that was submitted earlier only if it came within one      *)
(* aging period per step of priority.                                      *)
THEOREM OvertakingAlwaysBounded == Spec => []OvertakingIsBounded
<1>1. IndInv => OvertakingIsBounded
  BY DEF IndInv
<1> QED BY <1>1, Invariance, PTL

(* dispatch_ready: of two ready tasks the one that the policy prefers when *)
(* they are dispatched starts first, or is blocked.                        *)
THEOREM PolicyOrderKept == Spec => StartsInPolicyOrder
<1> DEFINE Ordered == \A t, u \in Range(ready) :
        Begins(u) /\ Prefers(t, u) => Before(t, u, running') \/ t \in Range(waiting')
<1>1. ASSUME IndInv, [Next]_vars, NEW t \in Range(ready), NEW u \in Range(ready), Begins(u), Prefers(t, u)
      PROVE  Before(t, u, running') \/ t \in Range(waiting')
  <2>1. PICK queue, kept : Dispatched(queue, kept) /\ u \in Range(queue) /\ Starts(u)
    BY <1>1, StartsInDispatch
  <2>2. t \in Range(queue) /\ KeysOK /\ t \in Submitted /\ u \in Submitted
    BY <1>1, <2>1 DEF Dispatched, IndInv
  <2>3. Less(SortKey(t), SortKey(u))
    BY <1>1, <2>2, PreferredIsLess DEF Submitted
  <2>4. Before(t, u, queue)
    BY <2>1, <2>2, <2>3 DEF Dispatched
  <2>5. CASE Starts(t)
    BY <1>1, <2>1, <2>2, <2>4, <2>5, DispatchMoves
  <2>6. CASE ~Starts(t)
    BY <1>1, <2>1, <2>2, <2>6, DispatchMoves
  <2> QED BY <2>5, <2>6
<1>2. IndInv /\ [Next]_vars => [Ordered]_vars
  BY <1>1
<1> QED BY <1>2, Invariance, PTL DEF Spec, StartsInPolicyOrder

(* _select_agent_if_needed: a task with requirements starts on an agent    *)
(* that meets them and than which no registered one that does is more      *)
(* reliable, a task without starts on the agent of its request.            *)
THEOREM BestAgentChosen == Spec => StartsOnBestAgent
<1> DEFINE Suits(t) ==
        IF TaskOf[t].required = {} THEN agentOf'[t] = TaskOf[t].agent
        ELSE /\ MatchCapability(t, agentOf'[t])
             /\ \A b \in registered : MatchCapability(t, b) =>
                    CapabilityOf[b].reliability <= CapabilityOf[agentOf'[t]].reliability
           Suited == \A t \in Tasks : Begins(t) => Suits(t)
<1>1. ASSUME IndInv, [Next]_vars, NEW t \in Tasks, Begins(t)
      PROVE  Suits(t)
  <2>1. PICK queue, kept : Dispatched(queue, kept) /\ t \in Range(queue) /\ Starts(t)
    BY <1>1, StartsInDispatch
  <2>2. t \in Submitted /\ agentOf'[t] = Placed(t, queue)
    BY <2>1 DEF Dispatched
  <2> QED BY <1>1, <2>1, <2>2, PlacedFacts
<1>2. IndInv /\ [Next]_vars => [Suited]_vars
  BY <1>1
<1> QED BY <1>2, Invariance, PTL DEF Spec, StartsOnBestAgent
=============================================================================
