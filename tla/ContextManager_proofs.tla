----------------------- MODULE ContextManager_proofs -----------------------
(***************************************************************************)
(* Proofs about ContextManager for any contexts, agents and inputs, any    *)
(* limits and any number of calls.                                         *)
(***************************************************************************)
EXTENDS ContextManager, TLAPS, FiniteSetTheorems, WellFoundedInduction

(* Most steps are first-order reasoning about sets and functions: Zenon    *)
(* proves them, and the steps that need more say SMT.                      *)
USE Zenon

-----------------------------------------------------------------------------
(* A set of numbers is listed in order in one way only: two listings would *)
(* have a first place where they differ.                                   *)
Lists(q, S) ==
    /\ q \in [1..Cardinality(S) -> S]
    /\ \A x \in S : \E i \in DOMAIN q : q[i] = x
    /\ \A i, j \in DOMAIN q : i < j => q[i] < q[j]

LEMMA LeastNumber ==
    ASSUME NEW S \in SUBSET Nat, S # {}
    PROVE  \E x \in S : \A y \in S : x <= y
<1>1. PICK x \in S : \A y \in S : ~(<<y, x>> \in OpToRel(<, Nat))
  BY NatLessThanWellFounded, WFMin
<1>2. ASSUME NEW y \in S PROVE x <= y
  <2>1. <<y, x>> \in Nat \X Nat /\ <<y, x>>[1] = y /\ <<y, x>>[2] = x /\ x \in Nat /\ y \in Nat
    BY SMT
  <2>2. ~(y < x)
    BY <1>1, <2>1, SMT DEF OpToRel
  <2> QED BY <2>1, <2>2, SMT
<1> QED BY <1>2

(* The first difference cannot have the smaller number on the left.        *)
LEMMA NoFirstDifference ==
    ASSUME NEW S \in SUBSET Nat, NEW n \in Nat, NEW p \in [1..n -> S], NEW q \in [1..n -> S],
           \A x \in S : \E i \in 1..n : q[i] = x,
           \A i, j \in 1..n : i < j => p[i] < p[j],
           \A i, j \in 1..n : i < j => q[i] < q[j],
           NEW d \in 1..n, \A i \in 1..n : i < d => p[i] = q[i]
    PROVE  ~(p[d] < q[d])
<1> SUFFICES ASSUME p[d] < q[d] PROVE FALSE
  OBVIOUS
<1>1. PICK i \in 1..n : q[i] = p[d]
  OBVIOUS
<1>2. p[d] \in Nat /\ q[d] \in Nat /\ p[i] \in Nat /\ q[i] \in Nat
  OBVIOUS
<1>3. CASE i < d
  <2>1. p[i] = q[i] /\ p[i] < p[d]
    BY <1>3
  <2> QED BY <1>1, <1>2, <2>1, SMT
<1>4. CASE i = d
  BY <1>1, <1>2, <1>4, SMT
<1>5. CASE d < i
  <2>1. q[d] < q[i]
    BY <1>5
  <2> QED BY <1>1, <1>2, <2>1, SMT
<1> QED BY <1>3, <1>4, <1>5, SMT

LEMMA OneListing ==
    ASSUME NEW S \in SUBSET Nat, IsFiniteSet(S), NEW p, NEW q, Lists(p, S), Lists(q, S)
    PROVE  p = q
<1> DEFINE n == Cardinality(S)
           D == {i \in 1..n : p[i] # q[i]}
<1>1. n \in Nat
  BY FS_CardinalityType
<1>2. p \in [1..n -> S] /\ q \in [1..n -> S]
  BY DEF Lists
<1>3. DOMAIN p = 1..n /\ DOMAIN q = 1..n
  BY <1>2
<1>4. (\A x \in S : \E i \in 1..n : p[i] = x) /\ (\A x \in S : \E i \in 1..n : q[i] = x)
  BY <1>3 DEF Lists
<1>5. (\A i, j \in 1..n : i < j => p[i] < p[j]) /\ (\A i, j \in 1..n : i < j => q[i] < q[j])
  BY <1>3 DEF Lists
<1> HIDE DEF n
<1>6. ASSUME NEW d \in 1..n, \A i \in 1..n : i < d => p[i] = q[i] PROVE p[d] = q[d]
  <2>1. ~(p[d] < q[d])
    BY <1>1, <1>2, <1>4, <1>5, <1>6, NoFirstDifference
  <2>2. \A i \in 1..n : i < d => q[i] = p[i]
    BY <1>6
  <2>3. ~(q[d] < p[d])
    BY <1>1, <1>2, <1>4, <1>5, <2>2, NoFirstDifference, ZenonT(60)
  <2>4. p[d] \in Nat /\ q[d] \in Nat
    BY <1>2
  <2> QED BY <2>1, <2>3, <2>4, SMT
<1>7. ASSUME D # {} PROVE FALSE
  <2>1. D \in SUBSET Nat
    BY <1>1, SMT
  <2>2. PICK d \in D : \A i \in D : d <= i
    BY <1>7, <2>1, LeastNumber
  <2>3. d \in 1..n /\ p[d] # q[d]
    OBVIOUS
  <2>4. \A i \in 1..n : i < d => ~(d <= i)
    BY <1>1, <2>3, SMT
  <2>5. \A i \in 1..n : i < d => p[i] = q[i]
    BY <2>2, <2>4
  <2> QED BY <1>6, <2>3, <2>5
<1>8. \A i \in 1..n : p[i] = q[i]
  BY <1>7
<1>9. p = [i \in 1..n |-> p[i]] /\ q = [i \in 1..n |-> q[i]]
  BY <1>2
<1> HIDE DEF D
<1> QED BY <1>8, <1>9

(* What is left of a sequence, for a listing of the places that are left.  *)
LEMMA OutsideIs ==
    ASSUME NEW T, NEW q \in Seq(T), NEW S, NEW at,
           Lists(at, {i \in DOMAIN q : q[i] \notin S})
    PROVE  Outside(q, S) = [n \in DOMAIN at |-> q[at[n]]]
<1> DEFINE P == {i \in DOMAIN q : q[i] \notin S}
<1>1. DOMAIN q = 1..Len(q) /\ Len(q) \in Nat
  BY SMT
<1>2. P \in SUBSET Nat /\ IsFiniteSet(P)
  <2>1. 1..Len(q) \subseteq Nat /\ IsFiniteSet(1..Len(q))
    BY <1>1, FS_Interval, SMT
  <2> QED BY <1>1, <2>1, FS_Subset
<1>3. Lists(InOrder(P), P)
  BY DEF InOrder, Lists
<1>4. InOrder(P) = at
  BY <1>2, <1>3, OneListing
<1> QED BY <1>4 DEF Outside

-----------------------------------------------------------------------------
(* move_to_end, and the insertion of what is not there (i past the end):   *)
(* all but c keep their order, and c comes last.                           *)
Moves(q, r, c, i) ==
    /\ IF i <= Len(q) THEN q[i] = c /\ Len(r) = Len(q) ELSE Len(r) = Len(q) + 1
    /\ \A j \in 1..Len(q) : j # i => q[j] # c
    /\ \A j \in 1..(Len(r) - 1) : r[j] = IF j < i THEN q[j] ELSE q[j + 1]
    /\ r[Len(r)] = c

LEMMA OthersListed ==
    ASSUME NEW n \in Nat, NEW i \in 1..(n + 1)
    PROVE  LET m == IF i <= n THEN n - 1 ELSE n IN
           Lists([k \in 1..m |-> IF k < i THEN k ELSE k + 1], (1..n) \ {i})
<1> DEFINE m == IF i <= n THEN n - 1 ELSE n
           P == (1..n) \ {i}
           at == [k \in 1..m |-> IF k < i THEN k ELSE k + 1]
<1>1. Cardinality(P) = m
  <2>1. IsFiniteSet(1..n) /\ Cardinality(1..n) = n
    BY FS_Interval, SMT
  <2>2. Cardinality(P) = IF i \in 1..n THEN Cardinality(1..n) - 1 ELSE Cardinality(1..n)
    BY <2>1, FS_RemoveElement
  <2>3. i \in 1..n <=> i <= n
    BY SMT
  <2> QED BY <2>1, <2>2, <2>3, SMT
<1>2. m \in Nat
  BY SMT
<1>3. at \in [1..m -> P]
  <2> SUFFICES ASSUME NEW k \in 1..m PROVE (IF k < i THEN k ELSE k + 1) \in P
    OBVIOUS
  <2> QED BY <1>2, SMT
<1>4. ASSUME NEW x \in P PROVE \E k \in 1..m : at[k] = x
  <2>1. CASE x < i
    <3>1. x \in 1..m
      BY <2>1, SMT
    <3> QED BY <2>1, <3>1
  <2>2. CASE ~(x < i)
    <3>1. x - 1 \in 1..m /\ ~(x - 1 < i) /\ (x - 1) + 1 = x
      BY <2>2, SMT
    <3> QED BY <3>1
  <2> QED BY <2>1, <2>2
<1>5. ASSUME NEW k \in 1..m, NEW l \in 1..m, k < l PROVE at[k] < at[l]
  <2>1. (IF k < i THEN k ELSE k + 1) < (IF l < i THEN l ELSE l + 1)
    BY <1>2, <1>5, SMT
  <2> QED BY <2>1
<1>6. DOMAIN at = 1..m
  OBVIOUS
<1> HIDE DEF m
<1> QED BY <1>1, <1>3, <1>4, <1>5, <1>6 DEF Lists, m

LEMMA MovedToEnd ==
    ASSUME NEW T, NEW q \in Seq(T), IsInjective(q), NEW c \in T
    PROVE  LET r == Append(Outside(q, {c}), c) IN
           r \in Seq(T) /\ \E i \in 1..(Len(q) + 1) : Moves(q, r, c, i)
<1> DEFINE n == Len(q)
           o == Outside(q, {c})
           r == Append(o, c)
<1>1. DOMAIN q = 1..n /\ n \in Nat /\ \A j \in 1..n : q[j] \in T
  BY SMT
<1>2. PICK i \in 1..(n + 1) : (i <= n => q[i] = c) /\ \A j \in 1..n : j # i => q[j] # c
  <2>1. CASE \E j \in 1..n : q[j] = c
    <3>1. PICK j \in 1..n : q[j] = c
      BY <2>1
    <3>2. \A k \in 1..n : k # j => q[k] # c
      BY <1>1, <3>1 DEF IsInjective
    <3>3. j \in 1..(n + 1)
      BY <1>1, SMT
    <3> QED BY <3>1, <3>2, <3>3
  <2>2. CASE ~\E j \in 1..n : q[j] = c
    <3>1. n + 1 \in 1..(n + 1) /\ ~(n + 1 <= n)
      BY <1>1, SMT
    <3> QED BY <2>2, <3>1
  <2> QED BY <2>1, <2>2
<1> DEFINE m == IF i <= n THEN n - 1 ELSE n
           at == [k \in 1..m |-> IF k < i THEN k ELSE k + 1]
<1>3. {j \in DOMAIN q : q[j] \notin {c}} = (1..n) \ {i}
  <2>1. i \in 1..n => i <= n
    BY <1>1, SMT
  <2> QED BY <1>1, <1>2, <2>1
<1>4. Lists(at, (1..n) \ {i})
  BY <1>1, OthersListed
<1>5. o = [k \in 1..m |-> q[at[k]]]
  <2>1. o = [k \in DOMAIN at |-> q[at[k]]]
    <3>1. Lists(at, {j \in DOMAIN q : q[j] \notin {c}})
      BY <1>3, <1>4
    <3> HIDE DEF at
    <3> QED BY <3>1, OutsideIs, SMT
  <2> QED BY <2>1
<1>6. m \in Nat /\ m <= n /\ \A k \in 1..m : at[k] \in 1..n
  BY <1>1, SMT
<1>7. \A k \in 1..m : o[k] = q[at[k]]
  BY <1>5
<1>8. o \in Seq(T) /\ Len(o) = m
  <2>1. o \in [1..m -> T]
    BY <1>1, <1>5, <1>6
  <2> HIDE DEF o, m
  <2> QED BY <1>6, <2>1, SMT
<1> HIDE DEF o
<1>9. r \in Seq(T) /\ Len(r) = m + 1 /\ r[Len(r)] = c /\ \A k \in 1..m : r[k] = o[k]
  BY <1>6, <1>8, SMT
<1>10. \A k \in 1..m : r[k] = IF k < i THEN q[k] ELSE q[k + 1]
  BY <1>7, <1>9
<1>11. (Len(r) - 1 = m) /\ (IF i <= n THEN Len(r) = n ELSE Len(r) = n + 1)
  BY <1>1, <1>9, SMT
<1> HIDE DEF r, m
<1>12. Moves(q, r, c, i)
  BY <1>2, <1>9, <1>10, <1>11 DEF Moves
<1> QED BY <1>9, <1>12 DEF r, o

(* _evict_expired, when what is expired are the first entries: the others  *)
(* are what is left of the sequence after the first k.                     *)
Drops(q, r, k) == Len(r) = Len(q) - k /\ \A i \in 1..Len(r) : r[i] = q[k + i]

LEMMA FrontDropped ==
    ASSUME NEW T, NEW q \in Seq(T), Len(q) > 0, NEW E, q[Len(q)] \notin E,
           \A i, j \in 1..Len(q) : i <= j /\ q[j] \in E => q[i] \in E
    PROVE  LET r == Outside(q, E) IN
           /\ r \in Seq(T) /\ \A i \in 1..Len(r) : r[i] \notin E
           /\ \E k \in 0..(Len(q) - 1) : Drops(q, r, k)
<1> DEFINE n == Len(q)
           P == {i \in DOMAIN q : q[i] \notin E}
           r == Outside(q, E)
<1>1. DOMAIN q = 1..n /\ n \in Nat /\ n \in 1..n /\ \A j \in 1..n : q[j] \in T
  BY SMT
<1>2. PICK a \in P : \A j \in P : a <= j
  <2>1. P \in SUBSET Nat
    BY <1>1, SMT
  <2>2. n \in P
    BY <1>1
  <2> QED BY <2>1, <2>2, LeastNumber
<1>3. a \in 1..n /\ q[a] \notin E
  BY <1>1, <1>2
<1>4. P = a..n
  <2>1. ASSUME NEW j \in P PROVE j \in a..n
    <3>1. a <= j /\ j \in 1..n
      BY <1>1, <1>2
    <3> QED BY <1>1, <1>3, <3>1, SMT
  <2>2. ASSUME NEW j \in a..n PROVE j \in P
    <3>1. a <= j /\ j \in 1..n
      BY <1>1, <1>3, SMT
    <3> QED BY <1>1, <1>3, <3>1
  <2> QED BY <2>1, <2>2
<1> DEFINE k == a - 1
           m == n - k
           at == [i \in 1..m |-> k + i]
<1>5. k \in 0..(n - 1) /\ m \in Nat /\ k \in Nat
  BY <1>1, <1>3, SMT
<1>6. Lists(at, a..n)
  <2>1. Cardinality(a..n) = m
    BY <1>1, <1>3, FS_Interval, SMT
  <2>2. at \in [1..m -> a..n]
    <3> SUFFICES ASSUME NEW i \in 1..m PROVE k + i \in a..n
      OBVIOUS
    <3> QED BY <1>1, <1>3, SMT
  <2>3. ASSUME NEW x \in a..n PROVE \E i \in 1..m : at[i] = x
    <3>1. x - k \in 1..m /\ k + (x - k) = x
      BY <1>1, <1>3, SMT
    <3> QED BY <3>1
  <2>4. ASSUME NEW i \in 1..m, NEW j \in 1..m, i < j PROVE at[i] < at[j]
    <3>1. k + i < k + j
      BY <1>5, <2>4, SMT
    <3> QED BY <3>1
  <2>5. DOMAIN at = 1..m
    OBVIOUS
  <2> HIDE DEF m, k
  <2> QED BY <2>1, <2>2, <2>3, <2>4, <2>5 DEF Lists
<1>7. r = [i \in 1..m |-> q[k + i]]
  <2>1. r = [i \in DOMAIN at |-> q[at[i]]]
    <3>1. Lists(at, P)
      BY <1>4, <1>6
    <3> HIDE DEF at
    <3> QED BY <3>1, OutsideIs, SMT
  <2> QED BY <2>1
<1>8. \A i \in 1..m : k + i \in 1..n /\ k + i \in a..n
  BY <1>1, <1>3, SMT
<1>9. r \in Seq(T) /\ Len(r) = m
  <2>1. r \in [1..m -> T]
    BY <1>1, <1>7, <1>8
  <2> HIDE DEF r, m
  <2> QED BY <1>5, <2>1, SMT
<1>10. \A i \in 1..m : r[i] = q[k + i]
  BY <1>7
<1>11. \A i \in 1..m : r[i] \notin E
  BY <1>4, <1>8, <1>10
<1> HIDE DEF r, m, k
<1>12. Drops(q, r, k)
  BY <1>9, <1>10 DEF Drops, m
<1> QED BY <1>5, <1>9, <1>11, <1>12 DEF r

-----------------------------------------------------------------------------
(* Moving an entry to the end leaves a sequence without duplicates, moves  *)
(* it to the end of a suffix too, and the expired entries stay in front.   *)
InFront(E, q) == \A i, j \in 1..Len(q) : i <= j /\ q[j] \in E => q[i] \in E

LEMMA LastOrBefore == ASSUME NEW n \in Nat, NEW a \in 1..n PROVE a = n \/ a \in 1..(n - 1)
BY SMT

(* Where the entries of the new sequence come from.                        *)
From(j, i) == IF j < i THEN j ELSE j + 1

LEMMA FromFacts ==
    ASSUME NEW n \in Nat, NEW i \in 1..(n + 1), NEW m \in Nat, m = IF i <= n THEN n ELSE n + 1,
           NEW j \in 1..(m - 1)
    PROVE  From(j, i) \in 1..n /\ From(j, i) # i
BY SMT DEF From

LEMMA FromGrows ==
    ASSUME NEW i \in Nat, NEW a \in Nat, NEW b \in Nat
    PROVE  (From(a, i) = From(b, i) => a = b) /\ (a <= b => From(a, i) <= From(b, i))
BY SMT DEF From

LEMMA MovedFrom ==
    ASSUME NEW T, NEW q \in Seq(T), NEW r \in Seq(T), NEW c, NEW i \in 1..(Len(q) + 1), Moves(q, r, c, i)
    PROVE  /\ Len(q) \in Nat /\ Len(r) \in Nat /\ Len(r) # 0 /\ i \in Nat
           /\ Len(r) = IF i <= Len(q) THEN Len(q) ELSE Len(q) + 1
           /\ r[Len(r)] = c
           /\ \A j \in 1..(Len(r) - 1) : From(j, i) \in 1..Len(q) /\ r[j] = q[From(j, i)] /\ r[j] # c
<1>1. Len(q) \in Nat /\ Len(r) \in Nat /\ i \in Nat
  BY SMT
<1>2. Len(r) = IF i <= Len(q) THEN Len(q) ELSE Len(q) + 1
  BY DEF Moves
<1>3. Len(r) # 0
  BY <1>1, <1>2, SMT
<1>4. ASSUME NEW j \in 1..(Len(r) - 1)
      PROVE  From(j, i) \in 1..Len(q) /\ r[j] = q[From(j, i)] /\ r[j] # c
  <2>1. From(j, i) \in 1..Len(q) /\ From(j, i) # i
    BY <1>1, <1>2, FromFacts
  <2>2. r[j] = q[From(j, i)]
    BY DEF Moves, From
  <2> QED BY <2>1, <2>2 DEF Moves
<1>5. r[Len(r)] = c
  BY DEF Moves
<1> QED BY <1>1, <1>2, <1>3, <1>4, <1>5

LEMMA MoveKeepsInjective ==
    ASSUME NEW T, NEW q \in Seq(T), NEW r \in Seq(T), IsInjective(q),
           NEW c, NEW i \in 1..(Len(q) + 1), Moves(q, r, c, i)
    PROVE  IsInjective(r)
<1>1. DOMAIN q = 1..Len(q) /\ DOMAIN r = 1..Len(r)
  BY SMT
<1>2. Len(q) \in Nat /\ Len(r) \in Nat /\ i \in Nat /\ r[Len(r)] = c
  BY MovedFrom
<1>3. \A j \in 1..(Len(r) - 1) : From(j, i) \in 1..Len(q) /\ r[j] = q[From(j, i)] /\ r[j] # c
  BY MovedFrom, ZenonT(60)
<1>4. ASSUME NEW a \in 1..Len(r), NEW b \in 1..Len(r), r[a] = r[b] PROVE a = b
  <2>1. a = Len(r) \/ a \in 1..(Len(r) - 1)
    BY <1>2, LastOrBefore
  <2>2. b = Len(r) \/ b \in 1..(Len(r) - 1)
    BY <1>2, LastOrBefore
  <2>3. CASE a = Len(r) \/ b = Len(r)
    BY <1>2, <1>3, <1>4, <2>1, <2>2, <2>3
  <2>4. CASE a \in 1..(Len(r) - 1) /\ b \in 1..(Len(r) - 1)
    <3>1. From(a, i) = From(b, i)
      BY <1>1, <1>3, <1>4, <2>4 DEF IsInjective
    <3>2. a \in Nat /\ b \in Nat
      BY <1>2, SMT
    <3> QED BY <1>2, <3>1, <3>2, FromGrows
  <2> QED BY <2>1, <2>2, <2>3, <2>4
<1> QED BY <1>1, <1>4 DEF IsInjective

LEMMA MoveKeepsFront ==
    ASSUME NEW T, NEW q \in Seq(T), NEW r \in Seq(T), NEW E, InFront(E, q),
           NEW c, NEW i \in 1..(Len(q) + 1), Moves(q, r, c, i)
    PROVE  InFront(E \ {c}, r)
<1>1. Len(q) \in Nat /\ Len(r) \in Nat /\ i \in Nat /\ r[Len(r)] = c
  BY MovedFrom
<1>2. \A j \in 1..(Len(r) - 1) : From(j, i) \in 1..Len(q) /\ r[j] = q[From(j, i)] /\ r[j] # c
  BY MovedFrom, ZenonT(60)
<1>3. ASSUME NEW a \in 1..Len(r), NEW b \in 1..Len(r), a <= b, r[b] \in E \ {c} PROVE r[a] \in E \ {c}
  <2>1. b \in 1..(Len(r) - 1)
    BY <1>1, <1>3, LastOrBefore
  <2>2. a \in 1..(Len(r) - 1) /\ a \in Nat /\ b \in Nat
    BY <1>1, <1>3, <2>1, SMT
  <2>3. From(a, i) <= From(b, i)
    BY <1>1, <1>3, <2>2, FromGrows
  <2>4. q[From(a, i)] \in E
    BY <1>2, <1>3, <2>1, <2>2, <2>3 DEF InFront
  <2> QED BY <1>2, <2>2, <2>4
<1> QED BY <1>3 DEF InFront

(* The places: k is the length of what a suffix p of q leaves out, i and j *)
(* are the places of the entry in p and q, or just past the end.           *)
Places(n, k, i, j, m, h) ==
    /\ n \in Nat /\ k \in 0..n /\ i \in 1..((n - k) + 1) /\ j \in 1..(n + 1)
    /\ IF i <= n - k THEN j = k + i ELSE j <= k \/ j = n + 1
    /\ m = IF j <= n THEN n ELSE n + 1
    /\ h = IF i <= n - k THEN n - k ELSE (n - k) + 1
Aligned(k, i, j, m, h) ==
    \E l \in 0..m : h = m - l /\ \A x \in 1..(h - 1) : k + From(x, i) = From(l + x, j)

LEMMA PlacesAgree ==
    ASSUME NEW n, NEW k, NEW i, NEW j, NEW m, NEW h, Places(n, k, i, j, m, h)
    PROVE  Aligned(k, i, j, m, h)
<1>1. CASE i <= n - k
  <2>1. k \in 0..m /\ h = m - k
    BY <1>1, SMT DEF Places
  <2>2. \A x \in 1..(h - 1) : k + From(x, i) = From(k + x, j)
    BY <1>1, SMT DEF From, Places
  <2> QED BY <2>1, <2>2 DEF Aligned
<1>2. CASE ~(i <= n - k) /\ j <= k
  <2>1. k - 1 \in 0..m /\ h = m - (k - 1)
    BY <1>2, SMT DEF Places
  <2>2. \A x \in 1..(h - 1) : k + From(x, i) = From((k - 1) + x, j)
    BY <1>2, SMT DEF From, Places
  <2> QED BY <2>1, <2>2 DEF Aligned
<1>3. CASE ~(i <= n - k) /\ j = n + 1
  <2>1. k \in 0..m /\ h = m - k
    BY <1>3, SMT DEF Places
  <2>2. \A x \in 1..(h - 1) : k + From(x, i) = From(k + x, j)
    BY <1>3, SMT DEF From, Places
  <2> QED BY <2>1, <2>2 DEF Aligned
<1> QED BY <1>1, <1>2, <1>3 DEF Places

LEMMA MoveKeepsSuffix ==
    ASSUME NEW T, NEW q \in Seq(T), NEW p \in Seq(T), NEW q2 \in Seq(T), NEW p2 \in Seq(T), NEW c,
           NEW k \in 0..Len(q), Drops(q, p, k),
           NEW i \in 1..(Len(p) + 1), Moves(p, p2, c, i),
           NEW j \in 1..(Len(q) + 1), Moves(q, q2, c, j)
    PROVE  \E l \in 0..Len(q2) : Drops(q2, p2, l)
<1>1. /\ Len(p) \in Nat /\ Len(p2) \in Nat /\ p2[Len(p2)] = c
      /\ Len(p2) = IF i <= Len(p) THEN Len(p) ELSE Len(p) + 1
  BY MovedFrom, SMT
<1>2. /\ Len(q) \in Nat /\ Len(q2) \in Nat /\ q2[Len(q2)] = c
      /\ Len(q2) = IF j <= Len(q) THEN Len(q) ELSE Len(q) + 1
  BY MovedFrom, SMT
<1>3. \A x \in 1..(Len(p2) - 1) : From(x, i) \in 1..Len(p) /\ p2[x] = p[From(x, i)]
  BY MovedFrom, SMT
<1>4. \A x \in 1..(Len(q2) - 1) : q2[x] = q[From(x, j)]
  BY MovedFrom, SMT
<1>5. Len(p) = Len(q) - k /\ \A x \in 1..Len(p) : p[x] = q[k + x]
  BY DEF Drops
<1>6. (i <= Len(p) => p[i] = c) /\ \A x \in 1..Len(p) : x # i => p[x] # c
  BY DEF Moves
<1>7. (j <= Len(q) => q[j] = c) /\ \A x \in 1..Len(q) : x # j => q[x] # c
  BY DEF Moves
<1>8. IF i <= Len(p) THEN j = k + i ELSE j <= k \/ j = Len(q) + 1
  <2>1. CASE i <= Len(p)
    <3>1. i \in 1..Len(p) /\ k + i \in 1..Len(q)
      BY <1>1, <1>2, <1>5, <2>1, SMT
    <3> QED BY <1>5, <1>6, <1>7, <2>1, <3>1
  <2>2. CASE ~(i <= Len(p)) /\ ~(j <= k) /\ j # Len(q) + 1
    <3>1. j <= Len(q) /\ j - k \in 1..Len(p) /\ k + (j - k) = j /\ j - k # i
      BY <1>1, <1>2, <1>5, <2>2, SMT
    <3> QED BY <1>5, <1>6, <1>7, <3>1
  <2> QED BY <2>1, <2>2
<1>9. PICK l \in 0..Len(q2) : /\ Len(p2) = Len(q2) - l
                              /\ \A x \in 1..(Len(p2) - 1) : k + From(x, i) = From(l + x, j)
  <2>1. /\ i \in 1..((Len(q) - k) + 1)
        /\ IF i <= Len(q) - k THEN j = k + i ELSE j <= k \/ j = Len(q) + 1
        /\ Len(p2) = IF i <= Len(q) - k THEN Len(q) - k ELSE (Len(q) - k) + 1
    BY <1>1, <1>5, <1>8
  <2>2. Places(Len(q), k, i, j, Len(q2), Len(p2))
    BY <1>2, <2>1 DEF Places
  <2>3. Aligned(k, i, j, Len(q2), Len(p2))
    BY <2>2, PlacesAgree
  <2> QED BY <2>3 DEF Aligned
<1>10. ASSUME NEW x \in 1..Len(p2) PROVE p2[x] = q2[l + x]
  <2>1. CASE x = Len(p2)
    <3>1. l + x = Len(q2)
      BY <1>1, <1>2, <1>9, <2>1, SMT
    <3> QED BY <1>1, <1>2, <2>1, <3>1
  <2>2. CASE x \in 1..(Len(p2) - 1)
    <3>1. l + x \in 1..(Len(q2) - 1)
      BY <1>1, <1>2, <1>9, <2>2, SMTT(30)
    <3>2. p2[x] = q[k + From(x, i)]
      BY <1>3, <1>5, <2>2
    <3> QED BY <1>4, <1>9, <2>2, <3>1, <3>2
  <2> QED BY <1>1, <2>1, <2>2, LastOrBefore
<1> QED BY <1>9, <1>10 DEF Drops

LEMMA MoveKeepsOthers ==
    ASSUME NEW T, NEW q \in Seq(T), NEW r \in Seq(T), NEW c, NEW i \in 1..(Len(q) + 1), Moves(q, r, c, i)
    PROVE  Range(q) \ {c} \subseteq Range(r)
<1>1. /\ Len(q) \in Nat /\ Len(r) \in Nat
      /\ Len(r) = IF i <= Len(q) THEN Len(q) ELSE Len(q) + 1
  BY MovedFrom
<1>2. \A j \in 1..(Len(r) - 1) : r[j] = q[From(j, i)]
  BY MovedFrom, SMT
<1>3. DOMAIN q = 1..Len(q) /\ DOMAIN r = 1..Len(r)
  BY SMT
<1>4. ASSUME NEW y \in 1..Len(q), q[y] # c PROVE q[y] \in Range(r)
  <2>1. y # i
    <3>1. i <= Len(q) => q[i] = c
      BY DEF Moves
    <3>2. y <= Len(q)
      BY <1>1, SMT
    <3> QED BY <1>4, <3>1, <3>2
  <2>2. \E j \in 1..(Len(r) - 1) : From(j, i) = y
    <3>1. CASE y < i
      <4>1. y \in 1..(Len(r) - 1) /\ From(y, i) = y
        BY <1>1, <3>1, SMT DEF From
      <4> QED BY <4>1
    <3>2. CASE ~(y < i)
      <4>1. y - 1 \in 1..(Len(r) - 1) /\ From(y - 1, i) = y
        BY <1>1, <2>1, <3>2, SMT DEF From
      <4> QED BY <4>1
    <3> QED BY <3>1, <3>2
  <2>3. PICK j \in 1..(Len(r) - 1) : From(j, i) = y
    BY <2>2
  <2>4. j \in 1..Len(r)
    BY <1>1, SMT
  <2> QED BY <1>2, <1>3, <2>3, <2>4 DEF Range
<1> QED BY <1>3, <1>4 DEF Range

(* What is left after the first entries.                                   *)
LEMMA DropsFacts ==
    ASSUME NEW T, NEW q \in Seq(T), NEW r \in Seq(T), NEW k \in 0..Len(q), Drops(q, r, k)
    PROVE  /\ IsInjective(q) => IsInjective(r)
           /\ \A i \in 1..Len(r) : k + i \in 1..Len(q) /\ r[i] = q[k + i]
           /\ r = SubSeq(q, k + 1, Len(q))
<1>1. DOMAIN q = 1..Len(q) /\ DOMAIN r = 1..Len(r) /\ Len(q) \in Nat /\ Len(r) \in Nat
  BY SMT
<1>2. Len(r) = Len(q) - k /\ \A i \in 1..Len(r) : r[i] = q[k + i]
  BY DEF Drops
<1>3. \A i \in 1..Len(r) : k + i \in 1..Len(q)
  BY <1>1, <1>2, SMT
<1>4. ASSUME IsInjective(q), NEW a \in 1..Len(r), NEW b \in 1..Len(r), r[a] = r[b] PROVE a = b
  <2>1. k + a = k + b
    BY <1>1, <1>2, <1>3, <1>4 DEF IsInjective
  <2> QED BY <1>1, <2>1, SMT
<1>5. r = SubSeq(q, k + 1, Len(q))
  <2> DEFINE t == SubSeq(q, k + 1, Len(q))
  <2>1. t \in Seq(T) /\ Len(t) = Len(q) - k /\ \A i \in 1..Len(t) : t[i] = q[k + i]
    BY <1>1, SMTT(30)
  <2> HIDE DEF t
  <2>2. DOMAIN t = 1..Len(t)
    BY <2>1, SMT
  <2> QED BY <1>1, <1>2, <2>1, <2>2, SMT
<1> QED BY <1>1, <1>2, <1>3, <1>4, <1>5 DEF IsInjective

LEMMA DropsTwice ==
    ASSUME NEW T, NEW q \in Seq(T), NEW o \in Seq(T), NEW r \in Seq(T),
           NEW k \in 0..Len(q), Drops(q, o, k), NEW l \in 0..Len(o), Drops(o, r, l)
    PROVE  k + l \in 0..Len(q) /\ Drops(q, r, k + l)
<1>1. Len(q) \in Nat /\ Len(o) \in Nat /\ Len(r) \in Nat
  BY SMT
<1>2. Len(o) = Len(q) - k /\ Len(r) = Len(o) - l
  BY DEF Drops
<1>3. k + l \in 0..Len(q) /\ Len(r) = Len(q) - (k + l)
  BY <1>1, <1>2, SMT
<1>4. ASSUME NEW i \in 1..Len(r) PROVE r[i] = q[(k + l) + i]
  <2>1. l + i \in 1..Len(o) /\ k + (l + i) = (k + l) + i
    BY <1>1, <1>2, SMT
  <2>2. r[i] = o[l + i] /\ o[l + i] = q[k + (l + i)]
    BY <2>1 DEF Drops
  <2> QED BY <2>1, <2>2
<1> QED BY <1>3, <1>4 DEF Drops

-----------------------------------------------------------------------------
(* The order: known contexts once each, at most max_contexts of them; the  *)
(* expired ones are those used longest ago; and what is kept are the last  *)
(* of all that were used.                                                  *)
OrderOK ==
    /\ order \in Seq(Contexts) /\ IsInjective(order) /\ Len(order) <= MaxContexts
    /\ used \in Seq(Contexts) /\ IsInjective(used)
    /\ expired \subseteq Range(order) /\ InFront(expired, order)
    /\ \E k \in 0..Len(used) : Drops(used, order, k)

LEMMA TouchFacts ==
    ASSUME OrderOK, NEW c \in Contexts, Used(c)
    PROVE  /\ used' \in Seq(Contexts) /\ IsInjective(used')
           /\ Touched(c) \in Seq(Contexts) /\ IsInjective(Touched(c))
           /\ Len(Touched(c)) > 0 /\ Touched(c)[Len(Touched(c))] = c
           /\ Known(c) => Len(Touched(c)) = Len(order)
           /\ expired \ {c} \subseteq Range(Touched(c)) /\ InFront(expired \ {c}, Touched(c))
           /\ \E k \in 0..Len(used') : Drops(used', Touched(c), k)
<1> DEFINE q == Touched(c)
<1>1. order \in Seq(Contexts) /\ IsInjective(order) /\ used \in Seq(Contexts) /\ IsInjective(used)
  BY DEF OrderOK
<1>2. q \in Seq(Contexts) /\ \E i \in 1..(Len(order) + 1) : Moves(order, q, c, i)
  BY <1>1, MovedToEnd DEF Touched
<1>3. used' \in Seq(Contexts) /\ \E i \in 1..(Len(used) + 1) : Moves(used, used', c, i)
  BY <1>1, MovedToEnd DEF Used
<1> HIDE DEF q
<1>4. PICK i \in 1..(Len(order) + 1) : Moves(order, q, c, i)
  BY <1>2
<1>5. PICK j \in 1..(Len(used) + 1) : Moves(used, used', c, j)
  BY <1>3
<1>6. IsInjective(q)
  BY <1>1, <1>2, <1>4, MoveKeepsInjective
<1>7. IsInjective(used')
  BY <1>1, <1>3, <1>5, MoveKeepsInjective
<1>8. /\ Len(order) \in Nat /\ Len(q) \in Nat /\ Len(q) # 0 /\ q[Len(q)] = c
      /\ Len(q) = IF i <= Len(order) THEN Len(order) ELSE Len(order) + 1
  BY <1>1, <1>2, <1>4, MovedFrom
<1>9. Len(q) > 0
  BY <1>8, SMT
<1>10. ASSUME Known(c) PROVE Len(q) = Len(order)
  <2>1. DOMAIN order = 1..Len(order)
    BY <1>1, SMT
  <2>2. PICK k \in 1..Len(order) : order[k] = c
    BY <1>10, <2>1 DEF Known, Range
  <2>3. k = i
    BY <1>4, <2>2 DEF Moves
  <2>4. i <= Len(order)
    BY <1>8, <2>3, SMT
  <2> QED BY <1>8, <2>4
<1>11. expired \ {c} \subseteq Range(q)
  <2>1. Range(order) \ {c} \subseteq Range(q)
    BY <1>1, <1>2, <1>4, MoveKeepsOthers
  <2> QED BY <2>1 DEF OrderOK
<1>12. InFront(expired \ {c}, q)
  <2>1. InFront(expired, order)
    BY DEF OrderOK
  <2> QED BY <1>1, <1>2, <1>4, <2>1, MoveKeepsFront
<1>13. \E k \in 0..Len(used') : Drops(used', q, k)
  <2>1. PICK k \in 0..Len(used) : Drops(used, order, k)
    BY DEF OrderOK
  <2> QED BY <1>1, <1>2, <1>3, <1>4, <1>5, <2>1, MoveKeepsSuffix
<1> QED BY <1>2, <1>3, <1>6, <1>7, <1>8, <1>9, <1>10, <1>11, <1>12, <1>13 DEF q

LEMMA EvictLruDrops ==
    ASSUME NEW T, NEW q \in Seq(T)
    PROVE  /\ EvictLru(q) \in Seq(T) /\ Len(EvictLru(q)) <= MaxContexts
           /\ \E k \in 0..Len(q) : Drops(q, EvictLru(q), k)
<1>1. Len(q) \in Nat /\ MaxContexts \in Nat \ {0}
  BY ContextManagerIsTyped, SMT
<1>2. CASE Len(q) <= MaxContexts
  <2>1. EvictLru(q) = q
    BY <1>2 DEF EvictLru
  <2>2. 0 \in 0..Len(q) /\ Drops(q, q, 0)
    BY <1>1, SMT DEF Drops
  <2> QED BY <1>2, <2>1, <2>2
<1>3. CASE ~(Len(q) <= MaxContexts)
  <2> DEFINE k == Len(q) - MaxContexts
             r == SubSeq(q, k + 1, Len(q))
  <2>1. EvictLru(q) = r
    BY <1>3 DEF EvictLru
  <2>2. k \in 0..Len(q) /\ k \in Nat /\ Len(q) - k = MaxContexts /\ k + 1 <= Len(q)
    BY <1>1, <1>3, SMT
  <2> HIDE DEF k
  <2>3. r \in Seq(T) /\ Len(r) = Len(q) - k /\ \A i \in 1..Len(r) : r[i] = q[k + i]
    BY <1>1, <2>2, SMT
  <2> HIDE DEF r
  <2>4. MaxContexts <= MaxContexts
    BY <1>1, SMT
  <2> QED BY <2>1, <2>2, <2>3, <2>4 DEF Drops
<1> QED BY <1>2, <1>3

LEMMA EvictFacts ==
    ASSUME NEW c \in Contexts, NEW q \in Seq(Contexts), Len(q) > 0, q[Len(q)] = c,
           IsInjective(q), InFront(expired \ {c}, q)
    PROVE  LET r == EvictLru(EvictExpired(q, c)) IN
           /\ r \in Seq(Contexts) /\ Len(r) <= MaxContexts /\ IsInjective(r)
           /\ Range(r) \intersect (expired \ {c}) = {}
           /\ \E k \in 0..Len(q) : Drops(q, r, k)
<1> DEFINE E == expired \ {c}
           o == EvictExpired(q, c)
           r == EvictLru(o)
<1>1. o \in Seq(Contexts) /\ (\A i \in 1..Len(o) : o[i] \notin E) /\ \E k \in 0..(Len(q) - 1) : Drops(q, o, k)
  <2>1. q[Len(q)] \notin E
    OBVIOUS
  <2>2. \A i, j \in 1..Len(q) : i <= j /\ q[j] \in E => q[i] \in E
    BY DEF InFront
  <2> HIDE DEF E
  <2>3. o = Outside(q, E)
    BY DEF EvictExpired, E
  <2> QED BY <2>1, <2>2, <2>3, FrontDropped, SMT
<1> HIDE DEF o, E
<1>2. r \in Seq(Contexts) /\ Len(r) <= MaxContexts /\ \E l \in 0..Len(o) : Drops(o, r, l)
  BY <1>1, EvictLruDrops
<1> HIDE DEF r
<1>3. PICK k \in 0..(Len(q) - 1) : Drops(q, o, k)
  BY <1>1
<1>4. PICK l \in 0..Len(o) : Drops(o, r, l)
  BY <1>2
<1>5. k \in 0..Len(q)
  BY SMT
<1>6. k + l \in 0..Len(q) /\ Drops(q, r, k + l)
  BY <1>1, <1>2, <1>3, <1>4, <1>5, DropsTwice
<1>7. IsInjective(r)
  BY <1>2, <1>6, DropsFacts
<1>8. Range(r) \intersect E = {}
  <2>1. \A i \in 1..Len(r) : l + i \in 1..Len(o) /\ r[i] = o[l + i]
    BY <1>1, <1>2, <1>4, DropsFacts, SMT
  <2>2. DOMAIN r = 1..Len(r)
    BY <1>2, SMT
  <2> QED BY <1>1, <2>1, <2>2 DEF Range
<1> QED BY <1>2, <1>6, <1>7, <1>8 DEF r, o, E

-----------------------------------------------------------------------------
(* The contexts: deltas only over a summary, in the snapshots too.         *)
Fields == {"shared", "private", "readonly", "deltaShared", "deltaPrivate", "history", "summary",
           "compressed", "version", "prefixKey", "previous"}
OverSummary(x) ==
    x.compressed \in BOOLEAN /\ (~x.compressed => x.deltaShared = Nothing /\ x.deltaPrivate = Nothing)
IsSeq(q) == q \in Seq(Range(q))
ContextOK(x) ==
    /\ DOMAIN x = Fields /\ x.version \in Nat /\ OverSummary(x)
    /\ IsSeq(x.previous) /\ \A i \in 1..Len(x.previous) : OverSummary(x.previous[i])

(* Important values are in the data, or in the summary, of a context or    *)
(* snapshot.                                                               *)
Holds(x, g) ==
    \A k \in DOMAIN g : k \in Important /\ k \in DOMAIN MergedShared(x) /\ MergedShared(x)[k] = g[k]
Kept(x, g) ==
    /\ x.compressed /\ "important" \in DOMAIN x.shared
    /\ \A k \in DOMAIN g : k \in DOMAIN x.shared["important"].kept /\ x.shared["important"].kept[k] = g[k]

(* What clients wrote between two compressions is in the snapshot that the *)
(* second of them took, and in the summary it made: that of the context,   *)
(* or the one a later snapshot holds.                                      *)
ToldOK(x, t) ==
    /\ IsSeq(t) /\ Len(t) = Len(x.previous) + 1
    /\ Holds(x, t[Len(t)]) /\ (Len(t) > 1 => Kept(x, t[Len(t) - 1]))
    /\ \A i \in 1..Len(x.previous) :
        Holds(x.previous[i], t[i]) /\ (i > 1 => Kept(x.previous[i], t[i - 1]))

LEMMA NothingIsEmpty == DOMAIN Nothing = {} /\ \A f : [k \in {} |-> f[k]] = Nothing
BY DEF Nothing

LEMMA MergeFacts ==
    ASSUME NEW f, NEW g
    PROVE  /\ DOMAIN Merge(f, g) = DOMAIN f \union DOMAIN g
           /\ \A k \in DOMAIN g : Merge(f, g)[k] = g[k]
           /\ \A k \in DOMAIN f : k \notin DOMAIN g => Merge(f, g)[k] = f[k]
BY DEF Merge

(* m is d, with the entries of f written over it.                          *)
Extended(d, f, m) ==
    /\ DOMAIN m = DOMAIN d \union DOMAIN f
    /\ \A k \in DOMAIN f : m[k] = f[k]
    /\ \A k \in DOMAIN d : k \notin DOMAIN f => m[k] = d[k]

LEMMA MergeExtends == ASSUME NEW d, NEW f PROVE Extended(d, f, Merge(d, f))
BY MergeFacts DEF Extended

LEMMA MergeTwice ==
    ASSUME NEW d, NEW e, NEW f PROVE Extended(Merge(d, e), f, Merge(d, Merge(e, f)))
<1> DEFINE a == Merge(d, e)
           b == Merge(e, f)
           m == Merge(d, b)
<1>1. Extended(d, e, a) /\ Extended(e, f, b) /\ Extended(d, b, m)
  BY MergeExtends
<1> HIDE DEF a, b, m
<1>2. DOMAIN m = DOMAIN a \union DOMAIN f
  BY <1>1 DEF Extended
<1>3. ASSUME NEW k \in DOMAIN f PROVE m[k] = f[k]
  BY <1>1 DEF Extended
<1>4. ASSUME NEW k \in DOMAIN a, k \notin DOMAIN f PROVE m[k] = a[k]
  <2>1. CASE k \in DOMAIN e
    <3>1. k \in DOMAIN b /\ b[k] = e[k] /\ a[k] = e[k]
      BY <1>1, <1>4, <2>1 DEF Extended
    <3> QED BY <1>1, <3>1 DEF Extended
  <2>2. CASE k \notin DOMAIN e
    <3>1. k \notin DOMAIN b /\ k \in DOMAIN d /\ a[k] = d[k]
      BY <1>1, <1>4, <2>2 DEF Extended
    <3> QED BY <1>1, <3>1 DEF Extended
  <2> QED BY <2>1, <2>2
<1> QED BY <1>2, <1>3, <1>4 DEF Extended, a, m, b

(* A new field of a context leaves the others as they are.                 *)
LEMMA FieldsStay ==
    ASSUME NEW x, DOMAIN x = Fields, NEW v
    PROVE  /\ DOMAIN [x EXCEPT !.summary = v] = Fields /\ DOMAIN [x EXCEPT !.prefixKey = v] = Fields
           /\ \A f \in Fields \ {"summary"} : [x EXCEPT !.summary = v][f] = x[f]
           /\ \A f \in Fields \ {"prefixKey"} : [x EXCEPT !.prefixKey = v][f] = x[f]
OBVIOUS

(* What a write of f makes of x.                                           *)
Wrote(x, y, f) ==
    /\ y.previous = x.previous /\ \A g : Kept(x, g) => Kept(y, g)
    /\ Extended(MergedShared(x), f, MergedShared(y))

LEMMA SharedWritten ==
    ASSUME NEW x, ContextOK(x), NEW f
    PROVE  ContextOK(WriteShared(x, f)) /\ Wrote(x, WriteShared(x, f), f)
<1> DEFINE y == WriteShared(x, f)
<1>1. CASE f = Nothing
  <2>1. y = x /\ DOMAIN f = {}
    BY <1>1, NothingIsEmpty DEF WriteShared
  <2>2. Extended(MergedShared(x), f, MergedShared(x))
    BY <2>1 DEF Extended
  <2> QED BY <2>1, <2>2 DEF Wrote
<1>2. CASE f # Nothing
  <2>1. DOMAIN x = Fields /\ x.version \in Nat /\ OverSummary(x)
    BY DEF ContextOK
  <2>2. y = [x EXCEPT !.deltaShared = IF x.compressed THEN Merge(x.deltaShared, f) ELSE x.deltaShared,
                      !.shared = IF x.compressed THEN x.shared ELSE Merge(x.shared, f),
                      !.version = x.version + 1]
    BY <1>2 DEF WriteShared
  <2>3. /\ DOMAIN y = Fields /\ y.version = x.version + 1 /\ y.compressed = x.compressed
        /\ y.previous = x.previous /\ y.deltaPrivate = x.deltaPrivate
        /\ y.deltaShared = IF x.compressed THEN Merge(x.deltaShared, f) ELSE x.deltaShared
        /\ y.shared = IF x.compressed THEN x.shared ELSE Merge(x.shared, f)
    BY <2>1, <2>2 DEF Fields
  <2> HIDE DEF y
  <2>4. x.version + 1 \in Nat
    BY <2>1, SMT
  <2>5. ContextOK(y)
    BY <2>1, <2>3, <2>4 DEF ContextOK, OverSummary
  <2>6. \A g : Kept(x, g) => Kept(y, g)
    BY <2>3 DEF Kept
  <2>7. Extended(MergedShared(x), f, MergedShared(y))
    <3>1. CASE x.compressed
      <4>1. MergedShared(y) = Merge(x.shared, Merge(x.deltaShared, f))
        BY <2>3, <3>1 DEF MergedShared
      <4>2. MergedShared(x) = Merge(x.shared, x.deltaShared)
        BY DEF MergedShared
      <4> QED BY <4>1, <4>2, MergeTwice
    <3>2. CASE ~x.compressed
      <4> DEFINE m == Merge(x.shared, f)
                 d == MergedShared(x)
                 e == MergedShared(y)
      <4>1. x.deltaShared = Nothing /\ y.deltaShared = Nothing /\ y.shared = m
        BY <2>1, <2>3, <3>2 DEF OverSummary
      <4>2. Extended(x.shared, Nothing, d) /\ Extended(m, Nothing, e)
        BY <4>1, MergeExtends DEF MergedShared
      <4>3. Extended(x.shared, f, m)
        BY MergeExtends
      <4> HIDE DEF m, d, e
      <4>4. /\ DOMAIN d = DOMAIN x.shared /\ DOMAIN e = DOMAIN m
            /\ \A k \in DOMAIN d : d[k] = x.shared[k]
            /\ \A k \in DOMAIN m : e[k] = m[k]
        BY <4>2, NothingIsEmpty DEF Extended
      <4>5. Extended(d, f, e)
        BY <4>3, <4>4 DEF Extended
      <4> QED BY <4>5 DEF d, e
    <3> QED BY <3>1, <3>2
  <2> QED BY <2>3, <2>5, <2>6, <2>7 DEF Wrote, y
<1> QED BY <1>1, <1>2

(* The other writes leave what is shared alone.                            *)
SameShared(x, y) ==
    /\ y.shared = x.shared /\ y.deltaShared = x.deltaShared
    /\ y.compressed = x.compressed /\ y.previous = x.previous

LEMMA PrivateWritten ==
    ASSUME NEW x, ContextOK(x), NEW a, NEW f
    PROVE  ContextOK(WritePrivate(x, a, f)) /\ SameShared(x, WritePrivate(x, a, f))
<1> DEFINE y == WritePrivate(x, a, f)
<1>1. CASE f = None
  BY <1>1 DEF WritePrivate, SameShared
<1>2. CASE f # None
  <2>1. DOMAIN x = Fields /\ x.version \in Nat /\ OverSummary(x)
    BY DEF ContextOK
  <2>2. /\ DOMAIN y = Fields /\ y.version = x.version + 1 /\ y.compressed = x.compressed
        /\ y.previous = x.previous /\ y.shared = x.shared /\ y.deltaShared = x.deltaShared
        /\ ~x.compressed => y.deltaPrivate = x.deltaPrivate
    BY <1>2, <2>1 DEF WritePrivate, Fields
  <2> HIDE DEF y
  <2>3. x.version + 1 \in Nat
    BY <2>1, SMT
  <2>4. OverSummary(y)
    BY <2>1, <2>2 DEF OverSummary
  <2>5. ContextOK(y)
    BY <2>2, <2>3, <2>4 DEF ContextOK
  <2> QED BY <2>2, <2>5 DEF SameShared, y
<1> QED BY <1>1, <1>2

LEMMA ReadonlyWritten ==
    ASSUME NEW x, ContextOK(x), NEW f
    PROVE  ContextOK(WriteReadonly(x, f)) /\ SameShared(x, WriteReadonly(x, f))
<1> DEFINE y == WriteReadonly(x, f)
<1>1. CASE f = Nothing
  BY <1>1 DEF WriteReadonly, SameShared
<1>2. CASE f # Nothing
  <2>1. DOMAIN x = Fields /\ x.version \in Nat /\ OverSummary(x)
    BY DEF ContextOK
  <2>2. /\ DOMAIN y = Fields /\ y.version = x.version + 1 /\ y.compressed = x.compressed
        /\ y.previous = x.previous /\ y.shared = x.shared /\ y.deltaShared = x.deltaShared
        /\ y.deltaPrivate = x.deltaPrivate
    BY <1>2, <2>1 DEF WriteReadonly, Fields
  <2> HIDE DEF y
  <2>3. x.version + 1 \in Nat
    BY <2>1, SMT
  <2>4. ContextOK(y)
    BY <2>1, <2>2, <2>3 DEF ContextOK, OverSummary
  <2> QED BY <2>2, <2>4 DEF SameShared, y
<1> QED BY <1>1, <1>2

LEMMA LabelsWritten ==
    ASSUME NEW x, ContextOK(x), NEW v
    PROVE  /\ ContextOK([x EXCEPT !.summary = v]) /\ SameShared(x, [x EXCEPT !.summary = v])
           /\ ContextOK([x EXCEPT !.prefixKey = v]) /\ SameShared(x, [x EXCEPT !.prefixKey = v])
<1>1. DOMAIN x = Fields
  BY DEF ContextOK
<1>2. ASSUME NEW y, DOMAIN y = Fields, \A f \in Fields \ {"summary", "prefixKey"} : y[f] = x[f]
      PROVE  ContextOK(y) /\ SameShared(x, y)
  <2>1. /\ y.version = x.version /\ y.compressed = x.compressed /\ y.previous = x.previous
        /\ y.shared = x.shared /\ y.deltaShared = x.deltaShared /\ y.deltaPrivate = x.deltaPrivate
    BY <1>2 DEF Fields
  <2> QED BY <1>2, <2>1, SMT DEF ContextOK, OverSummary, SameShared
<1> QED BY <1>1, <1>2, FieldsStay

LEMMA SameIsSame ==
    ASSUME NEW x, NEW y, SameShared(x, y)
    PROVE  /\ MergedShared(y) = MergedShared(x)
           /\ \A g : (Holds(x, g) => Holds(y, g)) /\ (Kept(x, g) => Kept(y, g))
<1>1. MergedShared(y) = MergedShared(x)
  BY DEF SameShared, MergedShared
<1> QED BY <1>1 DEF SameShared, Holds, Kept

LEMMA SameTold ==
    ASSUME NEW x, NEW y, NEW t, SameShared(x, y), ToldOK(x, t)
    PROVE  ToldOK(y, t)
<1>1. y.previous = x.previous
  BY DEF SameShared
<1>2. \A g : (Holds(x, g) => Holds(y, g)) /\ (Kept(x, g) => Kept(y, g))
  BY SameIsSame
<1> QED BY <1>1, <1>2 DEF ToldOK

LEMMA SeqGrows ==
    ASSUME NEW q, IsSeq(q), NEW m
    PROVE  /\ IsSeq(Append(q, m)) /\ Len(q) \in Nat /\ Len(Append(q, m)) = Len(q) + 1
           /\ \A i \in 1..Len(q) : Append(q, m)[i] = q[i]
           /\ Append(q, m)[Len(q) + 1] = m
<1> DEFINE T == Range(q) \union {m}
           r == Append(q, m)
<1>1. q \in Seq(Range(q))
  BY DEF IsSeq
<1>2. q \in Seq(T) /\ Len(q) \in Nat /\ DOMAIN q = 1..Len(q)
  BY <1>1, SMT
<1>3. /\ r \in Seq(T) /\ Len(r) = Len(q) + 1 /\ \A i \in 1..Len(q) : r[i] = q[i]
      /\ r[Len(q) + 1] = m
  <2> HIDE DEF T
  <2>1. m \in T
    BY DEF T
  <2> QED BY <1>2, <2>1, SMT
<1>4. T \subseteq Range(r)
  <2>1. DOMAIN r = 1..(Len(q) + 1) /\ Len(q) + 1 \in 1..(Len(q) + 1)
    BY <1>2, <1>3, SMT
  <2>2. 1..Len(q) \subseteq DOMAIN r
    BY <1>2, <2>1, SMT
  <2>3. m \in Range(r)
    BY <1>3, <2>1 DEF Range
  <2>4. ASSUME NEW i \in 1..Len(q) PROVE q[i] \in Range(r)
    BY <1>3, <2>2 DEF Range
  <2> QED BY <1>2, <2>3, <2>4 DEF Range
<1>5. r \in Seq(Range(r))
  <2> HIDE DEF T, r
  <2> QED BY <1>3, <1>4, SMT
<1> QED BY <1>2, <1>3, <1>5 DEF IsSeq

LEMMA SeqShrinks ==
    ASSUME NEW q, IsSeq(q), q # <<>>
    PROVE  LET r == SubSeq(q, 1, Len(q) - 1) IN
           /\ IsSeq(r) /\ Len(q) \in Nat \ {0} /\ Len(r) = Len(q) - 1
           /\ \A i \in 1..Len(r) : i \in 1..Len(q) /\ r[i] = q[i]
<1> DEFINE T == Range(q)
           r == SubSeq(q, 1, Len(q) - 1)
<1>1. q \in Seq(T)
  BY DEF IsSeq
<1> HIDE DEF T
<1>2. Len(q) \in Nat \ {0}
  BY <1>1, SMT
<1>3. r \in Seq(T) /\ Len(r) = Len(q) - 1 /\ \A i \in 1..Len(r) : r[i] = q[i]
  <2> DEFINE k == Len(q) - 1
  <2>1. k \in Nat /\ k <= Len(q)
    BY <1>2, SMT
  <2> HIDE DEF k
  <2>2. /\ SubSeq(q, 1, k) \in Seq(T) /\ Len(SubSeq(q, 1, k)) = k
        /\ \A i \in 1..k : SubSeq(q, 1, k)[i] = q[i]
    BY <1>1, <1>2, <2>1, SMT
  <2> QED BY <2>2 DEF k
<1> HIDE DEF r
<1>4. \A i \in 1..Len(r) : i \in 1..Len(q)
  BY <1>2, <1>3, SMT
<1>5. r \in Seq(Range(r))
  <2>1. Len(r) \in Nat /\ DOMAIN r = 1..Len(r) /\ r = [i \in 1..Len(r) |-> r[i]]
    BY <1>3, SMT
  <2>2. r \in [1..Len(r) -> Range(r)]
    <3>1. \A i \in 1..Len(r) : r[i] \in Range(r)
      BY <2>1 DEF Range
    <3> QED BY <2>1, <3>1
  <2> QED BY <2>1, <2>2, SMT
<1> QED BY <1>2, <1>3, <1>4, <1>5 DEF r, IsSeq

LEMMA SeqReplaces ==
    ASSUME NEW q, IsSeq(q), Len(q) \in Nat \ {0}, NEW v
    PROVE  LET r == [q EXCEPT ![Len(q)] = v] IN
           /\ IsSeq(r) /\ Len(r) = Len(q) /\ r[Len(q)] = v
           /\ \A i \in 1..Len(q) : i # Len(q) => r[i] = q[i]
<1> DEFINE T == Range(q) \union {v}
           r == [q EXCEPT ![Len(q)] = v]
<1>1. q \in Seq(Range(q))
  BY DEF IsSeq
<1>2. q \in Seq(T) /\ v \in T /\ DOMAIN q = 1..Len(q) /\ Len(q) \in 1..Len(q)
  BY <1>1, SMT
<1>3. r[Len(q)] = v /\ DOMAIN r = 1..Len(q) /\ \A i \in 1..Len(q) : i # Len(q) => r[i] = q[i]
  BY <1>2
<1>4. r \in Seq(T) /\ Len(r) = Len(q)
  <2> HIDE DEF T
  <2> QED BY <1>2, SMT
<1>5. r \in Seq(Range(r))
  <2> HIDE DEF r
  <2>1. r \in [1..Len(r) -> Range(r)]
    <3>1. \A i \in 1..Len(r) : r[i] \in Range(r)
      BY <1>3, <1>4 DEF Range
    <3>2. r = [i \in 1..Len(r) |-> r[i]]
      BY <1>4, SMT
    <3> QED BY <3>1, <3>2
  <2> QED BY <1>4, <2>1, SMT
<1> QED BY <1>3, <1>4, <1>5 DEF IsSeq

(* _compress_if_needed: the data goes to a snapshot, and what is important *)
(* in it to the summary.                                                   *)
Compressed(y, z) ==
    \E p : /\ OverSummary(p) /\ z.previous = Append(y.previous, p)
           /\ \A g : (Holds(y, g) => Holds(p, g)) /\ (Kept(y, g) => Kept(p, g))
           /\ \A g : Holds(y, g) => Kept(z, g)

LEMMA SnapshotFacts ==
    ASSUME NEW x, OverSummary(x)
    PROVE  /\ OverSummary(Snapshot(x))
           /\ \A g : (Holds(x, g) => Holds(Snapshot(x), g)) /\ (Kept(x, g) => Kept(Snapshot(x), g))
<1> DEFINE p == Snapshot(x)
<1>1. /\ p.compressed = x.compressed /\ p.deltaPrivate = x.deltaPrivate
      /\ p.deltaShared = x.deltaShared /\ p.shared = x.shared
  BY DEF Snapshot
<1> HIDE DEF p
<1>2. OverSummary(p)
  BY <1>1 DEF OverSummary
<1>3. MergedShared(p) = MergedShared(x)
  BY <1>1 DEF MergedShared
<1>4. \A g : (Holds(x, g) => Holds(p, g)) /\ (Kept(x, g) => Kept(p, g))
  BY <1>1, <1>3 DEF Holds, Kept
<1> QED BY <1>2, <1>4 DEF p

LEMMA SummaryKeeps ==
    ASSUME NEW d
    PROVE  /\ "important" \in DOMAIN StructuredSummary(d)
           /\ DOMAIN StructuredSummary(d)["important"].kept = DOMAIN d \intersect Important
           /\ \A k \in DOMAIN d \intersect Important : StructuredSummary(d)["important"].kept[k] = d[k]
<1>1. "important" \in Markers
  BY DEF Markers
<1>2. StructuredSummary(d)["important"] = [text |-> "summary", keys |-> {}, kept |-> Only(d, Important)]
  BY <1>1 DEF StructuredSummary
<1>3. StructuredSummary(d)["important"].kept = Only(d, Important)
  <2> DEFINE o == Only(d, Important)
  <2> HIDE DEF o
  <2>1. [text |-> "summary", keys |-> {}, kept |-> o].kept = o
    BY SMT
  <2> QED BY <1>2, <2>1 DEF o
<1>4. "important" \in DOMAIN StructuredSummary(d)
  BY <1>1 DEF StructuredSummary
<1> QED BY <1>3, <1>4 DEF Only

LEMMA CompressEffect ==
    ASSUME NEW y, ContextOK(y)
    PROVE  LET z == CompressIfNeeded(y) IN ContextOK(z) /\ (z = y \/ Compressed(y, z))
<1> DEFINE z == CompressIfNeeded(y)
           p == Snapshot(y)
<1>1. CASE ContentSize(y) <= Threshold
  BY <1>1 DEF CompressIfNeeded
<1>2. CASE ~(ContentSize(y) <= Threshold)
  <2>1. DOMAIN y = Fields /\ y.version \in Nat /\ OverSummary(y) /\ IsSeq(y.previous)
    BY DEF ContextOK
  <2>2. /\ DOMAIN z = Fields /\ z.version = y.version + 1 /\ z.compressed = TRUE
        /\ z.previous = Append(y.previous, p) /\ z.shared = StructuredSummary(MergedShared(y))
    BY <1>2, <2>1 DEF CompressIfNeeded, Fields
  <2> HIDE DEF z
  <2>3. OverSummary(p) /\ \A g : (Holds(y, g) => Holds(p, g)) /\ (Kept(y, g) => Kept(p, g))
    BY <2>1, SnapshotFacts
  <2> HIDE DEF p
  <2>4. ASSUME NEW g, Holds(y, g) PROVE Kept(z, g)
    <3> DEFINE d == MergedShared(y)
               s == StructuredSummary(d)
    <3>1. \A k \in DOMAIN g : k \in DOMAIN d \intersect Important /\ d[k] = g[k]
      BY <2>4 DEF Holds
    <3>2. /\ "important" \in DOMAIN s /\ DOMAIN s["important"].kept = DOMAIN d \intersect Important
          /\ \A k \in DOMAIN d \intersect Important : s["important"].kept[k] = d[k]
      BY SummaryKeeps
    <3>3. z.shared = s
      BY <2>2
    <3> HIDE DEF d, s
    <3> QED BY <2>2, <3>1, <3>2, <3>3 DEF Kept
  <2>5. Compressed(y, z)
    BY <2>2, <2>3, <2>4 DEF Compressed
  <2>6. y.version + 1 \in Nat
    BY <2>1, SMT
  <2>7. OverSummary(z)
    BY <2>2 DEF OverSummary
  <2>8. /\ IsSeq(z.previous) /\ Len(y.previous) \in Nat /\ Len(z.previous) = Len(y.previous) + 1
        /\ \A i \in 1..Len(y.previous) : z.previous[i] = y.previous[i]
        /\ z.previous[Len(y.previous) + 1] = p
    <3> DEFINE q == y.previous
               r == Append(q, p)
    <3>1. IsSeq(q)
      BY <2>1
    <3> HIDE DEF q
    <3>2. /\ IsSeq(r) /\ Len(q) \in Nat /\ Len(r) = Len(q) + 1
          /\ (\A i \in 1..Len(q) : r[i] = q[i]) /\ r[Len(q) + 1] = p
      BY <3>1, SeqGrows
    <3>3. z.previous = r
      BY <2>2 DEF q
    <3> HIDE DEF r
    <3> QED BY <3>2, <3>3 DEF q
  <2>9. ASSUME NEW i \in 1..Len(z.previous) PROVE OverSummary(z.previous[i])
    <3>1. i \in 1..Len(y.previous) \/ i = Len(y.previous) + 1
      BY <2>8, SMT
    <3> QED BY <2>3, <2>8, <3>1 DEF ContextOK
  <2>10. ContextOK(z)
    BY <2>2, <2>6, <2>7, <2>8, <2>9 DEF ContextOK
  <2> QED BY <2>5, <2>10 DEF z
<1> QED BY <1>1, <1>2

-----------------------------------------------------------------------------
(* What was told, over a write, a compression and a rollback.              *)
Retold(t, f) == [t EXCEPT ![Len(t)] = Merge(@, Only(f, Important))]

LEMMA ToldLength ==
    ASSUME NEW x, ContextOK(x), NEW t, ToldOK(x, t)
    PROVE  Len(x.previous) \in Nat /\ Len(t) \in Nat \ {0} /\ Len(t) = Len(x.previous) + 1
<1>1. x.previous \in Seq(Range(x.previous)) /\ Len(t) = Len(x.previous) + 1
  BY DEF ContextOK, IsSeq, ToldOK
<1>2. Len(x.previous) \in Nat
  BY <1>1, SMT
<1> QED BY <1>1, <1>2, SMT

LEMMA WriteKeepsTold ==
    ASSUME NEW x, ContextOK(x), NEW y, NEW t, NEW f, ToldOK(x, t), Wrote(x, y, f)
    PROVE  ToldOK(y, Retold(t, f))
<1> DEFINE n == Len(x.previous)
           l == Len(t)
           g == t[l]
           h == Only(f, Important)
           u == Retold(t, f)
<1>1. n \in Nat /\ l \in Nat \ {0} /\ l = n + 1
  BY ToldLength
<1>2. IsSeq(u) /\ Len(u) = l /\ u[l] = Merge(g, h) /\ \A i \in 1..l : i # l => u[i] = t[i]
  BY <1>1, SeqReplaces DEF ToldOK, Retold
<1>3. y.previous = x.previous
  BY DEF Wrote
<1> HIDE DEF u
<1>4. Holds(y, u[l])
  <2> DEFINE d == MergedShared(x)
             e == MergedShared(y)
             m == Merge(g, h)
  <2>1. \A k \in DOMAIN g : k \in Important /\ k \in DOMAIN d /\ d[k] = g[k]
    BY DEF ToldOK, Holds
  <2>2. Extended(d, f, e) /\ Extended(g, h, m)
    BY MergeExtends DEF Wrote
  <2>3. DOMAIN h = DOMAIN f \intersect Important /\ \A k \in DOMAIN h : h[k] = f[k]
    BY DEF Only
  <2> HIDE DEF d, e, m, g, h
  <2>4. ASSUME NEW k \in DOMAIN m PROVE k \in Important /\ k \in DOMAIN e /\ e[k] = m[k]
    <3>1. CASE k \in DOMAIN h
      BY <2>2, <2>3, <3>1 DEF Extended
    <3>2. CASE k \notin DOMAIN h
      <4>1. k \in DOMAIN g /\ m[k] = g[k]
        BY <2>2, <2>4, <3>2 DEF Extended
      <4>2. k \in Important /\ k \in DOMAIN d /\ d[k] = g[k] /\ k \notin DOMAIN f
        BY <2>1, <2>3, <3>2, <4>1
      <4> QED BY <2>2, <4>1, <4>2 DEF Extended
    <3> QED BY <3>1, <3>2
  <2>5. Holds(y, m)
    BY <2>4 DEF Holds, e
  <2> QED BY <1>2, <2>5 DEF m
<1>5. ASSUME l > 1 PROVE Kept(y, u[l - 1])
  <2>1. l - 1 \in 1..l /\ l - 1 # l
    BY <1>1, <1>5, SMT
  <2>2. Kept(x, t[l - 1])
    BY <1>5 DEF ToldOK
  <2> QED BY <1>2, <2>1, <2>2 DEF Wrote
<1>6. ASSUME NEW i \in 1..n
      PROVE  Holds(x.previous[i], u[i]) /\ (i > 1 => Kept(x.previous[i], u[i - 1]))
  <2>1. i \in 1..l /\ i # l /\ (i > 1 => i - 1 \in 1..l /\ i - 1 # l)
    BY <1>1, SMT
  <2>2. u[i] = t[i] /\ (i > 1 => u[i - 1] = t[i - 1])
    BY <1>2, <2>1
  <2> QED BY <2>2 DEF ToldOK
<1> HIDE DEF l, n
<1>7. ToldOK(y, u)
  <2>1. Len(u) = Len(y.previous) + 1
    BY <1>1, <1>2, <1>3 DEF n
  <2> QED BY <1>2, <1>3, <1>4, <1>5, <1>6, <2>1 DEF ToldOK, n
<1> QED BY <1>7 DEF u

LEMMA CompressKeepsTold ==
    ASSUME NEW y, ContextOK(y), NEW z, NEW t, ToldOK(y, t), Compressed(y, z)
    PROVE  ToldOK(z, Append(t, Nothing))
<1> DEFINE q == y.previous
           r == z.previous
           n == Len(q)
           l == Len(t)
           u == Append(t, Nothing)
<1>1. PICK p : /\ r = Append(q, p)
               /\ \A g : (Holds(y, g) => Holds(p, g)) /\ (Kept(y, g) => Kept(p, g))
               /\ \A g : Holds(y, g) => Kept(z, g)
  BY DEF Compressed
<1>2. n \in Nat /\ l \in Nat \ {0} /\ l = n + 1
  BY ToldLength
<1>3. IsSeq(q) /\ IsSeq(t)
  BY DEF ContextOK, ToldOK
<1>4. /\ Holds(y, t[l]) /\ (l > 1 => Kept(y, t[l - 1]))
      /\ \A i \in 1..n : Holds(q[i], t[i]) /\ (i > 1 => Kept(q[i], t[i - 1]))
  BY DEF ToldOK
<1> HIDE DEF q, r
<1>5. Len(r) = n + 1 /\ (\A i \in 1..n : r[i] = q[i]) /\ r[n + 1] = p
  BY <1>1, <1>3, SeqGrows
<1>6. IsSeq(u) /\ Len(u) = l + 1 /\ (\A i \in 1..l : u[i] = t[i]) /\ u[l + 1] = Nothing
  <2> DEFINE v == Nothing
  <2> HIDE DEF v
  <2>1. /\ IsSeq(Append(t, v)) /\ Len(Append(t, v)) = l + 1
        /\ (\A i \in 1..l : Append(t, v)[i] = t[i]) /\ Append(t, v)[l + 1] = v
    <3>1. IsSeq(t)
      BY <1>3
    <3>2. /\ IsSeq(Append(t, v)) /\ Len(t) \in Nat /\ Len(Append(t, v)) = Len(t) + 1
          /\ (\A i \in 1..Len(t) : Append(t, v)[i] = t[i])
          /\ Append(t, v)[Len(t) + 1] = v
      BY <3>1, SeqGrows, SMT
    <3> QED BY <3>2
  <2> QED BY <2>1 DEF v
<1> HIDE DEF u, n, l
<1>7. Len(u) = Len(r) + 1
  BY <1>2, <1>5, <1>6
<1>8. Holds(z, u[Len(u)])
  BY <1>6, NothingIsEmpty DEF Holds
<1>9. Kept(z, u[Len(u) - 1])
  <2>1. Len(u) - 1 = l /\ l \in 1..l
    BY <1>2, <1>6, SMT
  <2>2. u[Len(u) - 1] = t[l]
    BY <1>6, <2>1
  <2> QED BY <1>1, <1>4, <2>2
<1>10. ASSUME NEW i \in 1..Len(r) PROVE Holds(r[i], u[i]) /\ (i > 1 => Kept(r[i], u[i - 1]))
  <2>1. i \in 1..n \/ i = l
    BY <1>2, <1>5, SMT
  <2>2. i \in 1..l /\ (i > 1 => i - 1 \in 1..l)
    BY <1>2, <1>5, SMT
  <2>3. u[i] = t[i] /\ (i > 1 => u[i - 1] = t[i - 1])
    BY <1>6, <2>2
  <2>4. CASE i \in 1..n
    BY <1>4, <1>5, <2>3, <2>4
  <2>5. CASE i = l
    <3>1. r[i] = p
      BY <1>2, <1>5, <2>5
    <3> QED BY <1>1, <1>4, <2>3, <2>5, <3>1
  <2> QED BY <2>1, <2>4, <2>5
<1>11. ToldOK(z, u)
  BY <1>6, <1>7, <1>8, <1>9, <1>10 DEF ToldOK, r
<1> QED BY <1>11 DEF u

LEMMA RollbackKeepsTold ==
    ASSUME NEW x, ContextOK(x), NEW y, NEW t, ToldOK(x, t), x.previous # <<>>,
           y.previous = SubSeq(x.previous, 1, Len(x.previous) - 1),
           \A g : LET p == x.previous[Len(x.previous)] IN
               (Holds(p, g) => Holds(y, g)) /\ (Kept(p, g) => Kept(y, g))
    PROVE  ToldOK(y, Untell(t))
<1> DEFINE q == x.previous
           r == y.previous
           n == Len(q)
           l == Len(t)
           p == q[n]
           u == Untell(t)
<1>1. n \in Nat /\ l \in Nat \ {0} /\ l = n + 1
  BY ToldLength
<1>2. IsSeq(q) /\ IsSeq(t)
  BY DEF ContextOK, ToldOK
<1>3. \A i \in 1..n : Holds(q[i], t[i]) /\ (i > 1 => Kept(q[i], t[i - 1]))
  BY DEF ToldOK
<1>4. \A g : (Holds(p, g) => Holds(y, g)) /\ (Kept(p, g) => Kept(y, g))
  OBVIOUS
<1>5. q # <<>> /\ r = SubSeq(q, 1, Len(q) - 1)
  OBVIOUS
<1> HIDE DEF q, r
<1>6. n \in Nat \ {0} /\ Len(r) = n - 1 /\ \A i \in 1..Len(r) : i \in 1..n /\ r[i] = q[i]
  BY <1>2, <1>5, SeqShrinks
<1>7. t # <<>>
  <2>1. Len(<<>>) = 0
    BY SMT
  <2> QED BY <1>1, <2>1
<1>8. IsSeq(u) /\ Len(u) = l - 1 /\ \A i \in 1..Len(u) : u[i] = t[i]
  BY <1>2, <1>7, SeqShrinks DEF Untell
<1> HIDE DEF u, n, l
<1>9. Len(u) = n /\ Len(u) = Len(r) + 1
  BY <1>1, <1>6, <1>8, SMT
<1>10. Holds(y, u[Len(u)])
  <2>1. n \in 1..n
    BY <1>6, SMT
  <2> QED BY <1>3, <1>4, <1>8, <1>9, <2>1
<1>11. ASSUME Len(u) > 1 PROVE Kept(y, u[Len(u) - 1])
  <2>1. n \in 1..n /\ n - 1 \in 1..n /\ n > 1
    BY <1>6, <1>9, <1>11, SMT
  <2>2. u[Len(u) - 1] = t[n - 1]
    BY <1>8, <1>9, <2>1
  <2> QED BY <1>3, <1>4, <2>1, <2>2
<1>12. ASSUME NEW i \in 1..Len(r) PROVE Holds(r[i], u[i]) /\ (i > 1 => Kept(r[i], u[i - 1]))
  <2>1. i \in 1..n /\ (i > 1 => i - 1 \in 1..n)
    BY <1>6, SMT
  <2>2. r[i] = q[i] /\ u[i] = t[i] /\ (i > 1 => u[i - 1] = t[i - 1])
    BY <1>6, <1>8, <1>9, <2>1
  <2> QED BY <1>3, <2>1, <2>2
<1>13. ToldOK(y, u)
  BY <1>8, <1>9, <1>10, <1>11, <1>12 DEF ToldOK, r
<1> QED BY <1>13 DEF u

-----------------------------------------------------------------------------
(* The execution cache: the tokens of an entry are those of the content    *)
(* its key spells out.                                                     *)
KeyTokens(key) == Weight(key[3]) + Weight(key[6]) + Size(key[4])
CacheOK == (\A e \in builds : e.tokens = KeyTokens(e.key)) /\ HitIsExact

DataOK ==
    /\ DOMAIN ctx = Contexts /\ DOMAIN told = Contexts
    /\ \A c \in Contexts : ContextOK(ctx[c]) /\ ToldOK(ctx[c], told[c])

IndInv == OrderOK /\ DataOK /\ CacheOK /\ steps \in 0..MaxSteps

LEMMA NewIsOK == ContextOK(NewContext) /\ ToldOK(NewContext, Untold)
<1> DEFINE x == NewContext
           t == Untold
<1>1. /\ DOMAIN x = Fields /\ x.version = 0 /\ x.compressed = FALSE /\ x.previous = <<>>
      /\ x.deltaShared = Nothing /\ x.deltaPrivate = Nothing
  BY DEF NewContext, Fields
<1> HIDE DEF x
<1>2. 0 \in Nat /\ Len(<<>>) = 0 /\ <<>> \in Seq(Range(<<>>)) /\ 1..0 = {} /\ 0 + 1 = 1 /\ ~(1 > 1)
  BY SMT
<1>3. OverSummary(x)
  BY <1>1 DEF OverSummary
<1>4. ContextOK(x)
  BY <1>1, <1>2, <1>3 DEF ContextOK, IsSeq
<1>5. Len(t) = 1 /\ t[1] = Nothing /\ IsSeq(t)
  <2>1. DOMAIN t = {1} /\ t[1] = Nothing /\ Len(t) = 1
    BY SMT DEF Untold
  <2>2. Nothing \in Range(t)
    BY <2>1 DEF Range
  <2>3. t \in Seq(Range(t))
    BY <2>2, SMT DEF Untold
  <2> QED BY <2>1, <2>3 DEF IsSeq
<1> HIDE DEF t
<1>6. Holds(x, Nothing)
  BY NothingIsEmpty DEF Holds
<1>7. ToldOK(x, t)
  BY <1>1, <1>2, <1>5, <1>6 DEF ToldOK
<1> QED BY <1>4, <1>7 DEF x, t

LEMMA InitOK == Init => IndInv
<1> SUFFICES ASSUME Init PROVE IndInv
  OBVIOUS
<1>1. OrderOK
  <2>1. order = <<>> /\ used = <<>> /\ expired = {}
    BY DEF Init
  <2>2. <<>> \in Seq(Contexts) /\ Len(<<>>) = 0 /\ 0 <= MaxContexts /\ 0 \in 0..0 /\ 0 = 0 - 0 /\ 1..0 = {}
    BY ContextManagerIsTyped, SMT
  <2>3. IsInjective(<<>>)
    BY SMT DEF IsInjective
  <2>4. InFront({}, <<>>)
    BY DEF InFront
  <2>5. Drops(<<>>, <<>>, 0)
    BY <2>2 DEF Drops
  <2> QED BY <2>1, <2>2, <2>3, <2>4, <2>5 DEF OrderOK
<1>2. DataOK
  BY NewIsOK DEF Init, DataOK
<1>3. CacheOK
  BY DEF Init, CacheOK, HitIsExact, Unserved
<1>4. steps \in 0..MaxSteps
  BY ContextManagerIsTyped, SMT DEF Init
<1> QED BY <1>1, <1>2, <1>3, <1>4 DEF IndInv

LEMMA CalledOK == ASSUME steps \in 0..MaxSteps, Called PROVE steps' \in 0..MaxSteps
BY ContextManagerIsTyped, SMT DEF Called

-----------------------------------------------------------------------------
(* record_task_context.                                                    *)
LEMMA WrittenOK ==
    ASSUME NEW x, ContextOK(x), NEW a \in Agents, NEW f, NEW p, NEW r
    PROVE  LET y == WriteReadonly(WritePrivate(WriteShared(x, f), a, p), r)
               w == [y EXCEPT !.summary = SummaryOf(y)] IN
           ContextOK(w) /\ Wrote(x, w, f)
<1> DEFINE x1 == WriteShared(x, f)
           x2 == WritePrivate(x1, a, p)
           y == WriteReadonly(x2, r)
           w == [y EXCEPT !.summary = SummaryOf(y)]
<1>1. ContextOK(x1) /\ Wrote(x, x1, f)
  BY SharedWritten
<1> HIDE DEF x1
<1>2. ContextOK(x2) /\ SameShared(x1, x2)
  BY <1>1, PrivateWritten
<1> HIDE DEF x2
<1>3. ContextOK(y) /\ SameShared(x2, y)
  BY <1>2, ReadonlyWritten
<1> HIDE DEF y
<1>4. ContextOK(w) /\ SameShared(y, w)
  BY <1>3, LabelsWritten
<1> HIDE DEF w
<1>5. SameShared(x1, w)
  BY <1>2, <1>3, <1>4 DEF SameShared
<1>6. Wrote(x, w, f)
  <2>1. w.previous = x1.previous
    BY <1>5 DEF SameShared
  <2>2. MergedShared(w) = MergedShared(x1) /\ \A g : Kept(x1, g) => Kept(w, g)
    BY <1>5, SameIsSame
  <2> QED BY <1>1, <2>1, <2>2 DEF Wrote
<1> QED BY <1>4, <1>6 DEF w, y, x2, x1

LEMMA RecordedOK ==
    ASSUME NEW x, ContextOK(x), NEW w, ContextOK(w), NEW f, Wrote(x, w, f), NEW t, ToldOK(x, t), NEW key
    PROVE  LET z == CompressIfNeeded(w)
               u == IF z.previous = x.previous THEN Retold(t, f) ELSE Append(Retold(t, f), Nothing) IN
           ContextOK([z EXCEPT !.prefixKey = key]) /\ ToldOK([z EXCEPT !.prefixKey = key], u)
<1> DEFINE z == CompressIfNeeded(w)
           s == Retold(t, f)
           u == IF z.previous = x.previous THEN s ELSE Append(s, Nothing)
<1>1. ToldOK(w, s)
  BY WriteKeepsTold
<1>2. ContextOK(z) /\ (z = w \/ Compressed(w, z))
  BY CompressEffect
<1> HIDE DEF z, s
<1>3. w.previous = x.previous
  BY DEF Wrote
<1>4. ToldOK(z, u)
  <2>1. CASE z = w
    BY <1>1, <1>3, <2>1
  <2>2. CASE Compressed(w, z)
    <3>1. PICK p : z.previous = Append(w.previous, p)
      BY <2>2 DEF Compressed
    <3>2. z.previous # x.previous
      <4>1. IsSeq(w.previous)
        BY DEF ContextOK
      <4>2. Len(w.previous) \in Nat /\ Len(Append(w.previous, p)) = Len(w.previous) + 1
        BY <4>1, SeqGrows
      <4>3. \A n \in Nat : n + 1 # n
        BY SMT
      <4> QED BY <1>3, <3>1, <4>2, <4>3
    <3>3. ToldOK(z, Append(s, Nothing))
      BY <1>1, <2>2, CompressKeepsTold
    <3> QED BY <3>2, <3>3
  <2> QED BY <1>2, <2>1, <2>2
<1> HIDE DEF u
<1>5. ContextOK([z EXCEPT !.prefixKey = key]) /\ SameShared(z, [z EXCEPT !.prefixKey = key])
  BY <1>2, LabelsWritten
<1>6. ToldOK([z EXCEPT !.prefixKey = key], u)
  BY <1>4, <1>5, SameTold
<1> QED BY <1>5, <1>6 DEF z, u, s

LEMMA RecordKeepsData ==
    ASSUME DataOK, NEW c \in Contexts, NEW a \in Agents, NEW f, NEW p, NEW r, Record(c, a, f, p, r)
    PROVE  DataOK'
<1> DEFINE x == ctx[c]
           t == told[c]
           y == WriteReadonly(WritePrivate(WriteShared(x, f), a, p), r)
           w == [y EXCEPT !.summary = SummaryOf(y)]
           z == CompressIfNeeded(w)
           n == [z EXCEPT !.prefixKey = CacheKey(c, z)]
           u == IF z.previous = x.previous THEN Retold(t, f) ELSE Append(Retold(t, f), Nothing)
<1>1. ContextOK(x) /\ ToldOK(x, t)
  BY DEF DataOK
<1>2. /\ ctx' = [d \in Contexts |-> IF d \notin Range(order') THEN NewContext ELSE IF d = c THEN n ELSE ctx[d]]
      /\ told' = [d \in Contexts |-> IF d \notin Range(order') THEN Untold ELSE IF d # c THEN told[d] ELSE u]
  BY DEF Record, Retold
<1> HIDE DEF x, t
<1>3. ContextOK(w) /\ Wrote(x, w, f)
  BY <1>1, WrittenOK
<1> HIDE DEF w
<1>5. ContextOK(n) /\ ToldOK(n, u)
  BY <1>1, <1>3, RecordedOK
<1> HIDE DEF n, u
<1>6. ASSUME NEW d \in Contexts
      PROVE  ContextOK(ctx'[d]) /\ ToldOK(ctx'[d], told'[d])
  <2>1. CASE d \notin Range(order')
    <3>1. ctx'[d] = NewContext /\ told'[d] = Untold
      BY <1>2, <2>1
    <3> QED BY <3>1, NewIsOK
  <2>2. CASE d \in Range(order') /\ d = c
    <3>1. ctx'[d] = n /\ told'[d] = u
      BY <1>2, <2>2
    <3> QED BY <1>5, <3>1
  <2>3. CASE d \in Range(order') /\ d # c
    <3>1. ctx'[d] = ctx[d] /\ told'[d] = told[d]
      BY <1>2, <2>3
    <3> QED BY <3>1 DEF DataOK
  <2> QED BY <2>1, <2>2, <2>3
<1>7. DOMAIN ctx' = Contexts /\ DOMAIN told' = Contexts
  BY <1>2
<1> QED BY <1>6, <1>7 DEF DataOK

LEMMA RecordKeepsOrder ==
    ASSUME OrderOK, NEW c \in Contexts, NEW a, NEW f, NEW p, NEW r, Record(c, a, f, p, r)
    PROVE  OrderOK'
<1> DEFINE q == Touched(c)
<1>1. Used(c) /\ order' = EvictLru(EvictExpired(q, c)) /\ expired' = (expired \ {c}) \intersect Range(order')
  BY DEF Record
<1>2. /\ used' \in Seq(Contexts) /\ IsInjective(used')
      /\ q \in Seq(Contexts) /\ IsInjective(q) /\ Len(q) > 0 /\ q[Len(q)] = c
      /\ InFront(expired \ {c}, q)
  BY <1>1, TouchFacts
<1>3. PICK k \in 0..Len(used') : Drops(used', q, k)
  BY <1>1, TouchFacts
<1> HIDE DEF q
<1>4. /\ order' \in Seq(Contexts) /\ Len(order') <= MaxContexts /\ IsInjective(order')
      /\ Range(order') \intersect (expired \ {c}) = {}
      /\ \E l \in 0..Len(q) : Drops(q, order', l)
  BY <1>1, <1>2, EvictFacts
<1>5. PICK l \in 0..Len(q) : Drops(q, order', l)
  BY <1>4
<1>6. k + l \in 0..Len(used') /\ Drops(used', order', k + l)
  BY <1>2, <1>3, <1>4, <1>5, DropsTwice
<1>7. expired' = {}
  BY <1>1, <1>4
<1>8. InFront(expired', order')
  BY <1>7 DEF InFront
<1> QED BY <1>2, <1>4, <1>6, <1>7, <1>8 DEF OrderOK

LEMMA RecordKeepsInv ==
    ASSUME IndInv, NEW c \in Contexts, NEW a \in Agents, NEW f, NEW p, NEW r, Record(c, a, f, p, r)
    PROVE  IndInv'
<1>1. OrderOK'
  BY RecordKeepsOrder DEF IndInv
<1>2. DataOK'
  BY RecordKeepsData DEF IndInv
<1>3. CacheOK'
  BY DEF IndInv, Record, CacheOK, HitIsExact
<1>4. steps' \in 0..MaxSteps
  BY CalledOK DEF IndInv, Record
<1> QED BY <1>1, <1>2, <1>3, <1>4 DEF IndInv

-----------------------------------------------------------------------------
(* build_agent_context.                                                    *)
LEMMA BuildKeepsCache ==
    ASSUME CacheOK, NEW c \in Contexts, NEW a \in Agents, Build(c, a)
    PROVE  CacheOK'
<1> DEFINE x == ctx[c]
           private == At(MergedPrivate(x), a)
           tokens == Weight(MergedShared(x)) + Weight(private) + Size(x.readonly)
           full == FullCacheKey(c, x, a, private)
           hits == Cached(builds, full)
           e == [key |-> full, tokens |-> tokens]
<1>1. builds' = {b \in builds : b.key # full} \union {e}
  BY DEF Build, Put
<1>2. served'.hit = (hits # {}) /\ served'.tokens = tokens
      /\ (hits # {} => served'.reused = (CHOOSE b \in hits : TRUE).tokens)
  BY DEF Build
<1>3. tokens = KeyTokens(full)
  <2>1. full[3] = MergedShared(x) /\ full[6] = private /\ full[4] = x.readonly
    BY SMT DEF FullCacheKey
  <2> QED BY <2>1 DEF KeyTokens
<1>4. e.key = full /\ e.tokens = tokens
  OBVIOUS
<1> HIDE DEF e, full, tokens
<1>5. \A b \in builds' : b.tokens = KeyTokens(b.key)
  BY <1>1, <1>3, <1>4 DEF CacheOK
<1>6. ASSUME hits # {} PROVE (CHOOSE b \in hits : TRUE).tokens = tokens
  <2>1. (CHOOSE b \in hits : TRUE) \in hits
    BY <1>6
  <2> QED BY <1>3, <2>1 DEF Cached, CacheOK
<1>7. HitIsExact'
  BY <1>2, <1>6 DEF HitIsExact
<1> QED BY <1>5, <1>7 DEF CacheOK

LEMMA BuildKeepsInv == ASSUME IndInv, NEW c \in Contexts, NEW a \in Agents, Build(c, a) PROVE IndInv'
<1>1. Used(c) /\ Known(c) /\ order' = Touched(c) /\ expired' = expired \ {c}
  BY DEF Build
<1>2. /\ used' \in Seq(Contexts) /\ IsInjective(used')
      /\ order' \in Seq(Contexts) /\ IsInjective(order') /\ Len(order') = Len(order)
      /\ expired' \subseteq Range(order') /\ InFront(expired', order')
      /\ \E k \in 0..Len(used') : Drops(used', order', k)
  BY <1>1, TouchFacts DEF IndInv
<1>3. OrderOK'
  BY <1>2 DEF OrderOK, IndInv
<1>4. DataOK'
  BY DEF Build, DataOK, IndInv
<1>5. CacheOK'
  BY BuildKeepsCache DEF IndInv
<1>6. steps' \in 0..MaxSteps
  BY CalledOK DEF IndInv, Build
<1> QED BY <1>3, <1>4, <1>5, <1>6 DEF IndInv

-----------------------------------------------------------------------------
(* rollback_context.                                                       *)
LEMMA RestoredOK ==
    ASSUME NEW x, ContextOK(x), x.previous # <<>>
    PROVE  LET p == x.previous[Len(x.previous)]
               y == Restored(x, p) IN
           /\ ContextOK(y) /\ y.previous = SubSeq(x.previous, 1, Len(x.previous) - 1)
           /\ \A g : (Holds(p, g) => Holds(y, g)) /\ (Kept(p, g) => Kept(y, g))
<1> DEFINE q == x.previous
           r == SubSeq(q, 1, Len(q) - 1)
           p == q[Len(q)]
           y == Restored(x, p)
<1>1. IsSeq(q) /\ x.version \in Nat /\ \A i \in 1..Len(q) : OverSummary(q[i])
  BY DEF ContextOK
<1>2. /\ DOMAIN y = Fields /\ y.version = x.version + 1 /\ y.compressed = p.compressed
      /\ y.previous = r /\ y.shared = p.shared /\ y.deltaShared = p.deltaShared
      /\ y.deltaPrivate = p.deltaPrivate
  BY DEF Restored, Fields
<1> HIDE DEF q
<1>3. /\ IsSeq(r) /\ Len(q) \in Nat \ {0} /\ Len(r) = Len(q) - 1
      /\ \A i \in 1..Len(r) : i \in 1..Len(q) /\ r[i] = q[i]
  <2>1. q # <<>>
    BY DEF q
  <2> QED BY <1>1, <2>1, SeqShrinks
<1> HIDE DEF r, p, y
<1>4. Len(q) \in 1..Len(q) /\ x.version + 1 \in Nat
  BY <1>1, <1>3, SMT
<1>5. OverSummary(p)
  BY <1>1, <1>4 DEF p
<1>6. OverSummary(y)
  BY <1>2, <1>5 DEF OverSummary
<1>7. \A i \in 1..Len(r) : OverSummary(r[i])
  BY <1>1, <1>3
<1>8. ContextOK(y)
  BY <1>2, <1>3, <1>4, <1>6, <1>7 DEF ContextOK
<1>9. MergedShared(y) = MergedShared(p)
  BY <1>2 DEF MergedShared
<1>10. \A g : (Holds(p, g) => Holds(y, g)) /\ (Kept(p, g) => Kept(y, g))
  BY <1>2, <1>9 DEF Holds, Kept
<1> QED BY <1>2, <1>8, <1>10 DEF y, p, r, q

LEMMA RollbackKeepsData == ASSUME DataOK, NEW c \in Contexts, Rollback(c) PROVE DataOK'
<1> DEFINE x == ctx[c]
           t == told[c]
           p == x.previous[Len(x.previous)]
           y == Restored(x, p)
           n == [y EXCEPT !.prefixKey = RollbackKey(c, y)]
           u == Untell(t)
<1>1. /\ ContextOK(x) /\ ToldOK(x, t)
      /\ DOMAIN ctx = Contexts /\ DOMAIN told = Contexts
  BY DEF DataOK
<1>2. x.previous # <<>> /\ ctx' = [ctx EXCEPT ![c] = n] /\ told' = [told EXCEPT ![c] = u]
  <2>1. x.previous # <<>> /\ ctx' = [ctx EXCEPT ![c] = n]
    BY DEF Rollback
  <2>2. told' = [told EXCEPT ![c] = u]
    BY DEF Rollback
  <2> QED BY <2>1, <2>2
<1> HIDE DEF x, t
<1>3. /\ ContextOK(y) /\ y.previous = SubSeq(x.previous, 1, Len(x.previous) - 1)
      /\ \A g : (Holds(p, g) => Holds(y, g)) /\ (Kept(p, g) => Kept(y, g))
  BY <1>1, <1>2, RestoredOK
<1> HIDE DEF y
<1>6. ToldOK(y, u)
  BY <1>1, <1>2, <1>3, RollbackKeepsTold
<1> HIDE DEF u
<1>7. ContextOK(n) /\ SameShared(y, n)
  BY <1>3, LabelsWritten
<1> HIDE DEF n
<1>8. ToldOK(n, u)
  BY <1>6, <1>7, SameTold
<1>9. ASSUME NEW d \in Contexts
      PROVE  ContextOK(ctx'[d]) /\ ToldOK(ctx'[d], told'[d])
  <2>1. CASE d = c
    <3>1. ctx'[d] = n /\ told'[d] = u
      BY <1>1, <1>2, <2>1
    <3> QED BY <1>7, <1>8, <3>1
  <2>2. CASE d # c
    <3>1. ctx'[d] = ctx[d] /\ told'[d] = told[d]
      BY <1>1, <1>2, <2>2
    <3> QED BY <3>1 DEF DataOK
  <2> QED BY <2>1, <2>2
<1>10. DOMAIN ctx' = Contexts /\ DOMAIN told' = Contexts
  BY <1>1, <1>2
<1> QED BY <1>9, <1>10 DEF DataOK

LEMMA RollbackKeepsInv == ASSUME IndInv, NEW c \in Contexts, Rollback(c) PROVE IndInv'
<1>1. OrderOK'
  BY DEF IndInv, Rollback, OrderOK
<1>2. DataOK'
  BY RollbackKeepsData DEF IndInv
<1>3. CacheOK'
  BY DEF IndInv, Rollback, CacheOK, HitIsExact
<1>4. steps' \in 0..MaxSteps
  BY CalledOK DEF IndInv, Rollback
<1> QED BY <1>1, <1>2, <1>3, <1>4 DEF IndInv

-----------------------------------------------------------------------------
LEMMA TimeKeepsInv == ASSUME IndInv, TimePasses PROVE IndInv'
<1>1. PICK n \in 1..Len(order) : expired' = expired \union Range(SubSeq(order, 1, n))
  BY DEF TimePasses
<1>2. order' = order /\ used' = used
  BY DEF TimePasses
<1>3. order \in Seq(Contexts) /\ DOMAIN order = 1..Len(order) /\ Len(order) \in Nat
  <2>1. order \in Seq(Contexts)
    BY DEF IndInv, OrderOK
  <2> QED BY <2>1, SMT
<1>4. Range(SubSeq(order, 1, n)) = {order[i] : i \in 1..n}
  <2> DEFINE r == SubSeq(order, 1, n)
  <2>1. n \in Nat /\ n <= Len(order)
    BY <1>3, SMT
  <2>2. r \in Seq(Contexts) /\ Len(r) = n /\ \A i \in 1..n : r[i] = order[i]
    BY <1>3, <2>1, SMT
  <2> HIDE DEF r
  <2>3. DOMAIN r = 1..n
    BY <2>2, SMT
  <2>4. Range(r) = {order[i] : i \in 1..n}
    BY <2>2, <2>3 DEF Range
  <2> QED BY <2>4 DEF r
<1>5. 1..n \subseteq 1..Len(order)
  BY <1>3, SMT
<1>6. expired' \subseteq Range(order)
  <2>1. {order[i] : i \in 1..n} \subseteq Range(order)
    BY <1>3, <1>5 DEF Range
  <2> QED BY <1>1, <1>4, <2>1 DEF IndInv, OrderOK
<1>7. ASSUME NEW i \in 1..Len(order), NEW j \in 1..Len(order), i <= j, order[j] \in expired'
      PROVE  order[i] \in expired'
  <2>1. CASE order[j] \in expired
    <3>1. order[i] \in expired
      BY <1>7, <2>1 DEF IndInv, OrderOK, InFront
    <3> QED BY <1>1, <3>1
  <2>2. CASE order[j] \in {order[k] : k \in 1..n}
    <3>1. PICK k \in 1..n : order[j] = order[k]
      BY <2>2
    <3>2. j = k
      BY <1>3, <1>5, <3>1 DEF IndInv, OrderOK, IsInjective
    <3>3. i \in 1..n
      BY <1>3, <1>7, <3>2, SMT
    <3> QED BY <1>1, <1>4, <3>3
  <2> QED BY <1>1, <1>4, <1>7, <2>1, <2>2
<1>8. OrderOK'
  BY <1>2, <1>6, <1>7 DEF IndInv, OrderOK, InFront
<1>9. DataOK' /\ CacheOK' /\ steps' \in 0..MaxSteps
  BY DEF TimePasses, IndInv, DataOK, CacheOK, HitIsExact
<1> QED BY <1>8, <1>9 DEF IndInv

LEMMA NextKeepsInv == IndInv /\ [Next]_vars => IndInv'
<1> SUFFICES ASSUME IndInv, [Next]_vars PROVE IndInv'
  OBVIOUS
<1>1. ASSUME NEW c \in Contexts, NEW a \in Agents, RecordTask(c, a) PROVE IndInv'
  BY <1>1, RecordKeepsInv DEF RecordTask
<1>2. ASSUME NEW c \in Contexts, NEW a \in Agents, RecordRecovery(c, a) PROVE IndInv'
  BY <1>2, RecordKeepsInv DEF RecordRecovery
<1>3. ASSUME NEW c \in Contexts, NEW a \in Agents, Build(c, a) PROVE IndInv'
  BY <1>3, BuildKeepsInv
<1>4. ASSUME NEW c \in Contexts, Rollback(c) PROVE IndInv'
  BY <1>4, RollbackKeepsInv
<1>5. ASSUME TimePasses PROVE IndInv'
  BY <1>5, TimeKeepsInv
<1>6. ASSUME UNCHANGED vars PROVE IndInv'
  BY <1>6 DEF vars, IndInv, OrderOK, DataOK, CacheOK, HitIsExact
<1> QED BY <1>1, <1>2, <1>3, <1>4, <1>5, <1>6 DEF Next

(* ContextManager keeps each context once, at most max_contexts of them,   *)
(* only those it knows expire, and data is kept as a delta only on top of  *)
(* a summary, after any calls.                                             *)
THEOREM Invariance == Spec => [](IndInv /\ TypeOK)
<1>1. IndInv => TypeOK
  <2> SUFFICES ASSUME IndInv PROVE TypeOK
    OBVIOUS
  <2>1. order \in Seq(Contexts) /\ IsInjective(order) /\ Len(order) <= MaxContexts /\ expired \subseteq Range(order)
    BY DEF IndInv, OrderOK
  <2>2. Range(order) \subseteq Contexts
    BY <2>1, SMT DEF Range
  <2>3. ASSUME NEW c \in Range(order)
        PROVE  /\ ctx[c].version \in Nat /\ ctx[c].compressed \in BOOLEAN
               /\ ~ctx[c].compressed => ctx[c].deltaShared = Nothing /\ ctx[c].deltaPrivate = Nothing
    <3>1. c \in Contexts
      BY <2>2
    <3> QED BY <3>1 DEF IndInv, DataOK, ContextOK, OverSummary
  <2> QED BY <2>1, <2>2, <2>3 DEF TypeOK, IndInv
<1> QED BY <1>1, InitOK, NextKeepsInv, PTL DEF Spec

(* _compress_if_needed and rollback_context lose none of the important     *)
(* shared values written since the last compression, nor, but to a client  *)
(* that writes the summary's key `important`, of those before it.          *)
THEOREM ImportantAlwaysSurvives == Spec => []ImportantSurvives
<1>1. IndInv => ImportantSurvives
  <2> SUFFICES ASSUME IndInv, NEW c \in Range(order)
               PROVE  LET d == MergedShared(ctx[c])
                          n == Len(told[c]) IN
                      /\ \A k \in DOMAIN told[c][n] : k \in DOMAIN d /\ d[k] = told[c][n][k]
                      /\ n > 1 /\ "important" \notin DOMAIN ctx[c].deltaShared =>
                          \A k \in DOMAIN told[c][n - 1] :
                              /\ "important" \in DOMAIN d /\ k \in DOMAIN d["important"].kept
                              /\ d["important"].kept[k] = told[c][n - 1][k]
    BY DEF ImportantSurvives
  <2> DEFINE x == ctx[c]
             t == told[c]
             n == Len(t)
             d == MergedShared(x)
  <2>1. order \in Seq(Contexts)
    BY DEF IndInv, OrderOK
  <2>2. c \in Contexts
    BY <2>1, SMT DEF Range
  <2>3. ToldOK(x, t)
    BY <2>2 DEF IndInv, DataOK
  <2>4. \A k \in DOMAIN t[n] : k \in DOMAIN d /\ d[k] = t[n][k]
    BY <2>3 DEF ToldOK, Holds
  <2>5. ASSUME n > 1, "important" \notin DOMAIN x.deltaShared, NEW k \in DOMAIN t[n - 1]
        PROVE  /\ "important" \in DOMAIN d /\ k \in DOMAIN d["important"].kept
               /\ d["important"].kept[k] = t[n - 1][k]
    <3>1. Kept(x, t[n - 1])
      BY <2>3, <2>5 DEF ToldOK
    <3>2. Extended(x.shared, x.deltaShared, d)
      BY MergeExtends DEF MergedShared
    <3> HIDE DEF d
    <3>3. "important" \in DOMAIN d /\ d["important"] = x.shared["important"]
      BY <2>5, <3>1, <3>2 DEF Extended, Kept
    <3> QED BY <2>5, <3>1, <3>3 DEF Kept
  <2> QED BY <2>4, <2>5
<1> QED BY <1>1, Invariance, PTL

(* A hit in _execution_cache is one for the content that is asked for,     *)
(* although versions start again with a context that was evicted.          *)
THEOREM HitsAlwaysExact == Spec => []HitIsExact
<1>1. IndInv => HitIsExact
  BY DEF IndInv, CacheOK
<1> QED BY <1>1, Invariance, PTL

(* _evict_expired and _evict_lru together leave what was used last.        *)
THEOREM LatestAlwaysKept == Spec => []KeptAreLatest
<1>1. IndInv => KeptAreLatest
  <2> SUFFICES ASSUME IndInv PROVE KeptAreLatest
    OBVIOUS
  <2>1. order \in Seq(Contexts) /\ used \in Seq(Contexts)
    BY DEF IndInv, OrderOK
  <2>2. PICK k \in 0..Len(used) : Drops(used, order, k)
    BY DEF IndInv, OrderOK
  <2>3. order = SubSeq(used, k + 1, Len(used))
    BY <2>1, <2>2, DropsFacts
  <2>4. k + 1 \in 1..(Len(used) + 1)
    BY <2>1, SMT
  <2> QED BY <2>3, <2>4 DEF KeptAreLatest
<1> QED BY <1>1, Invariance, PTL
=============================================================================
