--------------------------- MODULE Counting_proofs ---------------------------
(***************************************************************************)
(* Facts about finite sets of places and the sequences listed from them,   *)
(* about sums over a finite set, and the least number principle.           *)
(***************************************************************************)
EXTENDS Listing, Sequences, FiniteSetTheorems, SequenceTheorems, TLAPS

\* The least number principle stands in for induction, whose theorems take an
\* operator.
LEMMA LeastNat ==
  ASSUME NEW T \in SUBSET Nat, T # {}
  PROVE  \E n \in T : \A m \in T : n <= m
<1> DEFINE R == {ss \in Nat \X Nat : ss[1] < ss[2]}
<1>1. IsWellFoundedOn(R, Nat)
  BY NatLessThanWellFounded DEF OpToRel
<1> HIDE DEF R
<1>2. PICK n \in T : \A m \in T : ~ (<<m, n>> \in R)
  BY <1>1, WFMin, Zenon
<1>3. \A m \in T : ~(m < n)
  BY <1>2 DEF R
<1> QED BY <1>3

-----------------------------------------------------------------------------
\* R orders the places J.
IsTotalOrder(R, J) ==
  /\ \A i \in J : <<i, i>> \in R
  /\ \A i, j \in J : <<i, j>> \in R \/ <<j, i>> \in R
  /\ \A i, j \in J : <<i, j>> \in R /\ <<j, i>> \in R => i = j
  /\ \A i, j, k \in J : <<i, j>> \in R /\ <<j, k>> \in R => <<i, k>> \in R

Place(n, J, R) == CHOOSE j \in J : Cardinality({i \in J : <<i, j>> \in R}) = n

\* The n-th place is the one with n places up to it: counting is a bijection.
LEMMA PlacesCounted ==
  ASSUME NEW J, IsFiniteSet(J), NEW R, IsTotalOrder(R, J)
  PROVE  /\ Cardinality(J) \in Nat
         /\ \A n \in 1..Cardinality(J) : Place(n, J, R) \in J
         /\ \A j \in J : \E n \in 1..Cardinality(J) : Place(n, J, R) = j
         /\ \A m, n \in 1..Cardinality(J) :
              m < n => <<Place(m, J, R), Place(n, J, R)>> \in R /\ Place(m, J, R) # Place(n, J, R)
<1> DEFINE c == Cardinality(J)
           Below(j) == {i \in J : <<i, j>> \in R}
           rank == [j \in J |-> Cardinality(Below(j))]
<1>1. c \in Nat
  BY FS_CardinalityType
<1>2. \A j \in J : /\ Below(j) \in SUBSET J /\ IsFiniteSet(Below(j))
                   /\ Cardinality(Below(j)) \in 1..c
  <2> SUFFICES ASSUME NEW j \in J
               PROVE  /\ Below(j) \in SUBSET J /\ IsFiniteSet(Below(j))
                      /\ Cardinality(Below(j)) \in 1..c
    OBVIOUS
  <2>1. Below(j) \in SUBSET J /\ j \in Below(j)
    BY DEF IsTotalOrder
  <2> HIDE DEF Below
  <2>2. IsFiniteSet(Below(j)) /\ Cardinality(Below(j)) <= c /\ Cardinality(Below(j)) \in Nat
    BY <2>1, FS_Subset, FS_CardinalityType
  <2>3. Cardinality(Below(j)) # 0
    BY <2>1, <2>2, FS_EmptySet
  <2> QED BY <1>1, <2>1, <2>2, <2>3
<1>3. ASSUME NEW j \in J, NEW k \in J, <<j, k>> \in R, j # k
      PROVE  Cardinality(Below(j)) < Cardinality(Below(k))
  <2>1. Below(j) \subseteq Below(k) /\ k \in Below(k) /\ k \notin Below(j)
    BY <1>3 DEF IsTotalOrder
  <2> HIDE DEF Below
  <2>2. Cardinality(Below(j)) <= Cardinality(Below(k))
        /\ Cardinality(Below(j)) # Cardinality(Below(k))
    BY <1>2, <2>1, FS_Subset
  <2> QED BY <1>1, <1>2, <2>2
<1>4. rank \in Injection(J, 1..c)
  <2>1. rank \in [J -> 1..c]
    <3> HIDE DEF Below
    <3> QED BY <1>2
  <2>2. ASSUME NEW j \in J, NEW k \in J, j # k PROVE rank[j] # rank[k]
    <3>1. <<j, k>> \in R \/ <<k, j>> \in R
      BY DEF IsTotalOrder
    <3>2. Cardinality(Below(j)) \in Nat /\ Cardinality(Below(k)) \in Nat
      BY <1>1, <1>2
    <3> HIDE DEF Below
    <3>3. Cardinality(Below(j)) # Cardinality(Below(k))
      BY <1>3, <2>2, <3>1, <3>2
    <3> QED BY <3>3
  <2> HIDE DEF rank
  <2> QED BY <2>1, <2>2 DEF Injection, IsInjective
<1>5. rank \in Surjection(J, 1..c)
  <2>1. IsFiniteSet(1..c) /\ Cardinality(1..c) = c
    BY <1>1, FS_Interval
  <2> HIDE DEF rank
  <2> QED BY <1>4, <2>1, FS_Injection
<1>6. ASSUME NEW n \in 1..c PROVE Place(n, J, R) \in J /\ Cardinality(Below(Place(n, J, R))) = n
  <2>1. \E j \in J : rank[j] = n
    <3> HIDE DEF rank
    <3> QED BY <1>5 DEF Surjection
  <2>2. \E j \in J : Cardinality(Below(j)) = n
    BY <2>1
  <2> QED BY <2>2 DEF Place
<1>7. ASSUME NEW j \in J PROVE Place(rank[j], J, R) = j /\ rank[j] \in 1..c
  <2>1. rank[j] \in 1..c
    BY <1>2
  <2>2. Place(rank[j], J, R) \in J /\ rank[Place(rank[j], J, R)] = rank[j]
    BY <1>6, <2>1
  <2> HIDE DEF rank
  <2> QED BY <1>4, <2>1, <2>2 DEF Injection, IsInjective
<1>8. ASSUME NEW m \in 1..c, NEW n \in 1..c, m < n
      PROVE  <<Place(m, J, R), Place(n, J, R)>> \in R /\ Place(m, J, R) # Place(n, J, R)
  <2> DEFINE j == Place(m, J, R)
             k == Place(n, J, R)
  <2>1. j \in J /\ k \in J /\ Cardinality(Below(j)) = m /\ Cardinality(Below(k)) = n
    BY <1>6
  <2> HIDE DEF Below, j, k
  <2>2. j # k
    BY <1>8, <2>1
  <2>3. ~(<<k, j>> \in R)
    BY <1>1, <1>3, <1>8, <2>1, <2>2
  <2>4. <<j, k>> \in R
    BY <2>1, <2>3 DEF IsTotalOrder
  <2> QED BY <2>2, <2>4 DEF j, k
<1> HIDE DEF Below
<1>9. \A j \in J : \E n \in 1..c : Place(n, J, R) = j
  BY <1>7
<1> QED BY <1>1, <1>6, <1>8, <1>9

\* A listing has as many members as places, each from a place of its own, and
\* every place gives one.
LEMMA ListedFacts ==
  ASSUME NEW s, NEW J, IsFiniteSet(J), NEW R, IsTotalOrder(R, J)
  PROVE  /\ Cardinality(J) \in Nat
         /\ \A n \in 1..Cardinality(J) : Listed(s, J, R)[n] = s[Place(n, J, R)]
         /\ \A S : (\A j \in J : s[j] \in S) => Listed(s, J, R) \in Seq(S)
         /\ Len(Listed(s, J, R)) = Cardinality(J)
         /\ Listed(s, J, R) = <<>> <=> J = {}
<1> DEFINE c == Cardinality(J)
           r == [n \in 1..c |-> s[Place(n, J, R)]]
<1>1. Listed(s, J, R) = r
  BY DEF Listed, Place
<1>2. c \in Nat /\ \A n \in 1..c : Place(n, J, R) \in J
  BY PlacesCounted
<1>3. ASSUME NEW S, \A j \in J : s[j] \in S PROVE r \in Seq(S)
  BY <1>2, <1>3
<1>4. Len(r) = c
  <2> DEFINE S == {s[j] : j \in J}
  <2>1. r \in [1..c -> S]
    BY <1>2
  <2> HIDE DEF S, r
  <2> QED BY <1>2, <2>1
<1>5. r = <<>> <=> J = {}
  <2>1. c = 0 <=> J = {}
    BY FS_EmptySet
  <2>2. r \in Seq({s[j] : j \in J})
    BY <1>2
  <2>3. r = <<>> <=> Len(r) = 0
    <3> HIDE DEF r
    <3> QED BY <2>2, EmptySeq
  <2> HIDE DEF r
  <2> QED BY <1>4, <2>1, <2>3
<1>6. \A n \in 1..c : r[n] = s[Place(n, J, R)]
  OBVIOUS
<1> HIDE DEF r
<1> QED BY <1>1, <1>2, <1>3, <1>4, <1>5, <1>6

UpTo(J) == {p \in J \X J : p[1] <= p[2]}

LEMMA KeptFacts ==
  ASSUME NEW s, NEW J \in SUBSET Nat, IsFiniteSet(J)
  PROVE  /\ Cardinality(J) \in Nat
         /\ \A S : (\A j \in J : s[j] \in S) => Kept(s, J) \in Seq(S)
         /\ Len(Kept(s, J)) = Cardinality(J)
         /\ Kept(s, J) = <<>> <=> J = {}
         /\ \A n \in 1..Cardinality(J) : Place(n, J, UpTo(J)) \in J /\ Kept(s, J)[n] = s[Place(n, J, UpTo(J))]
         /\ \A m, n \in 1..Cardinality(J) : m < n => Place(m, J, UpTo(J)) < Place(n, J, UpTo(J))
         /\ \A j \in J : \E n \in 1..Cardinality(J) : Place(n, J, UpTo(J)) = j
<1> DEFINE at(n) == Place(n, J, UpTo(J))
<1>1. \A i, j \in J : <<i, j>> \in UpTo(J) <=> i <= j
  BY DEF UpTo
<1>2. IsTotalOrder(UpTo(J), J)
  BY <1>1 DEF IsTotalOrder
<1>3. Kept(s, J) = Listed(s, J, UpTo(J))
  BY DEF Kept, UpTo
<1>4. /\ Cardinality(J) \in Nat
      /\ \A n \in 1..Cardinality(J) : at(n) \in J
      /\ \A j \in J : \E n \in 1..Cardinality(J) : at(n) = j
      /\ \A m, n \in 1..Cardinality(J) : m < n => <<at(m), at(n)>> \in UpTo(J) /\ at(m) # at(n)
  BY <1>2, PlacesCounted
<1>5. \A n \in 1..Cardinality(J) : Kept(s, J)[n] = s[at(n)]
  BY <1>2, <1>3, ListedFacts
<1>6. \A S : (\A j \in J : s[j] \in S) => Kept(s, J) \in Seq(S)
  <2>1. \A S : (\A j \in J : s[j] \in S) => Listed(s, J, UpTo(J)) \in Seq(S)
    BY <1>2, ListedFacts
  <2> QED BY <1>3, <2>1, Zenon
<1>7. Len(Kept(s, J)) = Cardinality(J)
  <2>1. \A R : IsTotalOrder(R, J) => Len(Listed(s, J, R)) = Cardinality(J)
    BY ListedFacts
  <2> QED BY <1>2, <1>3, <2>1, Zenon
<1>8. Kept(s, J) = <<>> <=> J = {}
  BY <1>2, <1>3, ListedFacts
<1>9. ASSUME NEW m \in 1..Cardinality(J), NEW n \in 1..Cardinality(J), m < n
      PROVE  at(m) < at(n)
  <2>1. at(m) \in J /\ at(n) \in J /\ at(m) # at(n) /\ <<at(m), at(n)>> \in UpTo(J)
    BY <1>4, <1>9
  <2> HIDE DEF at
  <2>2. at(m) <= at(n) /\ at(m) \in Nat /\ at(n) \in Nat
    BY <1>1, <2>1
  <2> QED BY <2>1, <2>2
<1> QED BY <1>4, <1>5, <1>6, <1>7, <1>8, <1>9, Zenon

\* A list comprehension over a sequence: as many members as places, each that
\* of a place kept, and every place kept gives one.
LEMMA FilterFacts ==
  ASSUME NEW S, NEW s \in Seq(S), NEW J \in SUBSET (1..Len(s))
  PROVE  /\ IsFiniteSet(J) /\ Cardinality(J) \in Nat /\ Cardinality(J) <= Len(s)
         /\ Kept(s, J) \in Seq(S)
         /\ Len(Kept(s, J)) = Cardinality(J)
         /\ Kept(s, J) = <<>> <=> J = {}
         /\ \A n \in 1..Len(Kept(s, J)) : \E j \in J : Kept(s, J)[n] = s[j]
         /\ \A j \in J : \E n \in 1..Len(Kept(s, J)) : Kept(s, J)[n] = s[j]
<1>1. Len(s) \in Nat /\ \A i \in 1..Len(s) : s[i] \in S
  BY LenProperties, ElementOfSeq
<1>2. IsFiniteSet(1..Len(s)) /\ Cardinality(1..Len(s)) = Len(s)
  <2>1. \A n \in Nat : IsFiniteSet(1..n) /\ Cardinality(1..n) = n
    BY FS_Interval
  <2> QED BY <1>1, <2>1
<1>3. IsFiniteSet(J) /\ Cardinality(J) <= Len(s) /\ J \in SUBSET Nat
  <2>1. J \in SUBSET Nat
    BY <1>1
  <2> QED BY <1>2, <2>1, FS_Subset
<1>4. \A j \in J : s[j] \in S
  BY <1>1
<1>5. /\ Cardinality(J) \in Nat /\ Kept(s, J) \in Seq(S)
      /\ \A n \in 1..Cardinality(J) : Place(n, J, UpTo(J)) \in J /\ Kept(s, J)[n] = s[Place(n, J, UpTo(J))]
      /\ \A j \in J : \E n \in 1..Cardinality(J) : Place(n, J, UpTo(J)) = j
      /\ Kept(s, J) = <<>> <=> J = {}
  BY <1>3, <1>4, KeptFacts
<1>6. Len(Kept(s, J)) = Cardinality(J)
  <2>1. \A K \in SUBSET Nat : IsFiniteSet(K) => Len(Kept(s, K)) = Cardinality(K)
    BY KeptFacts
  <2> QED BY <1>3, <2>1, Zenon
<1>7. \A n \in 1..Cardinality(J) : \E j \in J : Kept(s, J)[n] = s[j]
  <2> SUFFICES ASSUME NEW n \in 1..Cardinality(J) PROVE \E j \in J : Kept(s, J)[n] = s[j]
    OBVIOUS
  <2> DEFINE j == Place(n, J, UpTo(J))
  <2>1. j \in J /\ Kept(s, J)[n] = s[j]
    BY <1>5
  <2> HIDE DEF j
  <2> QED BY <2>1
<1>8. \A j \in J : \E n \in 1..Cardinality(J) : Kept(s, J)[n] = s[j]
  <2> SUFFICES ASSUME NEW j \in J PROVE \E n \in 1..Cardinality(J) : Kept(s, J)[n] = s[j]
    OBVIOUS
  <2>1. PICK n \in 1..Cardinality(J) : Place(n, J, UpTo(J)) = j
    BY <1>5
  <2>2. Kept(s, J)[n] = s[Place(n, J, UpTo(J))]
    BY <1>5
  <2> QED BY <2>1, <2>2
<1>9. /\ \A n \in 1..Len(Kept(s, J)) : \E j \in J : Kept(s, J)[n] = s[j]
      /\ \A j \in J : \E n \in 1..Len(Kept(s, J)) : Kept(s, J)[n] = s[j]
  BY <1>6, <1>7, <1>8, Zenon
<1> QED BY <1>3, <1>5, <1>6, <1>9

-----------------------------------------------------------------------------
\* What MapThenSumSet unfolds to over the members of T, w giving their worth.
First(s) == CHOOSE x \in s : TRUE

Sums(f, w, T) ==
  f = [s \in SUBSET T |-> IF s = {} THEN 0 ELSE w[First(s)] + f[s \ {First(s)}]]

LEMMA FirstFacts ==
  ASSUME NEW T, IsFiniteSet(T), NEW s \in SUBSET T, s # {}
  PROVE  /\ First(s) \in s /\ First(s) \in T /\ s \ {First(s)} \in SUBSET T
         /\ IsFiniteSet(s) /\ Cardinality(s) \in Nat
         /\ Cardinality(s \ {First(s)}) \in Nat
         /\ Cardinality(s \ {First(s)}) = Cardinality(s) - 1
<1>1. First(s) \in s
  BY DEF First
<1>2. IsFiniteSet(s)
  BY FS_Subset
<1>3. /\ IsFiniteSet(s \ {First(s)})
      /\ Cardinality(s \ {First(s)}) = Cardinality(s) - 1
  BY <1>1, <1>2, FS_RemoveElement
<1> QED BY <1>1, <1>2, <1>3, FS_CardinalityType

\* The recursion has a solution: the sets of at most n members have one, by
\* the least n that had none.
LEMMA SumsExist ==
  ASSUME NEW T, IsFiniteSet(T), NEW w
  PROVE  \E f : Sums(f, w, T)
<1> DEFINE Dom(n) == {s \in SUBSET T : Cardinality(s) <= n}
           Upto(f, n) == f = [s \in Dom(n) |-> IF s = {} THEN 0 ELSE w[First(s)] + f[s \ {First(s)}]]
           Solved(n) == \E f : Upto(f, n)
           Bad == {n \in Nat : ~Solved(n)}
<1>1. \A s \in SUBSET T : s # {} => /\ First(s) \in s /\ s \ {First(s)} \in SUBSET T
                                    /\ Cardinality(s) \in Nat
                                    /\ Cardinality(s \ {First(s)}) = Cardinality(s) - 1
  BY FirstFacts
<1>2. \A s \in SUBSET T : Cardinality(s) \in Nat /\ (Cardinality(s) = 0 => s = {})
  <2> SUFFICES ASSUME NEW s \in SUBSET T PROVE Cardinality(s) \in Nat /\ (Cardinality(s) = 0 => s = {})
    OBVIOUS
  <2>1. IsFiniteSet(s)
    BY FS_Subset
  <2> QED BY <2>1, FS_CardinalityType, FS_EmptySet
<1>3. ASSUME NEW n \in Nat, \A m \in Nat : m < n => Solved(m)
      PROVE  Solved(n)
  <2>1. CASE n = 0
    <3> DEFINE g == [s \in Dom(0) |-> 0]
    <3>1. \A s \in Dom(0) : s = {}
      BY <1>2
    <3>2. Upto(g, 0)
      BY <3>1
    <3>3. Solved(0)
      <4> HIDE DEF g, Upto
      <4> QED BY <3>2
    <3> HIDE DEF Solved
    <3> QED BY <2>1, <3>3
  <2>2. CASE n > 0
    <3>0. Solved(n - 1)
      <4> HIDE DEF Solved
      <4> QED BY <1>3, <2>2
    <3>1. PICK f : Upto(f, n - 1)
      <4> HIDE DEF Upto
      <4> QED BY <3>0
    <3> DEFINE g == [s \in Dom(n) |-> IF s = {} THEN 0 ELSE w[First(s)] + f[s \ {First(s)}]]
    <3>2. \A s \in Dom(n - 1) : f[s] = IF s = {} THEN 0 ELSE w[First(s)] + f[s \ {First(s)}]
      BY <3>1
    <3>3. \A s \in Dom(n - 1) : s \in Dom(n) /\ g[s] = f[s]
      BY <1>2, <2>2, <3>2
    <3>4. \A s \in Dom(n) : s # {} => s \ {First(s)} \in Dom(n - 1)
      BY <1>1, <1>2, <2>2
    <3>5. \A s \in Dom(n) : g[s] = IF s = {} THEN 0 ELSE w[First(s)] + g[s \ {First(s)}]
      BY <3>3, <3>4
    <3>6. g = [s \in Dom(n) |-> g[s]]
      OBVIOUS
    <3> HIDE DEF g
    <3>7. Upto(g, n)
      BY <3>5, <3>6
    <3> HIDE DEF Upto
    <3> QED BY <3>7
  <2> HIDE DEF Solved
  <2> QED BY <2>1, <2>2
<1>4. Bad = {}
  <2> HIDE DEF Solved
  <2> SUFFICES ASSUME Bad # {} PROVE FALSE
    OBVIOUS
  <2>1. PICK n \in Bad : \A m \in Bad : n <= m
    BY LeastNat
  <2>2. \A m \in Nat : m < n => Solved(m)
    BY <2>1
  <2> QED BY <1>3, <2>1, <2>2
<1>5. Cardinality(T) \in Nat
  BY FS_CardinalityType
<1>9. Solved(Cardinality(T))
  <2> HIDE DEF Solved
  <2> QED BY <1>4, <1>5
<1>6. PICK f : Upto(f, Cardinality(T))
  <2> HIDE DEF Upto
  <2> QED BY <1>9
<1>7. Dom(Cardinality(T)) = SUBSET T
  <2>1. \A s \in SUBSET T : Cardinality(s) <= Cardinality(T)
    BY FS_Subset
  <2> QED BY <2>1
<1>8. Sums(f, w, T)
  <2> HIDE DEF Dom
  <2> QED BY <1>6, <1>7 DEF Sums
<1> QED BY <1>8

\* Whichever member is taken first, the sum is the same.
LEMMA SumsTake ==
  ASSUME NEW T, IsFiniteSet(T), NEW w \in [T -> Int], NEW f, Sums(f, w, T)
  PROVE  /\ f[{}] = 0
         /\ \A s \in SUBSET T : f[s] \in Int
         /\ \A s \in SUBSET T : \A x \in s : f[s] = w[x] + f[s \ {x}]
<1>1. /\ f[{}] = 0
      /\ \A s \in SUBSET T : s # {} => f[s] = w[First(s)] + f[s \ {First(s)}]
  BY DEF Sums
<1>2. \A s \in SUBSET T : s # {} => /\ First(s) \in s /\ s \ {First(s)} \in SUBSET T
                                    /\ First(s) \in T
                                    /\ Cardinality(s \ {First(s)}) = Cardinality(s) - 1
  BY FirstFacts
<1>3. \A s \in SUBSET T : Cardinality(s) \in Nat
  <2> SUFFICES ASSUME NEW s \in SUBSET T PROVE Cardinality(s) \in Nat
    OBVIOUS
  <2> QED BY FS_Subset, FS_CardinalityType
<1> DEFINE Good(s) == f[s] \in Int /\ \A x \in s : f[s] = w[x] + f[s \ {x}]
           Bad == {n \in Nat : \E s \in SUBSET T : Cardinality(s) = n /\ ~Good(s)}
<1>4. ASSUME NEW s \in SUBSET T,
             \A r \in SUBSET T : Cardinality(r) < Cardinality(s) => Good(r)
      PROVE  Good(s)
  <2>1. CASE s = {}
    BY <1>1, <2>1
  <2>2. CASE s # {}
    <3> DEFINE p == First(s)
               r == s \ {p}
    <3>1. p \in s /\ p \in T /\ r \in SUBSET T /\ Cardinality(r) < Cardinality(s) /\ f[s] = w[p] + f[r]
      <4>1. p \in s /\ p \in T /\ r \in SUBSET T /\ Cardinality(r) = Cardinality(s) - 1
        BY <1>2, <2>2
      <4>2. f[s] = w[p] + f[r]
        BY <1>1, <2>2
      <4>3. Cardinality(r) < Cardinality(s)
        BY <1>3, <4>1
      <4> QED BY <4>1, <4>2, <4>3
    <3>2. Good(r)
      BY <1>4, <3>1
    <3>3. f[s] \in Int
      BY <3>1, <3>2
    <3> HIDE DEF p
    <3>4. ASSUME NEW x \in s PROVE f[s] = w[x] + f[s \ {x}]
      <4>1. CASE x = p
        BY <3>1, <4>1
      <4>2. CASE x # p
        <5> DEFINE q == s \ {x}
        <5>1. /\ x \in r /\ f[r] = w[x] + f[r \ {x}] /\ p \in q /\ q \in SUBSET T
              /\ r \ {x} = q \ {p} /\ r \ {x} \in SUBSET T /\ x \in T
          BY <3>1, <3>2, <4>2
        <5>2. IsFiniteSet(s) /\ Cardinality(q) = Cardinality(s) - 1
          BY FS_Subset, FS_RemoveElement
        <5>3. Cardinality(q) < Cardinality(s)
          BY <1>3, <5>1, <5>2
        <5>4. Cardinality(r \ {x}) < Cardinality(s)
          <6>1. IsFiniteSet(q) /\ IsFiniteSet(s)
            BY <5>2, FS_Subset
          <6>2. Cardinality(q \ {p}) = Cardinality(q) - 1
            BY <5>1, <6>1, FS_RemoveElement
          <6> QED BY <1>3, <5>1, <5>3, <6>2
        <5>5. Good(q) /\ Good(r \ {x})
          BY <1>4, <5>1, <5>3, <5>4
        <5>6. f[q] = w[p] + f[q \ {p}]
          BY <5>1, <5>5
        <5>7. w[p] \in Int /\ w[x] \in Int /\ f[r \ {x}] \in Int
          BY <3>1, <5>1, <5>5
        <5>8. f[r] = w[x] + f[r \ {x}] /\ f[q] = w[p] + f[r \ {x}]
          BY <5>1, <5>6
        <5>9. f[s] = w[p] + f[r]
          BY <3>1
        <5> HIDE DEF q, r
        <5>10. f[s] = w[x] + f[q]
          BY <5>7, <5>8, <5>9
        <5> QED BY <5>10 DEF q
      <4> QED BY <4>1, <4>2
    <3> QED BY <3>3, <3>4
  <2> QED BY <2>1, <2>2
<1> HIDE DEF Good
<1>5. Bad = {}
  <2> SUFFICES ASSUME Bad # {} PROVE FALSE
    OBVIOUS
  <2>1. PICK n \in Bad : \A m \in Bad : n <= m
    BY LeastNat
  <2>2. PICK s \in SUBSET T : Cardinality(s) = n /\ ~Good(s)
    BY <2>1
  <2>3. \A r \in SUBSET T : Cardinality(r) < Cardinality(s) => Good(r)
    BY <1>3, <2>1, <2>2
  <2> QED BY <1>4, <2>2, <2>3
<1>6. \A s \in SUBSET T : Good(s)
  BY <1>3, <1>5
<1> QED BY <1>1, <1>6 DEF Good

\* Sums of worths that agree agree.
LEMMA SumsAgree ==
  ASSUME NEW T, IsFiniteSet(T), NEW w, NEW v, NEW f, NEW g, Sums(f, w, T), Sums(g, v, T),
         NEW S \in SUBSET T, \A x \in S : w[x] = v[x]
  PROVE  f[S] = g[S]
<1> DEFINE Bad == {n \in Nat : \E s \in SUBSET S : Cardinality(s) = n /\ f[s] # g[s]}
<1>1. \A s \in SUBSET T : s # {} => /\ First(s) \in s /\ s \ {First(s)} \in SUBSET T
                                    /\ Cardinality(s) \in Nat /\ Cardinality(s \ {First(s)}) \in Nat
                                    /\ Cardinality(s \ {First(s)}) = Cardinality(s) - 1
  BY FirstFacts
<1>2. /\ f[{}] = 0 /\ g[{}] = 0
      /\ \A s \in SUBSET T : s # {} => f[s] = w[First(s)] + f[s \ {First(s)}]
      /\ \A s \in SUBSET T : s # {} => g[s] = v[First(s)] + g[s \ {First(s)}]
  BY DEF Sums
<1>3. Bad = {}
  <2> SUFFICES ASSUME Bad # {} PROVE FALSE
    OBVIOUS
  <2>1. PICK n \in Bad : \A m \in Bad : n <= m
    BY LeastNat
  <2>2. PICK s \in SUBSET S : Cardinality(s) = n /\ f[s] # g[s]
    BY <2>1
  <2>3. s # {} /\ s \in SUBSET T
    BY <1>2, <2>2
  <2> DEFINE r == s \ {First(s)}
  <2>4. r \in SUBSET S /\ Cardinality(r) \in Nat /\ Cardinality(r) < n
    BY <1>1, <2>2, <2>3
  <2>5. f[r] = g[r]
    BY <2>1, <2>4
  <2> QED BY <1>1, <1>2, <2>2, <2>3, <2>5
<1>4. Cardinality(S) \in Nat
  BY FS_Subset, FS_CardinalityType
<1> QED BY <1>3, <1>4

\* One worth changes: the sum changes by as much.
LEMMA SumsChange ==
  ASSUME NEW T, IsFiniteSet(T), NEW w \in [T -> Int], NEW v \in [T -> Int], NEW f, NEW g,
         Sums(f, w, T), Sums(g, v, T), NEW t \in T, \A x \in T \ {t} : w[x] = v[x]
  PROVE  f[T] \in Int /\ g[T] \in Int /\ g[T] - f[T] = v[t] - w[t]
<1>1. f[T \ {t}] = g[T \ {t}]
  BY SumsAgree
<1>2. f[T] = w[t] + f[T \ {t}] /\ f[T] \in Int /\ f[T \ {t}] \in Int
  BY SumsTake
<1>3. g[T] = v[t] + g[T \ {t}] /\ g[T] \in Int
  BY SumsTake
<1> QED BY <1>1, <1>2, <1>3
=============================================================================
