------------------------------ MODULE NatFacts ------------------------------
(***************************************************************************)
(* Induction over the natural numbers, and what follows from it: functions *)
(* defined by recursion exist, and sums over finite sets are numbers.  The *)
(* induction theorems of the library take the property as an operator;     *)
(* here it is a set, the numbers that have it, which every prover can      *)
(* instantiate.  All of it rests on the library's WFMin: a set on which <  *)
(* is well founded has a least element.                                    *)
(***************************************************************************)
EXTENDS Integers, FiniteSetTheorems, TLAPS

(* A set of numbers has a least one.                                       *)
LEMMA Least ==
  ASSUME NEW T, T \subseteq Nat, T # {}
  PROVE  \E x \in T : \A y \in T : x <= y
<1> DEFINE R == {p \in Nat \X Nat : p[1] < p[2]}
<1>1. IsWellFoundedOn(R, Nat)
  <2>1. OpToRel(<, Nat) = R
    BY DEF OpToRel
  <2>2. QED
    BY <2>1, NatLessThanWellFounded
<1>2. \A S : S \subseteq Nat /\ S # {} => \E x \in S : \A y \in S : ~(<<y, x>> \in R)
  <2> HIDE DEF R
  <2>1. QED
    BY <1>1, WFMin
<1>3. PICK x \in T : \A y \in T : ~(<<y, x>> \in R)
  BY <1>2
<1>4. ASSUME NEW y \in T PROVE x <= y
  <2>1. x \in Nat /\ y \in Nat
    OBVIOUS
  <2>2. ~(<<y, x>> \in R)
    BY <1>3, <1>4
  <2>3. ~(y < x)
    BY <2>1, <2>2
  <2>4. QED
    BY <2>1, <2>3
<1>5. QED
  BY <1>4

(* A set with zero, and with each number's successor, has all numbers.     *)
LEMMA Inducts ==
  ASSUME NEW G, 0 \in G, \A n \in Nat : n \in G => n + 1 \in G
  PROVE  \A n \in Nat : n \in G
<1>1. SUFFICES ASSUME Nat \ G # {} PROVE FALSE
  OBVIOUS
<1>2. PICK x \in Nat \ G : \A y \in Nat \ G : x <= y
  BY <1>1, Least
<1>3. x # 0
  OBVIOUS
<1>4. x - 1 \in Nat /\ x - 1 \notin Nat \ G
  BY <1>2, <1>3
<1>5. QED
  BY <1>4, <1>2

(* The sequences of values that G makes from b, up to the n-th.            *)
Chains(b, S, G, n) ==
  {f \in [0 .. n -> S] : f[0] = b /\ \A i \in 0 .. n - 1 : f[i + 1] = G[<<i, f[i]>>]}

LEMMA ChainsExist ==
  ASSUME NEW S, NEW b \in S, NEW G \in [Nat \X S -> S]
  PROVE  \A n \in Nat : Chains(b, S, G, n) # {}
<1> DEFINE D == {n \in Nat : Chains(b, S, G, n) # {}}
<1>1. 0 \in D
  <2>1. [i \in 0 .. 0 |-> b] \in Chains(b, S, G, 0)
    BY DEF Chains
  <2>2. QED
    BY <2>1
<1>2. ASSUME NEW n \in Nat, n \in D PROVE n + 1 \in D
  <2>1. PICK f : f \in Chains(b, S, G, n)
    BY <1>2
  <2>2. /\ f \in [0 .. n -> S] /\ f[0] = b
        /\ \A i \in 0 .. n - 1 : f[i + 1] = G[<<i, f[i]>>]
    BY <2>1 DEF Chains
  <2> DEFINE g == [i \in 0 .. n + 1 |-> IF i <= n THEN f[i] ELSE G[<<n, f[n]>>]]
  <2>3. G[<<n, f[n]>>] \in S
    BY <2>2
  <2>4. g \in [0 .. n + 1 -> S] /\ g[0] = b
    BY <2>2, <2>3
  <2>5. ASSUME NEW i \in 0 .. n PROVE g[i + 1] = G[<<i, g[i]>>]
    <3>1. g[i] = f[i]
      OBVIOUS
    <3>2. CASE i = n
      <4>1. g[i + 1] = G[<<n, f[n]>>]
        BY <3>2
      <4>2. QED
        BY <4>1, <3>1, <3>2
    <3>3. CASE i # n
      <4>1. i \in 0 .. n - 1 /\ i + 1 \in 0 .. n
        BY <3>3
      <4>2. g[i + 1] = f[i + 1]
        BY <4>1
      <4>3. QED
        BY <2>2, <3>1, <4>1, <4>2
    <3>4. QED
      BY <3>2, <3>3
  <2>6. n + 1 - 1 = n
    OBVIOUS
  <2> HIDE DEF g
  <2>7. g \in Chains(b, S, G, n + 1)
    BY <2>4, <2>5, <2>6 DEF Chains
  <2>8. QED
    BY <2>7
<1> HIDE DEF D
<1>3. \A n \in Nat : n \in D
  BY <1>1, <1>2, Inducts
<1>4. QED
  BY <1>3 DEF D

LEMMA ChainsAgree ==
  ASSUME NEW S, NEW b \in S, NEW G \in [Nat \X S -> S], NEW n \in Nat, NEW m \in Nat,
         NEW f \in Chains(b, S, G, n), NEW g \in Chains(b, S, G, m)
  PROVE  \A i \in Nat : i <= n /\ i <= m => f[i] = g[i]
<1> DEFINE D == {i \in Nat : i <= n /\ i <= m => f[i] = g[i]}
<1>1. 0 \in D
  BY DEF Chains
<1>2. ASSUME NEW i \in Nat, i \in D PROVE i + 1 \in D
  <2>1. SUFFICES ASSUME i + 1 <= n, i + 1 <= m PROVE f[i + 1] = g[i + 1]
    OBVIOUS
  <2>2. i \in 0 .. n - 1 /\ i \in 0 .. m - 1
    BY <2>1
  <2>3. f[i] = g[i]
    BY <1>2, <2>1
  <2>4. f[i + 1] = G[<<i, f[i]>>] /\ g[i + 1] = G[<<i, g[i]>>]
    BY <2>2 DEF Chains
  <2>5. QED
    BY <2>3, <2>4
<1> HIDE DEF D
<1>3. \A i \in Nat : i \in D
  BY <1>1, <1>2, Inducts
<1>4. QED
  BY <1>3 DEF D

(* p begins with b, and G makes each next value of it from the number and  *)
(* the value before.                                                       *)
Steps(S) == [Nat \X S -> S]
Recurs(p, S, b, G) ==
  p \in [Nat -> S] /\ p[0] = b /\ \A n \in Nat : p[n + 1] = G[<<n, p[n]>>]

LEMMA Recursion ==
  ASSUME NEW S, NEW b \in S, NEW G \in Steps(S)
  PROVE  \E p : Recurs(p, S, b, G)
<1> USE DEF Steps
<1> DEFINE chain(n) == CHOOSE f : f \in Chains(b, S, G, n)
           p == [n \in Nat |-> chain(n)[n]]
<1>1. \A n \in Nat : chain(n) \in Chains(b, S, G, n)
  BY ChainsExist
<1> HIDE DEF chain
<1>2. \A n \in Nat : /\ chain(n) \in [0 .. n -> S] /\ chain(n)[0] = b
                     /\ \A i \in 0 .. n - 1 : chain(n)[i + 1] = G[<<i, chain(n)[i]>>]
  BY <1>1 DEF Chains
<1>3. p \in [Nat -> S] /\ p[0] = b
  BY <1>2
<1>4. ASSUME NEW n \in Nat PROVE p[n + 1] = G[<<n, p[n]>>]
  <2>1. chain(n)[n] = chain(n + 1)[n]
    <3>1. n + 1 \in Nat /\ n <= n /\ n <= n + 1
      OBVIOUS
    <3>2. chain(n) \in Chains(b, S, G, n) /\ chain(n + 1) \in Chains(b, S, G, n + 1)
      BY <1>1
    <3> DEFINE m == n + 1
               f == chain(n)
               g == chain(m)
    <3> HIDE DEF m, f, g
    <3>3. m \in Nat /\ n <= m /\ f \in Chains(b, S, G, n) /\ g \in Chains(b, S, G, m)
      BY <3>1, <3>2 DEF m, f, g
    <3>4. \A i \in Nat : i <= n /\ i <= m => f[i] = g[i]
      BY <3>3, ChainsAgree
    <3>5. f[n] = g[n]
      BY <3>1, <3>3, <3>4
    <3>6. QED
      BY <3>5 DEF m, f, g
  <2>2. n \in 0 .. n + 1 - 1
    OBVIOUS
  <2>3. chain(n + 1)[n + 1] = G[<<n, chain(n + 1)[n]>>]
    BY <1>2, <2>2
  <2>4. QED
    BY <2>1, <2>3
<1>5. QED
  BY <1>3, <1>4 DEF Recurs

-----------------------------------------------------------------------------
(* Sums over finite sets, as MapThenSumSet takes them: f has the sum of h  *)
(* over every subset of S.                                                 *)
Sums(f, S, h) ==
  f = [s \in SUBSET S |-> IF s = {} THEN 0
                           ELSE h[CHOOSE x \in s : TRUE] + f[s \ {CHOOSE x \in s : TRUE}]]

LEMMA SumsExist ==
  ASSUME NEW S, IsFiniteSet(S), NEW h \in [S -> Nat]
  PROVE  \E f : Sums(f, S, h)
<1> DEFINE P == SUBSET S
           c(s) == CHOOSE x \in s : TRUE
           F == [P -> Nat]
           next(g) == [s \in P |-> IF s = {} THEN 0 ELSE h[c(s)] + g[s \ {c(s)}]]
           b == [s \in P |-> 0]
           G == [t \in Nat \X F |-> next(t[2])]
<1>1. \A s \in P : s # {} => c(s) \in s /\ c(s) \in S /\ s \ {c(s)} \in P
  OBVIOUS
<1>2. b \in F
  OBVIOUS
<1> HIDE DEF c
<1>3. \A g \in F : next(g) \in F
  BY <1>1
<1> HIDE DEF next, b
<1>4. G \in Steps(F)
  <2> HIDE DEF F
  <2>1. \A t \in Nat \X F : next(t[2]) \in F
    BY <1>3
  <2>2. QED
    BY <2>1 DEF Steps
<1>5. PICK p : Recurs(p, F, b, G)
  <2> HIDE DEF F, G
  <2>1. QED
    BY <1>2, <1>4, Recursion
<1>6. /\ p \in [Nat -> F] /\ p[0] = b
      /\ \A n \in Nat : p[n + 1] = next(p[n])
  <2> HIDE DEF F
  <2>1. p \in [Nat -> F] /\ p[0] = b /\ \A n \in Nat : p[n + 1] = G[<<n, p[n]>>]
    <3> HIDE DEF G
    <3>1. QED
      BY <1>5 DEF Recurs
  <2>2. \A n \in Nat : G[<<n, p[n]>>] = next(p[n])
    BY <2>1
  <2>3. QED
    BY <2>1, <2>2
<1> DEFINE f == [s \in P |-> p[Cardinality(s)][s]]
<1>7. ASSUME NEW s \in P PROVE f[s] = IF s = {} THEN 0 ELSE h[c(s)] + f[s \ {c(s)}]
  <2>1. CASE s = {}
    <3>1. Cardinality(s) = 0
      BY <2>1, FS_EmptySet
    <3>2. f[s] = 0
      BY <1>6, <2>1, <3>1 DEF b
    <3>3. QED
      BY <2>1, <3>2
  <2>2. CASE s # {}
    <3> DEFINE r == s \ {c(s)}
               m == Cardinality(r)
    <3>1. IsFiniteSet(s) /\ c(s) \in s /\ r \in P
      BY <1>1, <2>2, FS_Subset
    <3>2. m \in Nat /\ Cardinality(s) = m + 1
      <4>1. m = Cardinality(s) - 1 /\ Cardinality(s) \in Nat
        BY <3>1, FS_RemoveElement, FS_CardinalityType
      <4>2. m \in Nat
        BY <3>1, FS_Subset, FS_CardinalityType
      <4> HIDE DEF m
      <4>3. QED
        BY <4>1, <4>2
    <3>3. f[s] = p[m + 1][s] /\ f[r] = p[m][r]
      BY <3>1, <3>2
    <3>4. p[m + 1] = next(p[m])
      BY <1>6, <3>2
    <3> HIDE DEF f, m
    <3>5. p[m + 1][s] = h[c(s)] + p[m][r]
      BY <2>2, <3>4 DEF next
    <3>6. QED
      BY <2>2, <3>3, <3>5
  <2>3. QED
    BY <2>1, <2>2
<1>8. f = [s \in P |-> IF s = {} THEN 0 ELSE h[c(s)] + f[s \ {c(s)}]]
  <2>1. f = [s \in P |-> f[s]]
    OBVIOUS
  <2> HIDE DEF f
  <2>2. QED
    BY <1>7, <2>1
<1>9. Sums(f, S, h)
  <2> HIDE DEF f
  <2>1. QED
    BY <1>8 DEF Sums, c
<1>10. QED
  BY <1>9

(* What is zero off T, and at most B on it, comes to no more than B for    *)
(* each element of T.                                                      *)
LEMMA SumsBounded ==
  ASSUME NEW S, IsFiniteSet(S), NEW h \in [S -> Nat], NEW f, Sums(f, S, h),
         NEW T \in SUBSET S, NEW B \in Nat, \A x \in T : h[x] <= B, \A x \in S \ T : h[x] = 0
  PROVE  f[S] \in Nat /\ f[S] <= B * Cardinality(T)
<1> DEFINE D == {n \in Nat : \A s \in SUBSET S : Cardinality(s) = n =>
                   f[s] \in Nat /\ f[s] <= B * Cardinality(s \cap T)}
<1>1. 0 \in D
  <2> SUFFICES ASSUME NEW s \in SUBSET S, Cardinality(s) = 0
               PROVE  f[s] \in Nat /\ f[s] <= B * Cardinality(s \cap T)
    OBVIOUS
  <2>1. s = {}
    BY FS_Subset, FS_EmptySet
  <2>2. s \cap T = {} /\ Cardinality(s \cap T) = 0
    BY <2>1, FS_EmptySet
  <2>3. f[s] = 0
    BY <2>1 DEF Sums
  <2>4. B * 0 = 0
    OBVIOUS
  <2>5. QED
    BY <2>2, <2>3, <2>4
<1>2. ASSUME NEW n \in Nat, n \in D PROVE n + 1 \in D
  <2> SUFFICES ASSUME NEW s \in SUBSET S, Cardinality(s) = n + 1
               PROVE  f[s] \in Nat /\ f[s] <= B * Cardinality(s \cap T)
    OBVIOUS
  <2> DEFINE x == CHOOSE y \in s : TRUE
             r == s \ {x}
             k == Cardinality(r \cap T)
  <2>1. s # {}
    BY FS_EmptySet
  <2>2. x \in s /\ x \in S /\ f[s] = h[x] + f[r]
    BY <2>1 DEF Sums
  <2> HIDE DEF x
  <2>3. IsFiniteSet(s) /\ IsFiniteSet(r \cap T) /\ IsFiniteSet(r)
    BY FS_Subset
  <2>4. Cardinality(r) = n
    <3>1. Cardinality(r) = Cardinality(s) - 1
      BY <2>2, <2>3, FS_RemoveElement
    <3>2. QED
      BY <3>1
  <2>5. f[r] \in Nat /\ f[r] <= B * k
    BY <1>2, <2>4
  <2>6. k \in Nat
    BY <2>3, FS_CardinalityType
  <2>7. h[x] \in Nat
    BY <2>2
  <2>8. CASE x \in T
    <3>1. s \cap T = (r \cap T) \cup {x} /\ x \notin r \cap T
      BY <2>2, <2>8
    <3>2. Cardinality(s \cap T) = k + 1
      BY <2>3, <3>1, FS_AddElement
    <3>3. h[x] <= B
      BY <2>8
    <3>4. B * (k + 1) = B * k + B /\ B * k \in Nat
      BY <2>6
    <3>5. QED
      BY <2>2, <2>5, <2>7, <3>2, <3>3, <3>4
  <2>9. CASE x \notin T
    <3>1. s \cap T = r \cap T
      BY <2>9
    <3>2. h[x] = 0
      BY <2>2, <2>9
    <3>3. f[s] = f[r]
      BY <2>2, <2>5, <3>2
    <3>4. QED
      BY <2>5, <3>1, <3>3
  <2>10. QED
    BY <2>8, <2>9
<1> HIDE DEF D
<1>3. \A n \in Nat : n \in D
  BY <1>1, <1>2, Inducts
<1>4. Cardinality(S) \in Nat /\ S \cap T = T /\ S \in SUBSET S
  BY FS_CardinalityType
<1>5. QED
  BY <1>3, <1>4 DEF D
-----------------------------------------------------------------------------
(* Folds of a sequence from the left, as MapThenFoldSet takes them: f has  *)
(* the fold of every set of indices, the greatest last.                    *)
Greatest(s) == CHOOSE x \in s : \A y \in s : x >= y

Folds(f, n, b, H) ==
  f = [s \in SUBSET (1 .. n) |-> IF s = {} THEN b
                                 ELSE H[<<Greatest(s), f[s \ {Greatest(s)}]>>]]

LEMMA GreatestOfFirst ==
  ASSUME NEW k \in Nat \ {0}
  PROVE  Greatest(1 .. k) = k /\ (1 .. k) \ {k} = 1 .. k - 1
BY DEF Greatest

LEMMA GreatestIs ==
  ASSUME NEW n \in Nat, NEW s \in SUBSET (1 .. n), s # {}
  PROVE  Greatest(s) \in s
<1> DEFINE T == {n - x : x \in s}
<1>1. \A y \in s : y \in Nat /\ n - y \in Nat /\ n - y \in T
  OBVIOUS
<1>2. T \subseteq Nat /\ T # {}
  BY <1>1
<1>3. PICK t \in T : \A u \in T : t <= u
  <2> HIDE DEF T
  <2>1. QED
    BY <1>2, Least
<1>4. PICK x \in s : t = n - x
  OBVIOUS
<1>5. \A y \in s : x >= y
  <2> SUFFICES ASSUME NEW y \in s PROVE x >= y
    OBVIOUS
  <2>1. t <= n - y
    BY <1>1, <1>3
  <2>2. QED
    BY <1>1, <1>4, <2>1
<1>6. QED
  BY <1>5 DEF Greatest

LEMMA FoldsExist ==
  ASSUME NEW A, NEW b \in A, NEW n \in Nat, NEW H \in [(1 .. n) \X A -> A]
  PROVE  \E f \in [SUBSET (1 .. n) -> A] : Folds(f, n, b, H)
<1> DEFINE S == 1 .. n
           P == SUBSET S
           c(s) == Greatest(s)
           F == [P -> A]
           next(g) == [s \in P |-> IF s = {} THEN b ELSE H[<<c(s), g[s \ {c(s)}]>>]]
           z == [s \in P |-> b]
           G == [t \in Nat \X F |-> next(t[2])]
<1>0. IsFiniteSet(S)
  BY FS_Interval
<1>1. \A s \in P : s # {} => c(s) \in s /\ c(s) \in S /\ s \ {c(s)} \in P
  <2>1. \A s \in P : s # {} => c(s) \in s
    BY GreatestIs
  <2> HIDE DEF c, S
  <2>2. QED
    BY <2>1
<1>2. z \in F
  OBVIOUS
<1> HIDE DEF c, S
<1>3. \A g \in F : next(g) \in F
  <2> SUFFICES ASSUME NEW g \in F, NEW s \in P
               PROVE  (IF s = {} THEN b ELSE H[<<c(s), g[s \ {c(s)}]>>]) \in A
    OBVIOUS
  <2>1. CASE s = {}
    BY <2>1
  <2>2. CASE s # {}
    <3>1. g[s \ {c(s)}] \in A /\ c(s) \in S
      BY <1>1, <2>2
    <3>2. H[<<c(s), g[s \ {c(s)}]>>] \in A
      BY <3>1 DEF S
    <3>3. QED
      BY <2>2, <3>2
  <2>3. QED
    BY <2>1, <2>2
<1> HIDE DEF next, z
<1>4. G \in Steps(F)
  <2> HIDE DEF F
  <2>1. \A t \in Nat \X F : next(t[2]) \in F
    BY <1>3
  <2>2. QED
    BY <2>1 DEF Steps
<1>5. PICK p : Recurs(p, F, z, G)
  <2> HIDE DEF F, G
  <2>1. QED
    BY <1>2, <1>4, Recursion
<1>6. /\ p \in [Nat -> F] /\ p[0] = z
      /\ \A m \in Nat : p[m + 1] = next(p[m])
  <2> HIDE DEF F
  <2>1. p \in [Nat -> F] /\ p[0] = z /\ \A m \in Nat : p[m + 1] = G[<<m, p[m]>>]
    <3> HIDE DEF G
    <3>1. QED
      BY <1>5 DEF Recurs
  <2>2. \A m \in Nat : G[<<m, p[m]>>] = next(p[m])
    BY <2>1
  <2>3. QED
    BY <2>1, <2>2
<1> DEFINE f == [s \in P |-> p[Cardinality(s)][s]]
<1>7. ASSUME NEW s \in P PROVE f[s] = IF s = {} THEN b ELSE H[<<c(s), f[s \ {c(s)}]>>]
  <2>1. CASE s = {}
    <3>1. Cardinality(s) = 0
      BY <2>1, FS_EmptySet
    <3>2. f[s] = b
      BY <1>6, <2>1, <3>1 DEF z
    <3>3. QED
      BY <2>1, <3>2
  <2>2. CASE s # {}
    <3> DEFINE r == s \ {c(s)}
               m == Cardinality(r)
    <3>1. IsFiniteSet(s) /\ c(s) \in s /\ r \in P
      BY <1>0, <1>1, <2>2, FS_Subset
    <3>2. m \in Nat /\ Cardinality(s) = m + 1
      <4>1. m = Cardinality(s) - 1 /\ Cardinality(s) \in Nat
        BY <3>1, FS_RemoveElement, FS_CardinalityType
      <4>2. m \in Nat
        BY <1>0, <3>1, FS_Subset, FS_CardinalityType
      <4> HIDE DEF m
      <4>3. QED
        BY <4>1, <4>2
    <3>3. f[s] = p[m + 1][s] /\ f[r] = p[m][r]
      BY <3>1, <3>2
    <3>4. p[m + 1] = next(p[m])
      BY <1>6, <3>2
    <3> HIDE DEF f, m
    <3>5. p[m + 1][s] = H[<<c(s), p[m][r]>>]
      BY <2>2, <3>4 DEF next
    <3>6. QED
      BY <2>2, <3>3, <3>5
  <2>3. QED
    BY <2>1, <2>2
<1>8. f = [s \in P |-> IF s = {} THEN b ELSE H[<<c(s), f[s \ {c(s)}]>>]]
  <2>1. f = [s \in P |-> f[s]]
    OBVIOUS
  <2> HIDE DEF f
  <2>2. QED
    BY <1>7, <2>1
<1>9. Folds(f, n, b, H)
  <2> HIDE DEF f
  <2>1. QED
    BY <1>8 DEF Folds, c, S
<1>10. f \in [SUBSET (1 .. n) -> A]
  <2>1. \A s \in P : p[Cardinality(s)][s] \in A
    <3> SUFFICES ASSUME NEW s \in P PROVE p[Cardinality(s)][s] \in A
      OBVIOUS
    <3>1. Cardinality(s) \in Nat
      BY <1>0, FS_Subset, FS_CardinalityType
    <3>2. QED
      BY <1>6, <3>1
  <2>2. QED
    BY <2>1 DEF S
<1>11. QED
  BY <1>9, <1>10

=============================================================================
