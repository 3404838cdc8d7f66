-------------------------- MODULE LinkDedupProofs --------------------------
(***************************************************************************)
(* The links of a chained file, for files of any pages, packets and links. *)
(*                                                                         *)
(* The encoder goes through its links one after the other and the decoder  *)
(* through what was coded, much later.  A history W has the state in which *)
(* the encoder was before each link, its models and its two lists, and     *)
(* says of each step what it put on the control stream and its stream.     *)
(* While the decoder is before link n it has the models of W[n], its lists *)
(* have the pages of the links on the lists of W[n], and its output is the *)
(* input up to link n, but for the serials of pages that were replayed.    *)
(* That is the inductive invariant Held.                                   *)
(*                                                                         *)
(* The parts: the folds of the model, step by step; a page that is coded,  *)
(* and decoded; a run of pages, of which some are skipped; the pages and   *)
(* the headers of a link; the links of a file; what they refer to; coding  *)
(* a link; the history; what is written; decoding a link; the invariant,   *)
(* action by action; and what follows from it.                             *)
(***************************************************************************)
EXTENDS LinkDedup, NatFacts, SequenceTheorems

-----------------------------------------------------------------------------
(* The folds of the model, step by step.  There is a lemma for each: the   *)
(* provers cannot take the operator that is folded as a parameter.         *)

(* The subsets of the first n numbers, and how the greatest is taken off.  *)
LEMMA SubsetsOfFirst ==
  ASSUME NEW n \in Nat, NEW S \in SUBSET (1 .. n)
  PROVE  /\ IsFiniteSet(S) /\ Cardinality(S) \in Nat /\ Cardinality(S) <= n
         /\ S # {} => /\ Greatest(S) \in S
                      /\ Cardinality(S \ {Greatest(S)}) = Cardinality(S) - 1
<1>1. IsFiniteSet(1 .. n) /\ Cardinality(1 .. n) = n
  BY FS_Interval
<1>2. IsFiniteSet(S) /\ Cardinality(S) \in Nat /\ Cardinality(S) <= n
  BY <1>1, FS_Subset, FS_CardinalityType
<1>3. S # {} => Greatest(S) \in S
  BY GreatestIs
<1>4. S # {} => Cardinality(S \ {Greatest(S)}) = Cardinality(S) - 1
  BY <1>2, <1>3, FS_RemoveElement
<1>5. QED
  BY <1>2, <1>3, <1>4

(* The first k + 1 numbers are the first k and one that is greater.        *)
LEMMA FirstOfFirst ==
  ASSUME NEW n \in Nat, NEW k \in 0 .. n - 1
  PROVE  /\ Greatest(1 .. k + 1) = k + 1 /\ (1 .. k + 1) \ {k + 1} = 1 .. k
         /\ 1 .. k + 1 \in SUBSET (1 .. n) /\ 1 .. k + 1 # {}
<1>1. k + 1 \in Nat \ {0} /\ (k + 1) - 1 = k
  OBVIOUS
<1>2. Greatest(1 .. k + 1) = k + 1 /\ (1 .. k + 1) \ {k + 1} = 1 .. k
  BY <1>1, GreatestOfFirst
<1>3. k + 1 \in 1 .. k + 1 /\ \A x \in 1 .. k + 1 : x \in 1 .. n
  OBVIOUS
<1>4. QED
  BY <1>2, <1>3

(* The packets of a page, coded one after the other from b.                *)
Encodes(t, b, q, n) ==
  /\ t[0] = b /\ t[n] = FoldLeft(EncodedPacket, b, q)
  /\ \A k \in 0 .. n - 1 : t[k + 1] = EncodedPacket(t[k], q[k + 1])

(* There is such a function for each of the folds of the model.             *)
LEMMA EncodesIt ==
  ASSUME NEW q, NEW n \in Nat, DOMAIN q = 1 .. n, NEW b
  PROVE  \E t : Encodes(t, b, q, n)
<1> DEFINE Op(y, x) == EncodedPacket(y, x)
           D == 1 .. n
           Small(m) == {S \in SUBSET D : Cardinality(S) <= m}
           Is(f, P) == f = [S \in P |-> IF S = {} THEN b
                            ELSE Op(f[S \ {Greatest(S)}], q[Greatest(S)])]
           it == CHOOSE f : Is(f, SUBSET D)
           G == {m \in Nat : \E f : Is(f, Small(m))}
<1>1. FoldLeft(EncodedPacket, b, q) = it[D]
  BY DEF FoldLeft, MapThenFoldSet, Max, Greatest
<1>2. \A S \in SUBSET D :
        /\ IsFiniteSet(S) /\ Cardinality(S) \in Nat /\ Cardinality(S) <= n
        /\ S # {} => /\ Greatest(S) \in S
                      /\ Cardinality(S \ {Greatest(S)}) = Cardinality(S) - 1
  BY SubsetsOfFirst
<1> HIDE DEF D, Op
<1>13. \A m, S : S \in Small(m) <=> S \in SUBSET D /\ Cardinality(S) <= m
  OBVIOUS
<1> HIDE DEF Small
<1>3. 0 \in G
  <2> DEFINE f == [S \in Small(0) |-> b]
  <2>1. ASSUME NEW S \in Small(0) PROVE S = {}
    <3>1. S \in SUBSET D /\ Cardinality(S) <= 0
      BY <1>13
    <3>2. IsFiniteSet(S) /\ Cardinality(S) \in Nat
      BY <1>2, <3>1
    <3>3. Cardinality(S) = 0
      BY <3>1, <3>2
    <3>4. QED
      BY <3>2, <3>3, FS_EmptySet
  <2>2. Is(f, Small(0))
    BY <2>1
  <2> HIDE DEF Is, f
  <2>3. QED
    BY <2>2
<1>4. ASSUME NEW m \in Nat, m \in G PROVE m + 1 \in G
  <2>1. PICK f : Is(f, Small(m))
    BY <1>4
  <2> DEFINE g == [S \in Small(m + 1) |-> IF S = {} THEN b
                     ELSE Op(f[S \ {Greatest(S)}], q[Greatest(S)])]
  <2>2. \A S \in Small(m + 1) : S # {} => S \ {Greatest(S)} \in Small(m)
    <3> SUFFICES ASSUME NEW S \in Small(m + 1), S # {}
                 PROVE  S \ {Greatest(S)} \in Small(m)
      OBVIOUS
    <3> DEFINE r == S \ {Greatest(S)}
    <3>1. S \in SUBSET D /\ Cardinality(S) <= m + 1
      BY <1>13
    <3>2. Cardinality(S) \in Nat /\ Cardinality(r) = Cardinality(S) - 1
      BY <1>2, <3>1
    <3>3. r \in SUBSET D
      BY <3>1
    <3> HIDE DEF r
    <3>4. Cardinality(r) <= m
      BY <3>1, <3>2
    <3>5. r \in Small(m)
      BY <1>13, <3>3, <3>4
    <3>6. QED
      BY <3>5 DEF r
  <2>3. Small(m) \subseteq Small(m + 1)
    <3> SUFFICES ASSUME NEW S \in Small(m) PROVE S \in Small(m + 1)
      OBVIOUS
    <3>1. S \in SUBSET D /\ Cardinality(S) <= m
      BY <1>13
    <3>2. Cardinality(S) \in Nat
      BY <1>2, <3>1
    <3>3. Cardinality(S) <= m + 1
      BY <3>1, <3>2
    <3>4. QED
      BY <1>13, <3>1, <3>3
  <2>4. \A S \in Small(m) : f[S] = IF S = {} THEN b
                       ELSE Op(f[S \ {Greatest(S)}], q[Greatest(S)])
    BY <2>1
  <2>5. \A S \in Small(m) : g[S] = f[S]
    BY <2>3, <2>4
  <2>6. \A S \in Small(m + 1) : S # {} => g[S \ {Greatest(S)}] = f[S \ {Greatest(S)}]
    <3> HIDE DEF g
    <3>1. QED
      BY <2>2, <2>5
  <2>7. Is(g, Small(m + 1))
    <3> DEFINE h == g
    <3> HIDE DEF h
    <3>1. \A S \in Small(m + 1) : S # {} => h[S \ {Greatest(S)}] = f[S \ {Greatest(S)}]
      BY <2>6 DEF h
    <3>2. h = [S \in Small(m + 1) |-> IF S = {} THEN b
                 ELSE Op(h[S \ {Greatest(S)}], q[Greatest(S)])]
      BY <3>1 DEF h
    <3>3. QED
      BY <3>2 DEF h
  <2> HIDE DEF Is, g
  <2>8. QED
    BY <2>7
<1> HIDE DEF G
<1>5. n \in G
  BY <1>3, <1>4, Inducts
<1>6. \E f : Is(f, SUBSET D)
  <2>1. \A S : S \in Small(n) <=> S \in SUBSET D
    <3>1. \A S \in SUBSET D : Cardinality(S) <= n
      BY <1>2
    <3>2. QED
      BY <1>13, <3>1
  <2>3. Small(n) = SUBSET D
    BY <2>1
  <2> HIDE DEF Is
  <2>2. QED
    BY <1>5, <2>3 DEF G
<1>7. Is(it, SUBSET D)
  <2> HIDE DEF Is
  <2>1. QED
    BY <1>6
<1> HIDE DEF it
<1>8. /\ it[{}] = b
      /\ \A S \in SUBSET D : S # {} =>
           it[S] = Op(it[S \ {Greatest(S)}], q[Greatest(S)])
  BY <1>7
<1> HIDE DEF Is
<1> DEFINE t == [k \in 0 .. n |-> it[1 .. k]]
<1>9. \A k \in 0 .. n - 1 : t[k + 1] = Op(t[k], q[k + 1])
  <2> SUFFICES ASSUME NEW k \in 0 .. n - 1 PROVE t[k + 1] = Op(t[k], q[k + 1])
    OBVIOUS
  <2>1. /\ Greatest(1 .. k + 1) = k + 1 /\ (1 .. k + 1) \ {k + 1} = 1 .. k
        /\ 1 .. k + 1 \in SUBSET D /\ 1 .. k + 1 # {}
    BY FirstOfFirst DEF D
  <2>2. it[1 .. k + 1] = Op(it[1 .. k], q[k + 1])
    BY <1>8, <2>1
  <2>3. t[k] = it[1 .. k] /\ t[k + 1] = it[1 .. k + 1]
    OBVIOUS
  <2> HIDE DEF t
  <2>4. QED
    BY <2>2, <2>3
<1>10. t[0] = b /\ t[n] = it[D]
  <2>1. 1 .. 0 = {} /\ 0 \in 0 .. n /\ n \in 0 .. n
    OBVIOUS
  <2>2. t[0] = it[1 .. 0] /\ t[n] = it[1 .. n]
    BY <2>1
  <2>3. QED
    BY <1>8, <2>1, <2>2 DEF D
<1> HIDE DEF t
<1>11. Encodes(t, b, q, n)
  BY <1>1, <1>9, <1>10 DEF Encodes, Op
<1>12. QED
  BY <1>11

(* The pages of a link, coded.                                             *)
EncodesPages(t, b, q, n, l) ==
  /\ t[0] = b
  /\ t[n] = FoldLeft(LAMBDA c, k : EncodedPage(c, input[k], Skipped(l, k)), b, q)
  /\ \A k \in 0 .. n - 1 : t[k + 1] = EncodedPage(t[k], input[q[k + 1]], Skipped(l, q[k + 1]))

(* The pages that enc_link goes through.                                   *)
LEMMA EncodesPagesIt ==
  ASSUME NEW q, NEW n \in Nat, DOMAIN q = 1 .. n, NEW b, NEW l
  PROVE  \E t : EncodesPages(t, b, q, n, l)
<1> DEFINE Op(y, x) == EncodedPage(y, input[x], Skipped(l, x))
           D == 1 .. n
           Small(m) == {S \in SUBSET D : Cardinality(S) <= m}
           Is(f, P) == f = [S \in P |-> IF S = {} THEN b
                            ELSE Op(f[S \ {Greatest(S)}], q[Greatest(S)])]
           it == CHOOSE f : Is(f, SUBSET D)
           G == {m \in Nat : \E f : Is(f, Small(m))}
<1>1. FoldLeft(LAMBDA c, k : EncodedPage(c, input[k], Skipped(l, k)), b, q) = it[D]
  BY DEF FoldLeft, MapThenFoldSet, Max, Greatest
<1>2. \A S \in SUBSET D :
        /\ IsFiniteSet(S) /\ Cardinality(S) \in Nat /\ Cardinality(S) <= n
        /\ S # {} => /\ Greatest(S) \in S
                      /\ Cardinality(S \ {Greatest(S)}) = Cardinality(S) - 1
  BY SubsetsOfFirst
<1> HIDE DEF D, Op
<1>13. \A m, S : S \in Small(m) <=> S \in SUBSET D /\ Cardinality(S) <= m
  OBVIOUS
<1> HIDE DEF Small
<1>3. 0 \in G
  <2> DEFINE f == [S \in Small(0) |-> b]
  <2>1. ASSUME NEW S \in Small(0) PROVE S = {}
    <3>1. S \in SUBSET D /\ Cardinality(S) <= 0
      BY <1>13
    <3>2. IsFiniteSet(S) /\ Cardinality(S) \in Nat
      BY <1>2, <3>1
    <3>3. Cardinality(S) = 0
      BY <3>1, <3>2
    <3>4. QED
      BY <3>2, <3>3, FS_EmptySet
  <2>2. Is(f, Small(0))
    BY <2>1
  <2> HIDE DEF Is, f
  <2>3. QED
    BY <2>2
<1>4. ASSUME NEW m \in Nat, m \in G PROVE m + 1 \in G
  <2>1. PICK f : Is(f, Small(m))
    BY <1>4
  <2> DEFINE g == [S \in Small(m + 1) |-> IF S = {} THEN b
                     ELSE Op(f[S \ {Greatest(S)}], q[Greatest(S)])]
  <2>2. \A S \in Small(m + 1) : S # {} => S \ {Greatest(S)} \in Small(m)
    <3> SUFFICES ASSUME NEW S \in Small(m + 1), S # {}
                 PROVE  S \ {Greatest(S)} \in Small(m)
      OBVIOUS
    <3> DEFINE r == S \ {Greatest(S)}
    <3>1. S \in SUBSET D /\ Cardinality(S) <= m + 1
      BY <1>13
    <3>2. Cardinality(S) \in Nat /\ Cardinality(r) = Cardinality(S) - 1
      BY <1>2, <3>1
    <3>3. r \in SUBSET D
      BY <3>1
    <3> HIDE DEF r
    <3>4. Cardinality(r) <= m
      BY <3>1, <3>2
    <3>5. r \in Small(m)
      BY <1>13, <3>3, <3>4
    <3>6. QED
      BY <3>5 DEF r
  <2>3. Small(m) \subseteq Small(m + 1)
    <3> SUFFICES ASSUME NEW S \in Small(m) PROVE S \in Small(m + 1)
      OBVIOUS
    <3>1. S \in SUBSET D /\ Cardinality(S) <= m
      BY <1>13
    <3>2. Cardinality(S) \in Nat
      BY <1>2, <3>1
    <3>3. Cardinality(S) <= m + 1
      BY <3>1, <3>2
    <3>4. QED
      BY <1>13, <3>1, <3>3
  <2>4. \A S \in Small(m) : f[S] = IF S = {} THEN b
                       ELSE Op(f[S \ {Greatest(S)}], q[Greatest(S)])
    BY <2>1
  <2>5. \A S \in Small(m) : g[S] = f[S]
    BY <2>3, <2>4
  <2>6. \A S \in Small(m + 1) : S # {} => g[S \ {Greatest(S)}] = f[S \ {Greatest(S)}]
    <3> HIDE DEF g
    <3>1. QED
      BY <2>2, <2>5
  <2>7. Is(g, Small(m + 1))
    <3> DEFINE h == g
    <3> HIDE DEF h
    <3>1. \A S \in Small(m + 1) : S # {} => h[S \ {Greatest(S)}] = f[S \ {Greatest(S)}]
      BY <2>6 DEF h
    <3>2. h = [S \in Small(m + 1) |-> IF S = {} THEN b
                 ELSE Op(h[S \ {Greatest(S)}], q[Greatest(S)])]
      BY <3>1 DEF h
    <3>3. QED
      BY <3>2 DEF h
  <2> HIDE DEF Is, g
  <2>8. QED
    BY <2>7
<1> HIDE DEF G
<1>5. n \in G
  BY <1>3, <1>4, Inducts
<1>6. \E f : Is(f, SUBSET D)
  <2>1. \A S : S \in Small(n) <=> S \in SUBSET D
    <3>1. \A S \in SUBSET D : Cardinality(S) <= n
      BY <1>2
    <3>2. QED
      BY <1>13, <3>1
  <2>3. Small(n) = SUBSET D
    BY <2>1
  <2> HIDE DEF Is
  <2>2. QED
    BY <1>5, <2>3 DEF G
<1>7. Is(it, SUBSET D)
  <2> HIDE DEF Is
  <2>1. QED
    BY <1>6
<1> HIDE DEF it
<1>8. /\ it[{}] = b
      /\ \A S \in SUBSET D : S # {} =>
           it[S] = Op(it[S \ {Greatest(S)}], q[Greatest(S)])
  BY <1>7
<1> HIDE DEF Is
<1> DEFINE t == [k \in 0 .. n |-> it[1 .. k]]
<1>9. \A k \in 0 .. n - 1 : t[k + 1] = Op(t[k], q[k + 1])
  <2> SUFFICES ASSUME NEW k \in 0 .. n - 1 PROVE t[k + 1] = Op(t[k], q[k + 1])
    OBVIOUS
  <2>1. /\ Greatest(1 .. k + 1) = k + 1 /\ (1 .. k + 1) \ {k + 1} = 1 .. k
        /\ 1 .. k + 1 \in SUBSET D /\ 1 .. k + 1 # {}
    BY FirstOfFirst DEF D
  <2>2. it[1 .. k + 1] = Op(it[1 .. k], q[k + 1])
    BY <1>8, <2>1
  <2>3. t[k] = it[1 .. k] /\ t[k + 1] = it[1 .. k + 1]
    OBVIOUS
  <2> HIDE DEF t
  <2>4. QED
    BY <2>2, <2>3
<1>10. t[0] = b /\ t[n] = it[D]
  <2>1. 1 .. 0 = {} /\ 0 \in 0 .. n /\ n \in 0 .. n
    OBVIOUS
  <2>2. t[0] = it[1 .. 0] /\ t[n] = it[1 .. n]
    BY <2>1
  <2>3. QED
    BY <1>8, <2>1, <2>2 DEF D
<1> HIDE DEF t
<1>11. EncodesPages(t, b, q, n, l)
  BY <1>1, <1>9, <1>10 DEF EncodesPages, Op
<1>12. QED
  BY <1>11

(* The packets of a page, decoded.                                         *)
Decodes(t, b, q, n) ==
  /\ t[0] = b /\ t[n] = FoldLeft(DecodedPacket, b, q)
  /\ \A k \in 0 .. n - 1 : t[k + 1] = DecodedPacket(t[k], q[k + 1])

(* The packets that the decoder makes of symbols.                          *)
LEMMA DecodesIt ==
  ASSUME NEW q, NEW n \in Nat, DOMAIN q = 1 .. n, NEW b
  PROVE  \E t : Decodes(t, b, q, n)
<1> DEFINE Op(y, x) == DecodedPacket(y, x)
           D == 1 .. n
           Small(m) == {S \in SUBSET D : Cardinality(S) <= m}
           Is(f, P) == f = [S \in P |-> IF S = {} THEN b
                            ELSE Op(f[S \ {Greatest(S)}], q[Greatest(S)])]
           it == CHOOSE f : Is(f, SUBSET D)
           G == {m \in Nat : \E f : Is(f, Small(m))}
<1>1. FoldLeft(DecodedPacket, b, q) = it[D]
  BY DEF FoldLeft, MapThenFoldSet, Max, Greatest
<1>2. \A S \in SUBSET D :
        /\ IsFiniteSet(S) /\ Cardinality(S) \in Nat /\ Cardinality(S) <= n
        /\ S # {} => /\ Greatest(S) \in S
                      /\ Cardinality(S \ {Greatest(S)}) = Cardinality(S) - 1
  BY SubsetsOfFirst
<1> HIDE DEF D, Op
<1>13. \A m, S : S \in Small(m) <=> S \in SUBSET D /\ Cardinality(S) <= m
  OBVIOUS
<1> HIDE DEF Small
<1>3. 0 \in G
  <2> DEFINE f == [S \in Small(0) |-> b]
  <2>1. ASSUME NEW S \in Small(0) PROVE S = {}
    <3>1. S \in SUBSET D /\ Cardinality(S) <= 0
      BY <1>13
    <3>2. IsFiniteSet(S) /\ Cardinality(S) \in Nat
      BY <1>2, <3>1
    <3>3. Cardinality(S) = 0
      BY <3>1, <3>2
    <3>4. QED
      BY <3>2, <3>3, FS_EmptySet
  <2>2. Is(f, Small(0))
    BY <2>1
  <2> HIDE DEF Is, f
  <2>3. QED
    BY <2>2
<1>4. ASSUME NEW m \in Nat, m \in G PROVE m + 1 \in G
  <2>1. PICK f : Is(f, Small(m))
    BY <1>4
  <2> DEFINE g == [S \in Small(m + 1) |-> IF S = {} THEN b
                     ELSE Op(f[S \ {Greatest(S)}], q[Greatest(S)])]
  <2>2. \A S \in Small(m + 1) : S # {} => S \ {Greatest(S)} \in Small(m)
    <3> SUFFICES ASSUME NEW S \in Small(m + 1), S # {}
                 PROVE  S \ {Greatest(S)} \in Small(m)
      OBVIOUS
    <3> DEFINE r == S \ {Greatest(S)}
    <3>1. S \in SUBSET D /\ Cardinality(S) <= m + 1
      BY <1>13
    <3>2. Cardinality(S) \in Nat /\ Cardinality(r) = Cardinality(S) - 1
      BY <1>2, <3>1
    <3>3. r \in SUBSET D
      BY <3>1
    <3> HIDE DEF r
    <3>4. Cardinality(r) <= m
      BY <3>1, <3>2
    <3>5. r \in Small(m)
      BY <1>13, <3>3, <3>4
    <3>6. QED
      BY <3>5 DEF r
  <2>3. Small(m) \subseteq Small(m + 1)
    <3> SUFFICES ASSUME NEW S \in Small(m) PROVE S \in Small(m + 1)
      OBVIOUS
    <3>1. S \in SUBSET D /\ Cardinality(S) <= m
      BY <1>13
    <3>2. Cardinality(S) \in Nat
      BY <1>2, <3>1
    <3>3. Cardinality(S) <= m + 1
      BY <3>1, <3>2
    <3>4. QED
      BY <1>13, <3>1, <3>3
  <2>4. \A S \in Small(m) : f[S] = IF S = {} THEN b
                       ELSE Op(f[S \ {Greatest(S)}], q[Greatest(S)])
    BY <2>1
  <2>5. \A S \in Small(m) : g[S] = f[S]
    BY <2>3, <2>4
  <2>6. \A S \in Small(m + 1) : S # {} => g[S \ {Greatest(S)}] = f[S \ {Greatest(S)}]
    <3> HIDE DEF g
    <3>1. QED
      BY <2>2, <2>5
  <2>7. Is(g, Small(m + 1))
    <3> DEFINE h == g
    <3> HIDE DEF h
    <3>1. \A S \in Small(m + 1) : S # {} => h[S \ {Greatest(S)}] = f[S \ {Greatest(S)}]
      BY <2>6 DEF h
    <3>2. h = [S \in Small(m + 1) |-> IF S = {} THEN b
                 ELSE Op(h[S \ {Greatest(S)}], q[Greatest(S)])]
      BY <3>1 DEF h
    <3>3. QED
      BY <3>2 DEF h
  <2> HIDE DEF Is, g
  <2>8. QED
    BY <2>7
<1> HIDE DEF G
<1>5. n \in G
  BY <1>3, <1>4, Inducts
<1>6. \E f : Is(f, SUBSET D)
  <2>1. \A S : S \in Small(n) <=> S \in SUBSET D
    <3>1. \A S \in SUBSET D : Cardinality(S) <= n
      BY <1>2
    <3>2. QED
      BY <1>13, <3>1
  <2>3. Small(n) = SUBSET D
    BY <2>1
  <2> HIDE DEF Is
  <2>2. QED
    BY <1>5, <2>3 DEF G
<1>7. Is(it, SUBSET D)
  <2> HIDE DEF Is
  <2>1. QED
    BY <1>6
<1> HIDE DEF it
<1>8. /\ it[{}] = b
      /\ \A S \in SUBSET D : S # {} =>
           it[S] = Op(it[S \ {Greatest(S)}], q[Greatest(S)])
  BY <1>7
<1> HIDE DEF Is
<1> DEFINE t == [k \in 0 .. n |-> it[1 .. k]]
<1>9. \A k \in 0 .. n - 1 : t[k + 1] = Op(t[k], q[k + 1])
  <2> SUFFICES ASSUME NEW k \in 0 .. n - 1 PROVE t[k + 1] = Op(t[k], q[k + 1])
    OBVIOUS
  <2>1. /\ Greatest(1 .. k + 1) = k + 1 /\ (1 .. k + 1) \ {k + 1} = 1 .. k
        /\ 1 .. k + 1 \in SUBSET D /\ 1 .. k + 1 # {}
    BY FirstOfFirst DEF D
  <2>2. it[1 .. k + 1] = Op(it[1 .. k], q[k + 1])
    BY <1>8, <2>1
  <2>3. t[k] = it[1 .. k] /\ t[k + 1] = it[1 .. k + 1]
    OBVIOUS
  <2> HIDE DEF t
  <2>4. QED
    BY <2>2, <2>3
<1>10. t[0] = b /\ t[n] = it[D]
  <2>1. 1 .. 0 = {} /\ 0 \in 0 .. n /\ n \in 0 .. n
    OBVIOUS
  <2>2. t[0] = it[1 .. 0] /\ t[n] = it[1 .. n]
    BY <2>1
  <2>3. QED
    BY <1>8, <2>1, <2>2 DEF D
<1> HIDE DEF t
<1>11. Decodes(t, b, q, n)
  BY <1>1, <1>9, <1>10 DEF Decodes, Op
<1>12. QED
  BY <1>11

(* The pages of a link, decoded from the heads q.                          *)
DecodesPages(t, b, q, n, bulk, kept) ==
  /\ t[0] = b
  /\ t[n] = FoldLeft(LAMBDA d, head : DecodedPage(d, head, bulk, kept), b, q)
  /\ \A k \in 0 .. n - 1 : t[k + 1] = DecodedPage(t[k], q[k + 1], bulk, kept)

(* The pages that the decoder makes of heads.                              *)
LEMMA DecodesPagesIt ==
  ASSUME NEW q, NEW n \in Nat, DOMAIN q = 1 .. n, NEW b, NEW bulk, NEW kept
  PROVE  \E t : DecodesPages(t, b, q, n, bulk, kept)
<1> DEFINE Op(y, x) == DecodedPage(y, x, bulk, kept)
           D == 1 .. n
           Small(m) == {S \in SUBSET D : Cardinality(S) <= m}
           Is(f, P) == f = [S \in P |-> IF S = {} THEN b
                            ELSE Op(f[S \ {Greatest(S)}], q[Greatest(S)])]
           it == CHOOSE f : Is(f, SUBSET D)
           G == {m \in Nat : \E f : Is(f, Small(m))}
<1>1. FoldLeft(LAMBDA d, head : DecodedPage(d, head, bulk, kept), b, q) = it[D]
  BY DEF FoldLeft, MapThenFoldSet, Max, Greatest
<1>2. \A S \in SUBSET D :
        /\ IsFiniteSet(S) /\ Cardinality(S) \in Nat /\ Cardinality(S) <= n
        /\ S # {} => /\ Greatest(S) \in S
                      /\ Cardinality(S \ {Greatest(S)}) = Cardinality(S) - 1
  BY SubsetsOfFirst
<1> HIDE DEF D, Op
<1>13. \A m, S : S \in Small(m) <=> S \in SUBSET D /\ Cardinality(S) <= m
  OBVIOUS
<1> HIDE DEF Small
<1>3. 0 \in G
  <2> DEFINE f == [S \in Small(0) |-> b]
  <2>1. ASSUME NEW S \in Small(0) PROVE S = {}
    <3>1. S \in SUBSET D /\ Cardinality(S) <= 0
      BY <1>13
    <3>2. IsFiniteSet(S) /\ Cardinality(S) \in Nat
      BY <1>2, <3>1
    <3>3. Cardinality(S) = 0
      BY <3>1, <3>2
    <3>4. QED
      BY <3>2, <3>3, FS_EmptySet
  <2>2. Is(f, Small(0))
    BY <2>1
  <2> HIDE DEF Is, f
  <2>3. QED
    BY <2>2
<1>4. ASSUME NEW m \in Nat, m \in G PROVE m + 1 \in G
  <2>1. PICK f : Is(f, Small(m))
    BY <1>4
  <2> DEFINE g == [S \in Small(m + 1) |-> IF S = {} THEN b
                     ELSE Op(f[S \ {Greatest(S)}], q[Greatest(S)])]
  <2>2. \A S \in Small(m + 1) : S # {} => S \ {Greatest(S)} \in Small(m)
    <3> SUFFICES ASSUME NEW S \in Small(m + 1), S # {}
                 PROVE  S \ {Greatest(S)} \in Small(m)
      OBVIOUS
    <3> DEFINE r == S \ {Greatest(S)}
    <3>1. S \in SUBSET D /\ Cardinality(S) <= m + 1
      BY <1>13
    <3>2. Cardinality(S) \in Nat /\ Cardinality(r) = Cardinality(S) - 1
      BY <1>2, <3>1
    <3>3. r \in SUBSET D
      BY <3>1
    <3> HIDE DEF r
    <3>4. Cardinality(r) <= m
      BY <3>1, <3>2
    <3>5. r \in Small(m)
      BY <1>13, <3>3, <3>4
    <3>6. QED
      BY <3>5 DEF r
  <2>3. Small(m) \subseteq Small(m + 1)
    <3> SUFFICES ASSUME NEW S \in Small(m) PROVE S \in Small(m + 1)
      OBVIOUS
    <3>1. S \in SUBSET D /\ Cardinality(S) <= m
      BY <1>13
    <3>2. Cardinality(S) \in Nat
      BY <1>2, <3>1
    <3>3. Cardinality(S) <= m + 1
      BY <3>1, <3>2
    <3>4. QED
      BY <1>13, <3>1, <3>3
  <2>4. \A S \in Small(m) : f[S] = IF S = {} THEN b
                       ELSE Op(f[S \ {Greatest(S)}], q[Greatest(S)])
    BY <2>1
  <2>5. \A S \in Small(m) : g[S] = f[S]
    BY <2>3, <2>4
  <2>6. \A S \in Small(m + 1) : S # {} => g[S \ {Greatest(S)}] = f[S \ {Greatest(S)}]
    <3> HIDE DEF g
    <3>1. QED
      BY <2>2, <2>5
  <2>7. Is(g, Small(m + 1))
    <3> DEFINE h == g
    <3> HIDE DEF h
    <3>1. \A S \in Small(m + 1) : S # {} => h[S \ {Greatest(S)}] = f[S \ {Greatest(S)}]
      BY <2>6 DEF h
    <3>2. h = [S \in Small(m + 1) |-> IF S = {} THEN b
                 ELSE Op(h[S \ {Greatest(S)}], q[Greatest(S)])]
      BY <3>1 DEF h
    <3>3. QED
      BY <3>2 DEF h
  <2> HIDE DEF Is, g
  <2>8. QED
    BY <2>7
<1> HIDE DEF G
<1>5. n \in G
  BY <1>3, <1>4, Inducts
<1>6. \E f : Is(f, SUBSET D)
  <2>1. \A S : S \in Small(n) <=> S \in SUBSET D
    <3>1. \A S \in SUBSET D : Cardinality(S) <= n
      BY <1>2
    <3>2. QED
      BY <1>13, <3>1
  <2>3. Small(n) = SUBSET D
    BY <2>1
  <2> HIDE DEF Is
  <2>2. QED
    BY <1>5, <2>3 DEF G
<1>7. Is(it, SUBSET D)
  <2> HIDE DEF Is
  <2>1. QED
    BY <1>6
<1> HIDE DEF it
<1>8. /\ it[{}] = b
      /\ \A S \in SUBSET D : S # {} =>
           it[S] = Op(it[S \ {Greatest(S)}], q[Greatest(S)])
  BY <1>7
<1> HIDE DEF Is
<1> DEFINE t == [k \in 0 .. n |-> it[1 .. k]]
<1>9. \A k \in 0 .. n - 1 : t[k + 1] = Op(t[k], q[k + 1])
  <2> SUFFICES ASSUME NEW k \in 0 .. n - 1 PROVE t[k + 1] = Op(t[k], q[k + 1])
    OBVIOUS
  <2>1. /\ Greatest(1 .. k + 1) = k + 1 /\ (1 .. k + 1) \ {k + 1} = 1 .. k
        /\ 1 .. k + 1 \in SUBSET D /\ 1 .. k + 1 # {}
    BY FirstOfFirst DEF D
  <2>2. it[1 .. k + 1] = Op(it[1 .. k], q[k + 1])
    BY <1>8, <2>1
  <2>3. t[k] = it[1 .. k] /\ t[k + 1] = it[1 .. k + 1]
    OBVIOUS
  <2> HIDE DEF t
  <2>4. QED
    BY <2>2, <2>3
<1>10. t[0] = b /\ t[n] = it[D]
  <2>1. 1 .. 0 = {} /\ 0 \in 0 .. n /\ n \in 0 .. n
    OBVIOUS
  <2>2. t[0] = it[1 .. 0] /\ t[n] = it[1 .. n]
    BY <2>1
  <2>3. QED
    BY <1>8, <2>1, <2>2 DEF D
<1> HIDE DEF t
<1>11. DecodesPages(t, b, q, n, bulk, kept)
  BY <1>1, <1>9, <1>10 DEF DecodesPages, Op
<1>12. QED
  BY <1>11

(* The packets of the pages q, counted.                                    *)
Counts(t, b, q, n) ==
  /\ t[0] = b /\ t[n] = FoldLeft(LAMBDA m, p : m + Len(p.pkts), b, q)
  /\ \A k \in 0 .. n - 1 : t[k + 1] = t[k] + Len(q[k + 1].pkts)

(* The packets that are counted of pages.                                  *)
LEMMA CountsIt ==
  ASSUME NEW q, NEW n \in Nat, DOMAIN q = 1 .. n, NEW b
  PROVE  \E t : Counts(t, b, q, n)
<1> DEFINE Op(y, x) == y + Len(x.pkts)
           D == 1 .. n
           Small(m) == {S \in SUBSET D : Cardinality(S) <= m}
           Is(f, P) == f = [S \in P |-> IF S = {} THEN b
                            ELSE Op(f[S \ {Greatest(S)}], q[Greatest(S)])]
           it == CHOOSE f : Is(f, SUBSET D)
           G == {m \in Nat : \E f : Is(f, Small(m))}
<1>1. FoldLeft(LAMBDA m, p : m + Len(p.pkts), b, q) = it[D]
  BY DEF FoldLeft, MapThenFoldSet, Max, Greatest
<1>2. \A S \in SUBSET D :
        /\ IsFiniteSet(S) /\ Cardinality(S) \in Nat /\ Cardinality(S) <= n
        /\ S # {} => /\ Greatest(S) \in S
                      /\ Cardinality(S \ {Greatest(S)}) = Cardinality(S) - 1
  BY SubsetsOfFirst
<1> HIDE DEF D, Op
<1>13. \A m, S : S \in Small(m) <=> S \in SUBSET D /\ Cardinality(S) <= m
  OBVIOUS
<1> HIDE DEF Small
<1>3. 0 \in G
  <2> DEFINE f == [S \in Small(0) |-> b]
  <2>1. ASSUME NEW S \in Small(0) PROVE S = {}
    <3>1. S \in SUBSET D /\ Cardinality(S) <= 0
      BY <1>13
    <3>2. IsFiniteSet(S) /\ Cardinality(S) \in Nat
      BY <1>2, <3>1
    <3>3. Cardinality(S) = 0
      BY <3>1, <3>2
    <3>4. QED
      BY <3>2, <3>3, FS_EmptySet
  <2>2. Is(f, Small(0))
    BY <2>1
  <2> HIDE DEF Is, f
  <2>3. QED
    BY <2>2
<1>4. ASSUME NEW m \in Nat, m \in G PROVE m + 1 \in G
  <2>1. PICK f : Is(f, Small(m))
    BY <1>4
  <2> DEFINE g == [S \in Small(m + 1) |-> IF S = {} THEN b
                     ELSE Op(f[S \ {Greatest(S)}], q[Greatest(S)])]
  <2>2. \A S \in Small(m + 1) : S # {} => S \ {Greatest(S)} \in Small(m)
    <3> SUFFICES ASSUME NEW S \in Small(m + 1), S # {}
                 PROVE  S \ {Greatest(S)} \in Small(m)
      OBVIOUS
    <3> DEFINE r == S \ {Greatest(S)}
    <3>1. S \in SUBSET D /\ Cardinality(S) <= m + 1
      BY <1>13
    <3>2. Cardinality(S) \in Nat /\ Cardinality(r) = Cardinality(S) - 1
      BY <1>2, <3>1
    <3>3. r \in SUBSET D
      BY <3>1
    <3> HIDE DEF r
    <3>4. Cardinality(r) <= m
      BY <3>1, <3>2
    <3>5. r \in Small(m)
      BY <1>13, <3>3, <3>4
    <3>6. QED
      BY <3>5 DEF r
  <2>3. Small(m) \subseteq Small(m + 1)
    <3> SUFFICES ASSUME NEW S \in Small(m) PROVE S \in Small(m + 1)
      OBVIOUS
    <3>1. S \in SUBSET D /\ Cardinality(S) <= m
      BY <1>13
    <3>2. Cardinality(S) \in Nat
      BY <1>2, <3>1
    <3>3. Cardinality(S) <= m + 1
      BY <3>1, <3>2
    <3>4. QED
      BY <1>13, <3>1, <3>3
  <2>4. \A S \in Small(m) : f[S] = IF S = {} THEN b
                       ELSE Op(f[S \ {Greatest(S)}], q[Greatest(S)])
    BY <2>1
  <2>5. \A S \in Small(m) : g[S] = f[S]
    BY <2>3, <2>4
  <2>6. \A S \in Small(m + 1) : S # {} => g[S \ {Greatest(S)}] = f[S \ {Greatest(S)}]
    <3> HIDE DEF g
    <3>1. QED
      BY <2>2, <2>5
  <2>7. Is(g, Small(m + 1))
    <3> DEFINE h == g
    <3> HIDE DEF h
    <3>1. \A S \in Small(m + 1) : S # {} => h[S \ {Greatest(S)}] = f[S \ {Greatest(S)}]
      BY <2>6 DEF h
    <3>2. h = [S \in Small(m + 1) |-> IF S = {} THEN b
                 ELSE Op(h[S \ {Greatest(S)}], q[Greatest(S)])]
      BY <3>1 DEF h
    <3>3. QED
      BY <3>2 DEF h
  <2> HIDE DEF Is, g
  <2>8. QED
    BY <2>7
<1> HIDE DEF G
<1>5. n \in G
  BY <1>3, <1>4, Inducts
<1>6. \E f : Is(f, SUBSET D)
  <2>1. \A S : S \in Small(n) <=> S \in SUBSET D
    <3>1. \A S \in SUBSET D : Cardinality(S) <= n
      BY <1>2
    <3>2. QED
      BY <1>13, <3>1
  <2>3. Small(n) = SUBSET D
    BY <2>1
  <2> HIDE DEF Is
  <2>2. QED
    BY <1>5, <2>3 DEF G
<1>7. Is(it, SUBSET D)
  <2> HIDE DEF Is
  <2>1. QED
    BY <1>6
<1> HIDE DEF it
<1>8. /\ it[{}] = b
      /\ \A S \in SUBSET D : S # {} =>
           it[S] = Op(it[S \ {Greatest(S)}], q[Greatest(S)])
  BY <1>7
<1> HIDE DEF Is
<1> DEFINE t == [k \in 0 .. n |-> it[1 .. k]]
<1>9. \A k \in 0 .. n - 1 : t[k + 1] = Op(t[k], q[k + 1])
  <2> SUFFICES ASSUME NEW k \in 0 .. n - 1 PROVE t[k + 1] = Op(t[k], q[k + 1])
    OBVIOUS
  <2>1. /\ Greatest(1 .. k + 1) = k + 1 /\ (1 .. k + 1) \ {k + 1} = 1 .. k
        /\ 1 .. k + 1 \in SUBSET D /\ 1 .. k + 1 # {}
    BY FirstOfFirst DEF D
  <2>2. it[1 .. k + 1] = Op(it[1 .. k], q[k + 1])
    BY <1>8, <2>1
  <2>3. t[k] = it[1 .. k] /\ t[k + 1] = it[1 .. k + 1]
    OBVIOUS
  <2> HIDE DEF t
  <2>4. QED
    BY <2>2, <2>3
<1>10. t[0] = b /\ t[n] = it[D]
  <2>1. 1 .. 0 = {} /\ 0 \in 0 .. n /\ n \in 0 .. n
    OBVIOUS
  <2>2. t[0] = it[1 .. 0] /\ t[n] = it[1 .. n]
    BY <2>1
  <2>3. QED
    BY <1>8, <2>1, <2>2 DEF D
<1> HIDE DEF t
<1>11. Counts(t, b, q, n)
  BY <1>1, <1>9, <1>10 DEF Counts, Op
<1>12. QED
  BY <1>11

(* The links that the pages q of pg open.                                  *)
Finds(t, b, q, n, pg) ==
  /\ t[0] = b
  /\ t[n] = FoldLeft(LAMBDA ls, k : IF pg[k].open THEN Append(ls, Link(pg, k)) ELSE ls, b, q)
  /\ \A k \in 0 .. n - 1 :
       t[k + 1] = IF pg[q[k + 1]].open THEN Append(t[k], Link(pg, q[k + 1])) ELSE t[k]

(* The links that are found on pages.                                      *)
LEMMA FindsIt ==
  ASSUME NEW q, NEW n \in Nat, DOMAIN q = 1 .. n, NEW b, NEW pg
  PROVE  \E t : Finds(t, b, q, n, pg)
<1> DEFINE Op(y, x) == (IF pg[x].open THEN Append(y, Link(pg, x)) ELSE y)
           D == 1 .. n
           Small(m) == {S \in SUBSET D : Cardinality(S) <= m}
           Is(f, P) == f = [S \in P |-> IF S = {} THEN b
                            ELSE Op(f[S \ {Greatest(S)}], q[Greatest(S)])]
           it == CHOOSE f : Is(f, SUBSET D)
           G == {m \in Nat : \E f : Is(f, Small(m))}
<1>1. FoldLeft(LAMBDA ls, k : IF pg[k].open THEN Append(ls, Link(pg, k)) ELSE ls, b, q) = it[D]
  BY DEF FoldLeft, MapThenFoldSet, Max, Greatest
<1>2. \A S \in SUBSET D :
        /\ IsFiniteSet(S) /\ Cardinality(S) \in Nat /\ Cardinality(S) <= n
        /\ S # {} => /\ Greatest(S) \in S
                      /\ Cardinality(S \ {Greatest(S)}) = Cardinality(S) - 1
  BY SubsetsOfFirst
<1> HIDE DEF D, Op
<1>13. \A m, S : S \in Small(m) <=> S \in SUBSET D /\ Cardinality(S) <= m
  OBVIOUS
<1> HIDE DEF Small
<1>3. 0 \in G
  <2> DEFINE f == [S \in Small(0) |-> b]
  <2>1. ASSUME NEW S \in Small(0) PROVE S = {}
    <3>1. S \in SUBSET D /\ Cardinality(S) <= 0
      BY <1>13
    <3>2. IsFiniteSet(S) /\ Cardinality(S) \in Nat
      BY <1>2, <3>1
    <3>3. Cardinality(S) = 0
      BY <3>1, <3>2
    <3>4. QED
      BY <3>2, <3>3, FS_EmptySet
  <2>2. Is(f, Small(0))
    BY <2>1
  <2> HIDE DEF Is, f
  <2>3. QED
    BY <2>2
<1>4. ASSUME NEW m \in Nat, m \in G PROVE m + 1 \in G
  <2>1. PICK f : Is(f, Small(m))
    BY <1>4
  <2> DEFINE g == [S \in Small(m + 1) |-> IF S = {} THEN b
                     ELSE Op(f[S \ {Greatest(S)}], q[Greatest(S)])]
  <2>2. \A S \in Small(m + 1) : S # {} => S \ {Greatest(S)} \in Small(m)
    <3> SUFFICES ASSUME NEW S \in Small(m + 1), S # {}
                 PROVE  S \ {Greatest(S)} \in Small(m)
      OBVIOUS
    <3> DEFINE r == S \ {Greatest(S)}
    <3>1. S \in SUBSET D /\ Cardinality(S) <= m + 1
      BY <1>13
    <3>2. Cardinality(S) \in Nat /\ Cardinality(r) = Cardinality(S) - 1
      BY <1>2, <3>1
    <3>3. r \in SUBSET D
      BY <3>1
    <3> HIDE DEF r
    <3>4. Cardinality(r) <= m
      BY <3>1, <3>2
    <3>5. r \in Small(m)
      BY <1>13, <3>3, <3>4
    <3>6. QED
      BY <3>5 DEF r
  <2>3. Small(m) \subseteq Small(m + 1)
    <3> SUFFICES ASSUME NEW S \in Small(m) PROVE S \in Small(m + 1)
      OBVIOUS
    <3>1. S \in SUBSET D /\ Cardinality(S) <= m
      BY <1>13
    <3>2. Cardinality(S) \in Nat
      BY <1>2, <3>1
    <3>3. Cardinality(S) <= m + 1
      BY <3>1, <3>2
    <3>4. QED
      BY <1>13, <3>1, <3>3
  <2>4. \A S \in Small(m) : f[S] = IF S = {} THEN b
                       ELSE Op(f[S \ {Greatest(S)}], q[Greatest(S)])
    BY <2>1
  <2>5. \A S \in Small(m) : g[S] = f[S]
    BY <2>3, <2>4
  <2>6. \A S \in Small(m + 1) : S # {} => g[S \ {Greatest(S)}] = f[S \ {Greatest(S)}]
    <3> HIDE DEF g
    <3>1. QED
      BY <2>2, <2>5
  <2>7. Is(g, Small(m + 1))
    <3> DEFINE h == g
    <3> HIDE DEF h
    <3>1. \A S \in Small(m + 1) : S # {} => h[S \ {Greatest(S)}] = f[S \ {Greatest(S)}]
      BY <2>6 DEF h
    <3>2. h = [S \in Small(m + 1) |-> IF S = {} THEN b
                 ELSE Op(h[S \ {Greatest(S)}], q[Greatest(S)])]
      BY <3>1 DEF h
    <3>3. QED
      BY <3>2 DEF h
  <2> HIDE DEF Is, g
  <2>8. QED
    BY <2>7
<1> HIDE DEF G
<1>5. n \in G
  BY <1>3, <1>4, Inducts
<1>6. \E f : Is(f, SUBSET D)
  <2>1. \A S : S \in Small(n) <=> S \in SUBSET D
    <3>1. \A S \in SUBSET D : Cardinality(S) <= n
      BY <1>2
    <3>2. QED
      BY <1>13, <3>1
  <2>3. Small(n) = SUBSET D
    BY <2>1
  <2> HIDE DEF Is
  <2>2. QED
    BY <1>5, <2>3 DEF G
<1>7. Is(it, SUBSET D)
  <2> HIDE DEF Is
  <2>1. QED
    BY <1>6
<1> HIDE DEF it
<1>8. /\ it[{}] = b
      /\ \A S \in SUBSET D : S # {} =>
           it[S] = Op(it[S \ {Greatest(S)}], q[Greatest(S)])
  BY <1>7
<1> HIDE DEF Is
<1> DEFINE t == [k \in 0 .. n |-> it[1 .. k]]
<1>9. \A k \in 0 .. n - 1 : t[k + 1] = Op(t[k], q[k + 1])
  <2> SUFFICES ASSUME NEW k \in 0 .. n - 1 PROVE t[k + 1] = Op(t[k], q[k + 1])
    OBVIOUS
  <2>1. /\ Greatest(1 .. k + 1) = k + 1 /\ (1 .. k + 1) \ {k + 1} = 1 .. k
        /\ 1 .. k + 1 \in SUBSET D /\ 1 .. k + 1 # {}
    BY FirstOfFirst DEF D
  <2>2. it[1 .. k + 1] = Op(it[1 .. k], q[k + 1])
    BY <1>8, <2>1
  <2>3. t[k] = it[1 .. k] /\ t[k + 1] = it[1 .. k + 1]
    OBVIOUS
  <2> HIDE DEF t
  <2>4. QED
    BY <2>2, <2>3
<1>10. t[0] = b /\ t[n] = it[D]
  <2>1. 1 .. 0 = {} /\ 0 \in 0 .. n /\ n \in 0 .. n
    OBVIOUS
  <2>2. t[0] = it[1 .. 0] /\ t[n] = it[1 .. n]
    BY <2>1
  <2>3. QED
    BY <1>8, <2>1, <2>2 DEF D
<1> HIDE DEF t
<1>11. Finds(t, b, q, n, pg)
  BY <1>1, <1>9, <1>10 DEF Finds, Op
<1>12. QED
  BY <1>11

-----------------------------------------------------------------------------
(* What the encoder makes.                                                 *)

Packets == Audio \cup Headers
Vs == {v \in [su : Seq(Setups), cur : Nat, age : Nat] : v.cur <= Len(v.su)}
Hs == [last : Int, age : Nat]
States == [which : 0 .. 3, age : Nat, setup : {"none"} \cup Setups]
Symbols == [state : States, pk : Packets]
Heads == [serial : [age : Nat, delta : Int], eos : BOOLEAN, np : Nat]
Coders == [v : Vs, h : Hs, w : Nat, heads : Seq(Heads), bulk : Seq(Symbols), ok : BOOLEAN]

(* r is q and c behind it.                                                 *)
IsLonger(r, q, c) ==
  /\ Len(q) \in Nat /\ Len(r) = Len(q) + 1
  /\ r[Len(q) + 1] = c /\ \A k \in 1 .. Len(q) : r[k] = q[k]

(* A sequence with an element more.                                        *)
LEMMA Appended ==
  ASSUME NEW S, NEW q \in Seq(S), NEW c \in S
  PROVE  Append(q, c) \in Seq(S) /\ IsLonger(Append(q, c), q, c)
<1>1. Len(q) \in Nat
  BY LenProperties
<1> DEFINE r == Append(q, c)
<1>2. /\ r \in Seq(S) /\ Len(r) = Len(q) + 1
      /\ r[Len(q) + 1] = c /\ \A k \in 1 .. Len(q) : r[k] = q[k]
  BY AppendProperties
<1> HIDE DEF r
<1>3. QED
  BY <1>1, <1>2 DEF IsLonger, r

(* A packet that is coded: what it leaves of the models, and its symbol.   *)
Took(c, pk, r) ==
  /\ r.v = Seen(c.v, c.w, pk)
  /\ r.w = IF pk \in Headers THEN c.w + 1 ELSE c.w
  /\ IsLonger(r.bulk, c.bulk, [state |-> State(c.v, c.w), pk |-> pk])

(* A packet does one or the other, and nothing to the page's head.         *)
PacketCoded(c, pk, r) ==
  /\ r \in Coders /\ r.h = c.h /\ r.heads = c.heads
  /\ r.ok => c.ok /\ Parses(c.v, c.w, pk) /\ Took(c, pk, r)

(* A packet that parses leaves models.                                     *)
LEMMA SeenIs ==
  ASSUME NEW v \in Vs, NEW w \in Nat, NEW pk, Parses(v, w, pk)
  PROVE  Seen(v, w, pk) \in Vs
<1>1. v.su \in Seq(Setups) /\ v.cur \in Nat /\ v.age \in Nat /\ v.cur <= Len(v.su)
  BY DEF Vs
<1>2. CASE w = 2
  <2>1. pk \in Setups
    BY <1>2 DEF Parses
  <2> DEFINE s == Append(v.su, pk)
  <2>2. s \in Seq(Setups) /\ Len(s) = Len(v.su) + 1 /\ Len(v.su) \in Nat
    BY <1>1, <2>1, Appended DEF IsLonger
  <2> DEFINE u == [su |-> s, cur |-> Len(v.su) + 1, age |-> v.age + 1]
  <2>3. Seen(v, w, pk) = u
    BY <1>2 DEF Seen, Vs
  <2> HIDE DEF s
  <2>4. u \in Vs
    BY <1>1, <2>2 DEF Vs
  <2>5. QED
    BY <2>3, <2>4
<1>3. CASE w # 2
  <2>1. Seen(v, w, pk) = [v EXCEPT !.age = @ + 1]
    BY <1>3 DEF Seen
  <2>2. [v EXCEPT !.age = @ + 1] \in Vs
    BY <1>1 DEF Vs
  <2>3. QED
    BY <2>1, <2>2
<1>4. QED
  BY <1>2, <1>3

(* It is coded in one of the states of the packet layer, the third at      *)
(* most.                                                                   *)
LEMMA StateIs ==
  ASSUME NEW v \in Vs, NEW w \in Nat, NEW pk, Parses(v, w, pk)
  PROVE  State(v, w) \in States /\ pk \in Packets /\ w <= 3 /\ (pk \in Headers <=> w < 3)
<1>1. v.su \in Seq(Setups) /\ v.cur \in Nat /\ v.age \in Nat /\ v.cur <= Len(v.su)
  BY DEF Vs
<1>2. w <= 3 /\ (w = 3 => pk \in Audio /\ v.cur # 0) /\ (w < 3 => pk \in Headers)
  BY DEF Parses, Headers
<1>3. w = 3 => pk \notin Headers
  BY <1>2, PacketAssumption
<1>4. w = 3 => v.su[v.cur] \in Setups
  <2>1. w = 3 => v.cur \in 1 .. Len(v.su)
    BY <1>1, <1>2
  <2>2. QED
    BY <1>1, <2>1, ElementOfSeq
<1>5. State(v, w) \in States
  BY <1>1, <1>2, <1>4 DEF State, States
<1>6. QED
  BY <1>2, <1>3, <1>5 DEF Packets

(* A packet is coded or the coder is no longer all right.                  *)
LEMMA EncodedPacketIs ==
  ASSUME NEW c \in Coders, NEW pk, NEW r, r = EncodedPacket(c, pk)
  PROVE  PacketCoded(c, pk, r)
<1>1. /\ c.v \in Vs /\ c.h \in Hs /\ c.w \in Nat /\ c.heads \in Seq(Heads)
      /\ c.bulk \in Seq(Symbols) /\ c.ok \in BOOLEAN
      /\ c = [v |-> c.v, h |-> c.h, w |-> c.w, heads |-> c.heads, bulk |-> c.bulk, ok |-> c.ok]
  BY DEF Coders
<1>2. CASE c.ok /\ Parses(c.v, c.w, pk)
  <2> DEFINE s == [state |-> State(c.v, c.w), pk |-> pk]
             b == Append(c.bulk, s)
             x == IF pk \in Headers THEN c.w + 1 ELSE c.w
             u == Seen(c.v, c.w, pk)
             z == [v |-> u, h |-> c.h, w |-> x, heads |-> c.heads, bulk |-> b, ok |-> c.ok]
  <2>1. r = [c EXCEPT !.bulk = b, !.v = u, !.w = x]
    BY <1>2 DEF EncodedPacket
  <2>2. s \in Symbols
    BY <1>1, <1>2, StateIs DEF Symbols
  <2>3. b \in Seq(Symbols) /\ IsLonger(b, c.bulk, s)
    BY <1>1, <2>2, Appended
  <2>4. u \in Vs /\ x \in Nat
    BY <1>1, <1>2, SeenIs
  <2> HIDE DEF s, b, x, u
  <2>5. r = z
    BY <1>1, <2>1
  <2>6. z \in Coders
    BY <1>1, <2>3, <2>4 DEF Coders
  <2>7. /\ r \in Coders /\ r.h = c.h /\ r.heads = c.heads /\ r.v = u /\ r.w = x /\ r.bulk = b
    BY <2>5, <2>6
  <2>8. Took(c, pk, r)
    BY <2>3, <2>7 DEF Took, u, x, s
  <2>9. QED
    BY <1>2, <2>7, <2>8 DEF PacketCoded
<1>3. CASE ~(c.ok /\ Parses(c.v, c.w, pk))
  <2>1. r = [c EXCEPT !.ok = FALSE]
    BY <1>3 DEF EncodedPacket
  <2>2. r \in Coders /\ r.h = c.h /\ r.heads = c.heads /\ ~r.ok
    BY <1>1, <2>1 DEF Coders
  <2>3. QED
    BY <2>2 DEF PacketCoded
<1>4. QED
  BY <1>2, <1>3

(* The packets of a page, coded without a fault from c to r.               *)
Walk(t, c, r, q) ==
  /\ t[0] = c /\ t[Len(q)] = r
  /\ \A k \in 0 .. Len(q) : t[k] \in Coders
  /\ \A k \in 0 .. Len(q) - 1 :
       Parses(t[k].v, t[k].w, q[k + 1]) /\ Took(t[k], q[k + 1], t[k + 1])

PacketsCoded(c, q, r) ==
  /\ r \in Coders /\ r.h = c.h /\ r.heads = c.heads
  /\ r.ok => c.ok /\ \E t : Walk(t, c, r, q)

(* So are the packets of a page.                                           *)
LEMMA EncodedPacketsAre ==
  ASSUME NEW c \in Coders, NEW S, NEW q \in Seq(S), NEW r, r = FoldLeft(EncodedPacket, c, q)
  PROVE  PacketsCoded(c, q, r)
<1> DEFINE n == Len(q)
<1>1. n \in Nat /\ DOMAIN q = 1 .. n
  BY LenProperties
<1>2. PICK t : Encodes(t, c, q, n)
  <2> HIDE DEF n
  <2>1. QED
    BY <1>1, EncodesIt
<1> HIDE DEF n
<1>3. /\ t[0] = c /\ t[n] = r
      /\ \A k \in 0 .. n - 1 : t[k + 1] = EncodedPacket(t[k], q[k + 1])
  BY <1>2 DEF Encodes
<1> DEFINE G == {k \in Nat : k <= n => t[k] \in Coders /\ t[k].h = c.h /\ t[k].heads = c.heads}
<1>4. 0 \in G
  BY <1>3
<1>5. \A k \in 0 .. n - 1 : t[k] \in Coders => PacketCoded(t[k], q[k + 1], t[k + 1])
  BY <1>3, EncodedPacketIs
<1>6. ASSUME NEW k \in Nat, k \in G PROVE k + 1 \in G
  <2> SUFFICES ASSUME k + 1 <= n
               PROVE  t[k + 1] \in Coders /\ t[k + 1].h = c.h /\ t[k + 1].heads = c.heads
    OBVIOUS
  <2>1. k <= n /\ k \in 0 .. n - 1
    BY <1>1
  <2>2. PacketCoded(t[k], q[k + 1], t[k + 1])
    BY <1>5, <1>6, <2>1
  <2>3. QED
    BY <1>6, <2>1, <2>2 DEF PacketCoded
<1> HIDE DEF G
<1>7. \A k \in Nat : k \in G
  BY <1>4, <1>6, Inducts
<1>8. \A k \in 0 .. n : t[k] \in Coders /\ t[k].h = c.h /\ t[k].heads = c.heads
  BY <1>1, <1>7 DEF G
<1>9. ASSUME r.ok PROVE c.ok /\ Walk(t, c, r, q)
  <2> DEFINE B == {k \in Nat : k <= n => t[n - k].ok}
  <2>1. 0 \in B
    BY <1>1, <1>3, <1>9
  <2>2. ASSUME NEW k \in Nat, k \in B PROVE k + 1 \in B
    <3> SUFFICES ASSUME k + 1 <= n PROVE t[n - (k + 1)].ok
      OBVIOUS
    <3> DEFINE j == n - (k + 1)
    <3>1. j \in 0 .. n - 1 /\ j \in 0 .. n /\ j + 1 = n - k /\ k <= n
      BY <1>1
    <3> HIDE DEF j
    <3>2. PacketCoded(t[j], q[j + 1], t[j + 1]) /\ t[j + 1].ok
      BY <1>5, <1>8, <2>2, <3>1
    <3>3. QED
      BY <3>2 DEF PacketCoded, j
  <2> HIDE DEF B
  <2>3. \A k \in Nat : k \in B
    BY <2>1, <2>2, Inducts
  <2>4. \A k \in 0 .. n : t[k].ok
    <3> SUFFICES ASSUME NEW k \in 0 .. n PROVE t[k].ok
      OBVIOUS
    <3>1. n - k \in Nat /\ n - (n - k) = k /\ n - k <= n
      BY <1>1
    <3>2. n - k \in B
      BY <2>3, <3>1
    <3>3. QED
      BY <3>1, <3>2 DEF B
  <2>5. \A k \in 0 .. n - 1 : Parses(t[k].v, t[k].w, q[k + 1]) /\ Took(t[k], q[k + 1], t[k + 1])
    <3> SUFFICES ASSUME NEW k \in 0 .. n - 1
                 PROVE  Parses(t[k].v, t[k].w, q[k + 1]) /\ Took(t[k], q[k + 1], t[k + 1])
      OBVIOUS
    <3>1. k \in 0 .. n /\ k + 1 \in 0 .. n
      BY <1>1
    <3>2. PacketCoded(t[k], q[k + 1], t[k + 1]) /\ t[k + 1].ok
      BY <1>5, <1>8, <2>4, <3>1
    <3>3. QED
      BY <3>2 DEF PacketCoded
  <2>6. c.ok
    BY <1>1, <1>3, <2>4
  <2>7. Walk(t, c, r, q)
    BY <1>3, <1>8, <2>5 DEF Walk, n
  <2>8. QED
    BY <2>6, <2>7
<1>10. r \in Coders /\ r.h = c.h /\ r.heads = c.heads
  BY <1>1, <1>3, <1>8
<1>11. QED
  BY <1>9, <1>10 DEF PacketsCoded

(* The symbol of packet k + 1 on such a walk.                              *)
SymbolAt(t, q, k) == [state |-> State(t[k].v, t[k].w), pk |-> q[k + 1]]

(* From c on a coder has added the symbols of the packets q.               *)
HasSymbols(t, c, b, q) ==
  /\ Len(b) = Len(c.bulk) + Len(q) /\ \A i \in 1 .. Len(c.bulk) : b[i] = c.bulk[i]
  /\ \A k \in 0 .. Len(q) - 1 : b[Len(c.bulk) + k + 1] = SymbolAt(t, q, k)

(* A walk leaves the symbol of each packet in the state it was coded in.   *)
LEMMA WalkLeavesSymbols ==
  ASSUME NEW c, NEW r, NEW S, NEW q \in Seq(S), NEW t, Walk(t, c, r, q)
  PROVE  HasSymbols(t, c, r.bulk, q)
<1> DEFINE n == Len(q)
           L == Len(c.bulk)
           b(k) == t[k].bulk
           G == {k \in Nat : k <= n => /\ Len(b(k)) = L + k /\ \A i \in 1 .. L : b(k)[i] = c.bulk[i]
                                       /\ \A j \in 0 .. k - 1 : b(k)[L + j + 1] = SymbolAt(t, q, j)}
<1>1. n \in Nat
  BY LenProperties
<1>2. /\ t[0] = c /\ t[n] = r /\ \A k \in 0 .. n : t[k] \in Coders
      /\ \A k \in 0 .. n - 1 : Took(t[k], q[k + 1], t[k + 1])
  BY DEF Walk
<1>3. L \in Nat
  <2>1. c \in Coders
    BY <1>1, <1>2
  <2>2. QED
    BY <2>1, LenProperties DEF Coders
<1> HIDE DEF n, L
<1>4. 0 \in G
  <2>1. b(0) = c.bulk /\ Len(b(0)) = L + 0
    BY <1>2, <1>3 DEF L
  <2> HIDE DEF b
  <2>2. QED
    BY <2>1
<1>5. ASSUME NEW k \in Nat, k \in G PROVE k + 1 \in G
  <2> SUFFICES ASSUME k + 1 <= n
               PROVE  /\ Len(b(k + 1)) = L + (k + 1)
                      /\ \A i \in 1 .. L : b(k + 1)[i] = c.bulk[i]
                      /\ \A j \in 0 .. (k + 1) - 1 : b(k + 1)[L + j + 1] = SymbolAt(t, q, j)
    OBVIOUS
  <2>1. k \in 0 .. n - 1 /\ k <= n
    BY <1>1
  <2>2. IsLonger(b(k + 1), b(k), SymbolAt(t, q, k))
    BY <1>2, <2>1 DEF Took, SymbolAt
  <2> DEFINE x == b(k)
             y == b(k + 1)
             z == SymbolAt(t, q, k)
  <2>3. /\ Len(x) = L + k /\ \A i \in 1 .. L : x[i] = c.bulk[i]
        /\ \A j \in 0 .. k - 1 : x[L + j + 1] = SymbolAt(t, q, j)
    BY <1>5, <2>1
  <2> HIDE DEF b
  <2>4. Len(y) = Len(x) + 1 /\ y[Len(x) + 1] = z /\ \A i \in 1 .. Len(x) : y[i] = x[i]
    BY <2>2 DEF IsLonger
  <2> HIDE DEF x, y, z
  <2>5. Len(y) = L + (k + 1)
    BY <1>3, <2>3, <2>4
  <2>6. \A i \in 1 .. L : y[i] = c.bulk[i]
    BY <1>3, <2>3, <2>4
  <2>7. \A j \in 0 .. (k + 1) - 1 : y[L + j + 1] = SymbolAt(t, q, j)
    <3> SUFFICES ASSUME NEW j \in 0 .. (k + 1) - 1 PROVE y[L + j + 1] = SymbolAt(t, q, j)
      OBVIOUS
    <3>1. CASE j = k
      BY <1>3, <2>3, <2>4, <3>1 DEF z
    <3>2. CASE j # k
      <4>1. j \in 0 .. k - 1 /\ L + j + 1 \in 1 .. Len(x)
        BY <1>3, <2>3, <3>2
      <4>2. QED
        BY <2>3, <2>4, <4>1
    <3>3. QED
      BY <3>1, <3>2
  <2>8. QED
    BY <2>5, <2>6, <2>7 DEF y
<1> HIDE DEF G
<1>6. n \in G
  BY <1>1, <1>4, <1>5, Inducts
<1>7. /\ Len(b(n)) = L + n /\ \A i \in 1 .. L : b(n)[i] = c.bulk[i]
      /\ \A j \in 0 .. n - 1 : b(n)[L + j + 1] = SymbolAt(t, q, j)
  BY <1>1, <1>6 DEF G
<1>8. QED
  BY <1>2, <1>7 DEF HasSymbols, n, L

(* A page whose head and packets are coded, from c to r.                   *)
HeadOf(c, p) == [serial |-> PutSerial(c.h, p.serial), eos |-> p.eos, np |-> Len(p.pkts)]

PageCoded(c, p, r) ==
  /\ r.h = SerialSeen(c.h, p.serial) /\ IsLonger(r.heads, c.heads, HeadOf(c, p))
  /\ \E t, o : /\ o.v = c.v /\ o.w = c.w /\ o.bulk = c.bulk
               /\ Walk(t, o, r, p.pkts) /\ HasSymbols(t, c, r.bulk, p.pkts)

(* A page that is skipped is only counted.                                 *)
PageSkipped(c, p, r) ==
  /\ r.v = c.v /\ r.h = c.h /\ r.w = c.w + Len(p.pkts)
  /\ r.heads = c.heads /\ r.bulk = c.bulk

(* A page of headers that are reused is skipped.                           *)
LEMMA SkippedIs ==
  ASSUME NEW c \in Coders, NEW p \in Pages, NEW r, r = EncodedPage(c, p, TRUE)
  PROVE  r \in Coders /\ PageSkipped(c, p, r) /\ (r.ok => c.ok)
<1>1. r = [c EXCEPT !.w = @ + Len(p.pkts)]
  BY DEF EncodedPage
<1>2. Len(p.pkts) \in Nat
  BY LenProperties DEF Pages
<1>3. /\ c.v \in Vs /\ c.h \in Hs /\ c.w \in Nat /\ c.heads \in Seq(Heads)
      /\ c.bulk \in Seq(Symbols) /\ c.ok \in BOOLEAN
      /\ c = [v |-> c.v, h |-> c.h, w |-> c.w, heads |-> c.heads, bulk |-> c.bulk, ok |-> c.ok]
  BY DEF Coders
<1> DEFINE x == c.w + Len(p.pkts)
           o == [v |-> c.v, h |-> c.h, w |-> x, heads |-> c.heads, bulk |-> c.bulk, ok |-> c.ok]
<1>4. x \in Nat
  BY <1>2, <1>3
<1>5. r = [c EXCEPT !.w = x]
  BY <1>1
<1> HIDE DEF x
<1>6. r = o
  BY <1>3, <1>5
<1>7. o \in Coders
  BY <1>3, <1>4 DEF Coders
<1>8. o.v = c.v /\ o.h = c.h /\ o.w = x /\ o.heads = c.heads /\ o.bulk = c.bulk /\ o.ok = c.ok
  OBVIOUS
<1> HIDE DEF o
<1>9. QED
  BY <1>6, <1>7, <1>8 DEF PageSkipped, x

(* Any other page is coded, head and packets.                              *)
LEMMA EncodedIs ==
  ASSUME NEW c \in Coders, NEW p \in Pages, NEW r, r = EncodedPage(c, p, FALSE)
  PROVE  r \in Coders /\ (r.ok => c.ok /\ PageCoded(c, p, r))
<1> DEFINE x == HeadOf(c, p)
           a == Append(c.heads, x)
           g == SerialSeen(c.h, p.serial)
           o == [v |-> c.v, h |-> g, w |-> c.w, heads |-> a, bulk |-> c.bulk, ok |-> c.ok]
<1>1. /\ c.v \in Vs /\ c.h \in Hs /\ c.w \in Nat /\ c.heads \in Seq(Heads)
      /\ c.bulk \in Seq(Symbols) /\ c.ok \in BOOLEAN
      /\ c = [v |-> c.v, h |-> c.h, w |-> c.w, heads |-> c.heads, bulk |-> c.bulk, ok |-> c.ok]
  BY DEF Coders
<1>2. p.serial \in Int /\ p.eos \in BOOLEAN /\ p.pkts \in Seq(Packets) /\ Len(p.pkts) \in Nat
  BY LenProperties DEF Pages, Packets
<1>3. x \in Heads /\ g \in Hs
  BY <1>1, <1>2 DEF HeadOf, Heads, PutSerial, SerialSeen, Hs
<1>4. a \in Seq(Heads) /\ IsLonger(a, c.heads, x)
  BY <1>1, <1>3, Appended
<1>5. r = FoldLeft(EncodedPacket, [c EXCEPT !.heads = a, !.h = g], p.pkts)
  BY DEF EncodedPage, HeadOf
<1> HIDE DEF a, g, x
<1>6. [c EXCEPT !.heads = a, !.h = g] = o
  <2> DEFINE b == [v |-> c.v, h |-> c.h, w |-> c.w, heads |-> a, bulk |-> c.bulk, ok |-> c.ok]
  <2>1. [c EXCEPT !.heads = a] = b
    BY <1>1
  <2>2. [b EXCEPT !.h = g] = o
    OBVIOUS
  <2>3. QED
    BY <2>1, <2>2
<1>7. o \in Coders
  BY <1>1, <1>3, <1>4 DEF Coders
<1>8. o.v = c.v /\ o.w = c.w /\ o.bulk = c.bulk /\ o.h = g /\ o.heads = a /\ o.ok = c.ok
  OBVIOUS
<1> HIDE DEF o
<1>9. PacketsCoded(o, p.pkts, r)
  <2> DEFINE q == p.pkts
  <2>1. q \in Seq(Packets) /\ r = FoldLeft(EncodedPacket, o, q)
    BY <1>2, <1>5, <1>6
  <2> HIDE DEF q
  <2>2. PacketsCoded(o, q, r)
    BY <1>7, <2>1, EncodedPacketsAre
  <2>3. QED
    BY <2>2 DEF q
<1>10. r \in Coders /\ r.h = g /\ r.heads = a
  BY <1>8, <1>9 DEF PacketsCoded
<1>11. ASSUME r.ok PROVE c.ok /\ PageCoded(c, p, r)
  <2>1. c.ok
    BY <1>8, <1>9, <1>11 DEF PacketsCoded
  <2>2. PICK t : Walk(t, o, r, p.pkts)
    BY <1>9, <1>11 DEF PacketsCoded
  <2>3. HasSymbols(t, o, r.bulk, p.pkts)
    BY <1>2, <2>2, WalkLeavesSymbols
  <2>4. HasSymbols(t, c, r.bulk, p.pkts)
    BY <1>8, <2>3 DEF HasSymbols
  <2>5. QED
    BY <1>4, <1>8, <1>10, <2>1, <2>2, <2>4 DEF PageCoded, x, g
<1>12. QED
  BY <1>10, <1>11

-----------------------------------------------------------------------------
(* What the decoder makes of it.                                           *)
Dec(v, h, w, n, used, pkts, out) ==
  [v |-> v, h |-> h, w |-> w, n |-> n, used |-> used, pkts |-> pkts, out |-> out]

(* A symbol decoded in the state it was coded in is its packet.            *)
LEMMA DecodedPacketIs ==
  ASSUME NEW v, NEW h, NEW w, NEW n, NEW used, NEW pkts, NEW out, NEW d,
         d = Dec(v, h, w, n, used, pkts, out), NEW s, s.state = State(v, w)
  PROVE  DecodedPacket(d, s)
           = Dec(Seen(v, w, s.pk), h, IF w < 3 THEN w + 1 ELSE w, n, used, Append(pkts, s.pk), out)
<1>1. d.v = v /\ d.w = w /\ d.pkts = pkts
  BY DEF Dec
<1> DEFINE x == Append(pkts, s.pk)
           y == Seen(v, w, s.pk)
           z == IF w < 3 THEN w + 1 ELSE w
<1>2. DecodedPacket(d, s) = [d EXCEPT !.pkts = x, !.v = y, !.w = z]
  BY <1>1 DEF DecodedPacket
<1> HIDE DEF x, y, z
<1> DEFINE e == Dec(v, h, w, n, used, x, out)
           f == Dec(y, h, w, n, used, x, out)
<1>3. [d EXCEPT !.pkts = x] = e
  BY DEF Dec
<1>5. [e EXCEPT !.v = y] = f
  BY DEF Dec
<1>6. [f EXCEPT !.w = z] = Dec(y, h, z, n, used, x, out)
  BY DEF Dec
<1> HIDE DEF e, f
<1>4. QED
  BY <1>2, <1>3, <1>5, <1>6 DEF x, y, z

(* The first k of a sequence.                                              *)
LEMMA FirstMore ==
  ASSUME NEW S, NEW q \in Seq(S), NEW k \in 0 .. Len(q) - 1
  PROVE  SubSeq(q, 1, k + 1) = Append(SubSeq(q, 1, k), q[k + 1])
<1>1. Len(q) \in Nat /\ k + 1 \in 1 .. Len(q) /\ k \in Int /\ \A i \in 1 .. Len(q) : q[i] \in S
  BY LenProperties, ElementOfSeq
<1> DEFINE x == SubSeq(q, 1, k)
           y == SubSeq(q, 1, k + 1)
           z == Append(x, q[k + 1])
<1>2. x \in Seq(S) /\ Len(x) = k /\ \A i \in 1 .. k : x[i] = q[i]
  <2>1. \A i \in 1 .. k : q[i] \in S
    BY <1>1
  <2>2. /\ x \in Seq(S) /\ Len(x) = (IF 1 <= k THEN k - 1 + 1 ELSE 0)
        /\ \A i \in 1 .. k - 1 + 1 : x[i] = q[1 + i - 1]
    BY <1>1, <2>1, SubSeqProperties
  <2> HIDE DEF x
  <2>3. QED
    BY <1>1, <2>2
<1>3. y \in Seq(S) /\ Len(y) = k + 1 /\ \A i \in 1 .. k + 1 : y[i] = q[i]
  <2> DEFINE m == k + 1
  <2>1. m \in Int /\ \A i \in 1 .. m : q[i] \in S
    BY <1>1
  <2> HIDE DEF m
  <2>2. /\ SubSeq(q, 1, m) \in Seq(S) /\ Len(SubSeq(q, 1, m)) = (IF 1 <= m THEN m - 1 + 1 ELSE 0)
        /\ \A i \in 1 .. m - 1 + 1 : SubSeq(q, 1, m)[i] = q[1 + i - 1]
    BY <2>1, SubSeqProperties
  <2>3. y = SubSeq(q, 1, m)
    BY DEF m
  <2> HIDE DEF y
  <2>4. QED
    BY <1>1, <2>2, <2>3 DEF m
<1> HIDE DEF x, y
<1>4. z \in Seq(S) /\ IsLonger(z, x, q[k + 1])
  BY <1>1, <1>2, Appended
<1> HIDE DEF z
<1>5. Len(z) = Len(y) /\ \A i \in 1 .. Len(y) : y[i] = z[i]
  <2>1. Len(z) = k + 1 /\ z[k + 1] = q[k + 1] /\ \A i \in 1 .. k : z[i] = x[i]
    BY <1>2, <1>4 DEF IsLonger
  <2>2. \A i \in 1 .. k + 1 : i = k + 1 \/ i \in 1 .. k
    BY <1>1
  <2>3. QED
    BY <1>2, <1>3, <2>1, <2>2
<1>6. y = z
  BY <1>3, <1>4, <1>5, SeqEqual
<1>7. QED
  BY <1>6 DEF x, y, z

(* The first of no packets, and of all.                                    *)
LEMMA FirstEnds ==
  ASSUME NEW S, NEW q \in Seq(S)
  PROVE  SubSeq(q, 1, 0) = <<>> /\ SubSeq(q, 1, Len(q)) = q
<1>1. Len(q) \in Nat /\ \A i \in 1 .. Len(q) : q[i] \in S
  BY LenProperties, ElementOfSeq
<1>2. SubSeq(q, 1, 0) = <<>>
  <2> DEFINE x == SubSeq(q, 1, 0)
             m == 0
  <2>1. m \in Int /\ \A i \in 1 .. m : q[i] \in S
    OBVIOUS
  <2> HIDE DEF m
  <2>2. SubSeq(q, 1, m) \in Seq(S) /\ Len(SubSeq(q, 1, m)) = (IF 1 <= m THEN m - 1 + 1 ELSE 0)
    BY <2>1, SubSeqProperties
  <2>3. x \in Seq(S) /\ Len(x) = 0
    BY <2>2 DEF m
  <2> HIDE DEF x
  <2>4. x = <<>>
    BY <2>3, EmptySeq
  <2>5. QED
    BY <2>4 DEF x
<1>3. SubSeq(q, 1, Len(q)) = q
  <2> DEFINE m == Len(q)
  <2>1. m \in Int /\ \A i \in 1 .. m : q[i] \in S
    BY <1>1
  <2> HIDE DEF m
  <2>2. /\ SubSeq(q, 1, m) \in Seq(S) /\ Len(SubSeq(q, 1, m)) = (IF 1 <= m THEN m - 1 + 1 ELSE 0)
        /\ \A i \in 1 .. m - 1 + 1 : SubSeq(q, 1, m)[i] = q[1 + i - 1]
    BY <2>1, SubSeqProperties
  <2> DEFINE x == SubSeq(q, 1, m)
  <2>3. x \in Seq(S) /\ Len(x) = Len(q) /\ \A i \in 1 .. Len(q) : x[i] = q[i]
    BY <1>1, <2>2 DEF m
  <2> HIDE DEF x
  <2>4. x = q
    BY <2>3, SeqEqual
  <2>5. QED
    BY <2>4 DEF x, m
<1>4. QED
  BY <1>2, <1>3

IsDec(e, v, h, w, n, used, pkts, out) == e = Dec(v, h, w, n, used, pkts, out)

(* The symbols of a walk, decoded by a decoder in step with it.            *)
LEMMA DecodesWalk ==
  ASSUME NEW S, NEW q \in Seq(S), NEW t, NEW o, NEW r, Walk(t, o, r, q),
         NEW x, DOMAIN x = 1 .. Len(q), \A k \in 0 .. Len(q) - 1 : x[k + 1] = SymbolAt(t, q, k),
         NEW h, NEW n, NEW used, NEW out, NEW d, IsDec(d, o.v, h, o.w, n, used, <<>>, out)
  PROVE  IsDec(FoldLeft(DecodedPacket, d, x), r.v, h, r.w, n, used, q, out)
<1> DEFINE m == Len(q)
           p(k) == SubSeq(q, 1, k)
<1>1. m \in Nat
  BY LenProperties
<1>2. PICK u : Decodes(u, d, x, m)
  <2> HIDE DEF m
  <2>1. DOMAIN x = 1 .. m
    BY DEF m
  <2>2. QED
    BY <1>1, <2>1, DecodesIt
<1>3. /\ t[0] = o /\ t[m] = r /\ \A k \in 0 .. m : t[k] \in Coders
      /\ \A k \in 0 .. m - 1 : Parses(t[k].v, t[k].w, q[k + 1]) /\ Took(t[k], q[k + 1], t[k + 1])
  BY DEF Walk
<1>4. p(0) = <<>> /\ p(m) = q /\ \A k \in 0 .. m - 1 : p(k + 1) = Append(p(k), q[k + 1])
  BY FirstEnds, FirstMore
<1>5. \A k \in 0 .. m - 1 : x[k + 1] = SymbolAt(t, q, k)
  OBVIOUS
<1>6. u[0] = d /\ u[m] = FoldLeft(DecodedPacket, d, x)
      /\ \A k \in 0 .. m - 1 : u[k + 1] = DecodedPacket(u[k], x[k + 1])
  BY <1>2 DEF Decodes
<1> HIDE DEF m, p
<1> DEFINE G == {k \in Nat : k <= m => IsDec(u[k], t[k].v, h, t[k].w, n, used, p(k), out)}
<1>7. 0 \in G
  BY <1>3, <1>4, <1>6
<1>8. ASSUME NEW k \in Nat, k \in G PROVE k + 1 \in G
  <2> SUFFICES ASSUME k + 1 <= m
               PROVE  IsDec(u[k + 1], t[k + 1].v, h, t[k + 1].w, n, used, p(k + 1), out)
    OBVIOUS
  <2>1. k \in 0 .. m - 1 /\ k <= m /\ k \in 0 .. m
    BY <1>1
  <2>2. IsDec(u[k], t[k].v, h, t[k].w, n, used, p(k), out)
    BY <1>8, <2>1
  <2> DEFINE c == t[k]
             g == t[k + 1]
             y == q[k + 1]
             s == x[k + 1]
             z == u[k]
  <2>3. c \in Coders /\ Parses(c.v, c.w, y) /\ Took(c, y, g)
    BY <1>3, <2>1
  <2>4. s = SymbolAt(t, q, k) /\ u[k + 1] = DecodedPacket(z, s) /\ p(k + 1) = Append(p(k), y)
    BY <1>4, <1>5, <1>6, <2>1
  <2>5. s.state = State(c.v, c.w) /\ s.pk = y
    BY <2>4 DEF SymbolAt
  <2> HIDE DEF c, g, y, s, z
  <2>6. c.v \in Vs /\ c.w \in Nat
    BY <2>3 DEF Coders
  <2>7. y \in Headers <=> c.w < 3
    BY <2>3, <2>6, StateIs
  <2>8. g.v = Seen(c.v, c.w, y) /\ g.w = IF c.w < 3 THEN c.w + 1 ELSE c.w
    BY <2>3, <2>7 DEF Took
  <2>9. IsDec(z, c.v, h, c.w, n, used, p(k), out)
    BY <2>2 DEF z, c
  <2>10. IsDec(DecodedPacket(z, s), Seen(c.v, c.w, s.pk), h, IF c.w < 3 THEN c.w + 1 ELSE c.w,
               n, used, Append(p(k), s.pk), out)
    BY <2>5, <2>9, DecodedPacketIs DEF IsDec
  <2>11. IsDec(u[k + 1], g.v, h, g.w, n, used, p(k + 1), out)
    BY <2>4, <2>5, <2>8, <2>10
  <2>12. QED
    BY <2>11 DEF g
<1> HIDE DEF G
<1>9. m \in G
  BY <1>1, <1>7, <1>8, Inducts
<1>10. IsDec(u[m], t[m].v, h, t[m].w, n, used, p(m), out)
  BY <1>1, <1>9 DEF G
<1>11. QED
  BY <1>3, <1>4, <1>6, <1>10

-----------------------------------------------------------------------------
(* b starts with a.                                                        *)
Starts(a, b) ==
  Len(a) \in Nat /\ Len(b) \in Nat /\ Len(a) <= Len(b) /\ \A i \in 1 .. Len(a) : b[i] = a[i]

(* What a link's first page is followed by, of the pages that were kept.   *)
Behind(n, kept, serial) == IF n = 0 THEN replay(kept.off, kept.len, serial) ELSE <<>>

DecodedAs(c, p, r, d, e, kept, bulk) ==
  \A n, out, pk :
    IsDec(d, c.v, c.h, c.w, n, Len(c.bulk), pk, out)
    => IsDec(e, r.v, r.h, IF n = 0 THEN r.w + kept.npk ELSE r.w, n + 1, Len(r.bulk), p.pkts,
             out \o << [open |-> n = 0, eos |-> p.eos, serial |-> p.serial, pkts |-> p.pkts] >>
                 \o Behind(n, kept, p.serial))

(* The difference to a predicted serial gives it back.                     *)
LEMMA SerialComesBack ==
  ASSUME NEW h \in Hs, NEW serial \in Int
  PROVE  GetSerial(h, PutSerial(h, serial)) = serial
BY DEF GetSerial, PutSerial, Hs

(* A page comes back from its head and its symbols.                        *)
LEMMA PageDecodes ==
  ASSUME NEW c \in Coders, NEW r \in Coders, NEW p \in Pages, PageCoded(c, p, r),
         NEW bulk \in Seq(Symbols), Starts(r.bulk, bulk), NEW kept, NEW d, NEW head,
         head = HeadOf(c, p)
  PROVE  DecodedAs(c, p, r, d, DecodedPage(d, head, bulk, kept), kept, bulk)
<1> DEFINE q == p.pkts
           g == SerialSeen(c.h, p.serial)
<1>1. PICK t, o : /\ o.v = c.v /\ o.w = c.w /\ Walk(t, o, r, q) /\ HasSymbols(t, c, r.bulk, q)
  BY DEF PageCoded
<1>2. c.h \in Hs /\ p.serial \in Int /\ q \in Seq(Packets) /\ c.bulk \in Seq(Symbols)
  BY DEF Coders, Pages, Packets
<1>3. Len(q) \in Nat /\ Len(c.bulk) \in Nat /\ Len(bulk) \in Nat
  BY <1>2, LenProperties
<1>4. GetSerial(c.h, PutSerial(c.h, p.serial)) = p.serial
  BY <1>2, SerialComesBack
<1>5. head.serial = PutSerial(c.h, p.serial) /\ head.eos = p.eos /\ head.np = Len(q)
  BY DEF HeadOf
<1>6. r.h = g
  BY DEF PageCoded
<1> DEFINE x == SubSeq(bulk, Len(c.bulk) + 1, Len(c.bulk) + Len(q))
<1>7. /\ Len(r.bulk) = Len(c.bulk) + Len(q)
      /\ \A k \in 0 .. Len(q) - 1 : r.bulk[Len(c.bulk) + k + 1] = SymbolAt(t, q, k)
  BY <1>1 DEF HasSymbols
<1>8. DOMAIN x = 1 .. Len(q) /\ \A k \in 0 .. Len(q) - 1 : x[k + 1] = SymbolAt(t, q, k)
  <2> DEFINE a == Len(c.bulk)
             b == Len(q)
  <2>1. a \in Nat /\ b \in Nat /\ Len(r.bulk) = a + b /\ a + b <= Len(bulk)
        /\ \A i \in 1 .. a + b : bulk[i] = r.bulk[i]
    BY <1>3, <1>7 DEF Starts
  <2>4. \A k \in 0 .. b - 1 : r.bulk[a + k + 1] = SymbolAt(t, q, k)
    BY <1>7
  <2> HIDE DEF a, b, q
  <2>2. \A i \in 1 .. Len(bulk) : bulk[i] \in Symbols
    BY ElementOfSeq
  <2>3. \A i \in a + 1 .. a + b : bulk[i] \in Symbols
    <3> SUFFICES ASSUME NEW i \in a + 1 .. a + b PROVE bulk[i] \in Symbols
      OBVIOUS
    <3>1. i \in 1 .. Len(bulk)
      BY <1>3, <2>1
    <3>2. QED
      BY <2>2, <3>1
  <2> DEFINE l == a + 1
             m == a + b
             y == SubSeq(bulk, l, m)
  <2>5. l \in Int /\ m \in Int /\ \A i \in l .. m : bulk[i] \in Symbols
    <3>1. l \in Int /\ m \in Int
      BY <2>1
    <3>2. QED
      BY <2>3, <3>1
  <2> HIDE DEF l, m
  <2>6. /\ y \in Seq(Symbols) /\ Len(y) = (IF l <= m THEN m - l + 1 ELSE 0)
        /\ \A i \in 1 .. m - l + 1 : y[i] = bulk[l + i - 1]
    BY <2>5, SubSeqProperties
  <2>7. DOMAIN y = 1 .. Len(y)
    BY <2>6, LenProperties
  <2>8. x = y
    BY DEF a, b, l, m, q
  <2> HIDE DEF x, y
  <2>9. Len(y) = b
    BY <2>1, <2>6 DEF l, m
  <2>10. \A k \in 0 .. b - 1 : y[k + 1] = SymbolAt(t, q, k)
    <3> SUFFICES ASSUME NEW k \in 0 .. b - 1 PROVE y[k + 1] = SymbolAt(t, q, k)
      OBVIOUS
    <3>1. k + 1 \in 1 .. m - l + 1 /\ l + (k + 1) - 1 = a + k + 1 /\ a + k + 1 \in 1 .. a + b
      BY <2>1 DEF l, m
    <3>2. y[k + 1] = bulk[a + k + 1]
      BY <2>6, <3>1
    <3>3. QED
      BY <2>1, <2>4, <3>1, <3>2
  <2>11. QED
    BY <2>7, <2>8, <2>9, <2>10 DEF b
<1> SUFFICES ASSUME NEW n, NEW out, NEW pk, IsDec(d, c.v, c.h, c.w, n, Len(c.bulk), pk, out)
             PROVE  IsDec(DecodedPage(d, head, bulk, kept), r.v, r.h,
                          IF n = 0 THEN r.w + kept.npk ELSE r.w, n + 1, Len(r.bulk), q,
                          out \o << [open |-> n = 0, eos |-> p.eos, serial |-> p.serial, pkts |-> q] >>
                              \o Behind(n, kept, p.serial))
  BY DEF DecodedAs
<1>9. /\ d.v = c.v /\ d.h = c.h /\ d.w = c.w /\ d.n = n /\ d.used = Len(c.bulk) /\ d.out = out
      /\ d = Dec(c.v, c.h, c.w, n, Len(c.bulk), pk, out)
  BY DEF IsDec, Dec
<1> DEFINE z == [d EXCEPT !.pkts = <<>>, !.h = g]
           e == FoldLeft(DecodedPacket, z, x)
           page == [open |-> n = 0, eos |-> p.eos, serial |-> p.serial, pkts |-> e.pkts]
           page2 == [open |-> n = 0, eos |-> p.eos, serial |-> p.serial, pkts |-> q]
<1>10. IsDec(z, o.v, g, o.w, n, Len(c.bulk), <<>>, out)
  <2> DEFINE y == Dec(c.v, c.h, c.w, n, Len(c.bulk), <<>>, out)
  <2>1. [d EXCEPT !.pkts = <<>>] = y
    BY <1>9 DEF Dec
  <2>2. [y EXCEPT !.h = g] = Dec(c.v, g, c.w, n, Len(c.bulk), <<>>, out)
    BY DEF Dec
  <2> HIDE DEF y, g
  <2>3. z = Dec(c.v, g, c.w, n, Len(c.bulk), <<>>, out)
    BY <2>1, <2>2
  <2>4. QED
    BY <1>1, <2>3 DEF IsDec
<1> DEFINE again == Behind(n, kept, p.serial)
           out2 == out \o <<page>> \o again
           w2 == IF n = 0 THEN r.w + kept.npk ELSE r.w
<1>11. DecodedPage(d, head, bulk, kept)
        = [e EXCEPT !.n = @ + 1, !.used = @ + Len(q), !.out = @ \o <<page>> \o again,
                    !.w = IF n = 0 THEN @ + kept.npk ELSE @]
  <2>1. /\ d.h = c.h /\ d.n = n /\ d.used = Len(c.bulk) /\ head.eos = p.eos /\ head.np = Len(q)
        /\ GetSerial(d.h, head.serial) = p.serial
    BY <1>4, <1>5, <1>9
  <2>2. QED
    BY <2>1 DEF DecodedPage, Behind
<1> HIDE DEF x, z, g
<1>12. IsDec(e, r.v, g, r.w, n, Len(c.bulk), q, out)
  <2> HIDE DEF q, e
  <2>1. IsDec(FoldLeft(DecodedPacket, z, x), r.v, g, r.w, n, Len(c.bulk), q, out)
    BY <1>1, <1>2, <1>8, <1>10, DecodesWalk
  <2>2. QED
    BY <2>1 DEF e
<1> HIDE DEF e, again
<1>13. /\ e = Dec(r.v, g, r.w, n, Len(c.bulk), q, out)
       /\ e.n = n /\ e.used = Len(c.bulk) /\ e.out = out /\ e.w = r.w /\ e.pkts = q
  BY <1>12 DEF IsDec, Dec
<1>14. page = page2
  BY <1>13
<1> HIDE DEF page
<1>15. [e EXCEPT !.n = @ + 1, !.used = @ + Len(q), !.out = @ \o <<page>> \o again,
                 !.w = IF n = 0 THEN @ + kept.npk ELSE @]
         = [e EXCEPT !.n = n + 1, !.used = Len(c.bulk) + Len(q), !.out = out2, !.w = w2]
  BY <1>13
<1> HIDE DEF out2, w2, page2
<1>16. [e EXCEPT !.n = n + 1, !.used = Len(c.bulk) + Len(q), !.out = out2, !.w = w2]
         = Dec(r.v, g, w2, n + 1, Len(c.bulk) + Len(q), q, out2)
  <2> HIDE DEF q
  <2> DEFINE l == Len(c.bulk) + Len(q)
             a == Dec(r.v, g, r.w, n + 1, Len(c.bulk), q, out)
             b == Dec(r.v, g, r.w, n + 1, l, q, out)
             f == Dec(r.v, g, r.w, n + 1, l, q, out2)
  <2> HIDE DEF l
  <2>1. [e EXCEPT !.n = n + 1] = a
    BY <1>13 DEF Dec
  <2>2. [a EXCEPT !.used = l] = b
    BY DEF Dec
  <2>3. [b EXCEPT !.out = out2] = f
    BY DEF Dec
  <2>4. [f EXCEPT !.w = w2] = Dec(r.v, g, w2, n + 1, l, q, out2)
    BY DEF Dec
  <2> HIDE DEF a, b, f
  <2>5. QED
    BY <2>1, <2>2, <2>3, <2>4 DEF l
<1>17. IsDec(DecodedPage(d, head, bulk, kept), r.v, g, w2, n + 1, Len(r.bulk), q, out2)
  BY <1>7, <1>11, <1>15, <1>16 DEF IsDec
<1>18. QED
  BY <1>6, <1>14, <1>17 DEF out2, w2, page2, again

-----------------------------------------------------------------------------
(* A run of pages, of which those behind the first are skipped, s of them. *)
RunCoded(C, run, s) ==
  /\ Len(run) \in Nat /\ s \in Nat /\ s < Len(run)
  /\ \A k \in 0 .. Len(run) : C[k] \in Coders
  /\ \A k \in 0 .. Len(run) - 1 :
       IF k \in 1 .. s THEN PageSkipped(C[k], run[k + 1], C[k + 1])
                       ELSE PageCoded(C[k], run[k + 1], C[k + 1])

(* If the coder is all right at the end of a run, every page was coded.    *)
LEMMA RunIsCoded ==
  ASSUME NEW run \in Seq(Pages), NEW s \in Nat, s < Len(run), NEW C, C[0] \in Coders,
         C[Len(run)].ok,
         \A k \in 0 .. Len(run) - 1 :
           IF k \in 1 .. s THEN C[k + 1] = EncodedPage(C[k], run[k + 1], TRUE)
                           ELSE C[k + 1] = EncodedPage(C[k], run[k + 1], FALSE)
  PROVE  RunCoded(C, run, s)
<1> DEFINE m == Len(run)
<1>1. m \in Nat /\ \A k \in 0 .. m - 1 : run[k + 1] \in Pages
  <2>1. m \in Nat /\ \A k \in 1 .. m : run[k] \in Pages
    BY LenProperties, ElementOfSeq
  <2> HIDE DEF m
  <2>2. \A k \in 0 .. m - 1 : k + 1 \in 1 .. m
    BY <2>1
  <2>3. QED
    BY <2>1, <2>2
<1>2. /\ s < m /\ C[m].ok
      /\ \A k \in 0 .. m - 1 :
           IF k \in 1 .. s THEN C[k + 1] = EncodedPage(C[k], run[k + 1], TRUE)
                           ELSE C[k + 1] = EncodedPage(C[k], run[k + 1], FALSE)
  OBVIOUS
<1> HIDE DEF m
<1>3. ASSUME NEW k \in 0 .. m - 1, C[k] \in Coders
      PROVE  /\ C[k + 1] \in Coders
             /\ C[k + 1].ok => C[k].ok /\ IF k \in 1 .. s THEN PageSkipped(C[k], run[k + 1], C[k + 1])
                                          ELSE PageCoded(C[k], run[k + 1], C[k + 1])
  <2>1. CASE k \in 1 .. s
    <3> DEFINE c == C[k]
               p == run[k + 1]
               r == C[k + 1]
    <3>1. c \in Coders /\ p \in Pages /\ r = EncodedPage(c, p, TRUE)
      BY <1>1, <1>2, <1>3, <2>1
    <3> HIDE DEF c, p, r
    <3>2. r \in Coders /\ (r.ok => c.ok /\ PageSkipped(c, p, r))
      BY <3>1, SkippedIs
    <3>3. QED
      BY <2>1, <3>2 DEF c, p, r
  <2>2. CASE k \notin 1 .. s
    <3> DEFINE c == C[k]
               p == run[k + 1]
               r == C[k + 1]
    <3>1. c \in Coders /\ p \in Pages /\ r = EncodedPage(c, p, FALSE)
      BY <1>1, <1>2, <1>3, <2>2
    <3> HIDE DEF c, p, r
    <3>2. r \in Coders /\ (r.ok => c.ok /\ PageCoded(c, p, r))
      BY <3>1, EncodedIs
    <3>3. QED
      BY <2>2, <3>2 DEF c, p, r
  <2>3. QED
    BY <2>1, <2>2
<1> DEFINE G == {k \in Nat : k <= m => C[k] \in Coders}
<1>4. 0 \in G
  OBVIOUS
<1>5. ASSUME NEW k \in Nat, k \in G PROVE k + 1 \in G
  <2> SUFFICES ASSUME k + 1 <= m PROVE C[k + 1] \in Coders
    OBVIOUS
  <2>1. k \in 0 .. m - 1 /\ k <= m
    BY <1>1
  <2>2. QED
    BY <1>3, <1>5, <2>1
<1> HIDE DEF G
<1>6. \A k \in Nat : k \in G
  BY <1>4, <1>5, Inducts
<1>7. \A k \in 0 .. m : C[k] \in Coders
  BY <1>1, <1>6 DEF G
<1> DEFINE B == {k \in Nat : k <= m => C[m - k].ok}
<1>8. 0 \in B
  BY <1>1, <1>2
<1>9. ASSUME NEW k \in Nat, k \in B PROVE k + 1 \in B
  <2> SUFFICES ASSUME k + 1 <= m PROVE C[m - (k + 1)].ok
    OBVIOUS
  <2> DEFINE j == m - (k + 1)
  <2>1. j \in 0 .. m - 1 /\ j \in 0 .. m /\ j + 1 = m - k /\ k <= m
    BY <1>1
  <2> HIDE DEF j
  <2>2. C[j].ok
    BY <1>3, <1>7, <1>9, <2>1
  <2>3. QED
    BY <2>2 DEF j
<1> HIDE DEF B
<1>10. \A k \in Nat : k \in B
  BY <1>8, <1>9, Inducts
<1>11. \A k \in 0 .. m : C[k].ok
  <2> SUFFICES ASSUME NEW k \in 0 .. m PROVE C[k].ok
    OBVIOUS
  <2>1. m - k \in Nat /\ m - (m - k) = k /\ m - k <= m
    BY <1>1
  <2>2. m - k \in B
    BY <1>10, <2>1
  <2>3. QED
    BY <2>1, <2>2 DEF B
<1>12. \A k \in 0 .. m - 1 : k \in 0 .. m /\ k + 1 \in 0 .. m
  BY <1>1
<1>13. \A k \in 0 .. m - 1 : IF k \in 1 .. s THEN PageSkipped(C[k], run[k + 1], C[k + 1])
                             ELSE PageCoded(C[k], run[k + 1], C[k + 1])
  BY <1>3, <1>7, <1>11, <1>12
<1>14. QED
  BY <1>1, <1>2, <1>7, <1>13 DEF RunCoded, m

-----------------------------------------------------------------------------
(* What was coded is left as it is by what is coded later.                 *)
LEMMA StartsTwice ==
  ASSUME NEW a, NEW b, NEW c, Starts(a, b), Starts(b, c)
  PROVE  Starts(a, c)
<1> DEFINE x == Len(a)
           y == Len(b)
           z == Len(c)
<1>1. /\ x \in Nat /\ y \in Nat /\ z \in Nat /\ x <= y /\ y <= z
      /\ \A i \in 1 .. x : b[i] = a[i]
      /\ \A i \in 1 .. y : c[i] = b[i]
  BY DEF Starts
<1> HIDE DEF x, y, z
<1>2. x <= z /\ \A i \in 1 .. x : c[i] = a[i]
  BY <1>1
<1>3. QED
  BY <1>1, <1>2 DEF Starts, x, y, z

(* Setups are only ever added.                                             *)
LEMMA SetupsGrow ==
  ASSUME NEW t, NEW o, NEW r, NEW S, NEW q \in Seq(S), Walk(t, o, r, q)
  PROVE  Len(o.v.su) <= Len(r.v.su)
<1> DEFINE m == Len(q)
           l(k) == Len(t[k].v.su)
<1>1. m \in Nat
  BY LenProperties
<1>2. /\ t[0] = o /\ t[m] = r /\ \A k \in 0 .. m : t[k] \in Coders
      /\ \A k \in 0 .. m - 1 : Parses(t[k].v, t[k].w, q[k + 1]) /\ Took(t[k], q[k + 1], t[k + 1])
  BY DEF Walk
<1> HIDE DEF m
<1>3. ASSUME NEW k \in 0 .. m - 1 PROVE l(k) <= l(k + 1)
  <2> DEFINE v == t[k].v
             w == t[k].w
             pk == q[k + 1]
  <2>1. /\ v \in Vs /\ w \in Nat /\ Parses(v, w, pk) /\ t[k + 1].v = Seen(v, w, pk)
    <3>1. k \in 0 .. m
      BY <1>1
    <3>2. t[k] \in Coders /\ Parses(v, w, pk) /\ Took(t[k], pk, t[k + 1])
      BY <1>2, <3>1
    <3>3. QED
      BY <3>2 DEF Coders, Took
  <2> HIDE DEF v, w, pk
  <2>2. Len(v.su) <= Len(Seen(v, w, pk).su)
    <3>1. v.su \in Seq(Setups)
      BY <2>1 DEF Vs
    <3>2. Len(v.su) \in Nat
      BY <3>1, LenProperties
    <3>3. CASE w = 2
      <4>1. pk \in Setups
        BY <2>1, <3>3 DEF Parses
      <4> DEFINE x == Append(v.su, pk)
      <4>2. Len(x) = Len(v.su) + 1
        BY <3>1, <4>1, Appended DEF IsLonger
      <4>3. Seen(v, w, pk).su = x
        BY <2>1, <3>3 DEF Seen, Vs
      <4>4. QED
        BY <3>2, <4>2, <4>3
    <3>4. CASE w # 2
      <4>1. Seen(v, w, pk).su = v.su
        BY <2>1, <3>4 DEF Seen, Vs
      <4>2. QED
        BY <3>2, <4>1
    <3>5. QED
      BY <3>3, <3>4
  <2>3. QED
    BY <2>1, <2>2 DEF v
<1>4. \A k \in 0 .. m : l(k) \in Nat
  <2>1. \A k \in 0 .. m : t[k].v.su \in Seq(Setups)
    BY <1>2 DEF Coders, Vs
  <2>2. QED
    BY <2>1, LenProperties
<1> HIDE DEF l
<1> DEFINE G == {k \in Nat : k <= m => l(0) <= l(k)}
<1>5. 0 \in G
  BY <1>1, <1>4
<1>6. ASSUME NEW k \in Nat, k \in G PROVE k + 1 \in G
  <2> SUFFICES ASSUME k + 1 <= m PROVE l(0) <= l(k + 1)
    OBVIOUS
  <2>1. k \in 0 .. m - 1 /\ k <= m /\ k \in 0 .. m /\ k + 1 \in 0 .. m /\ 0 \in 0 .. m
    BY <1>1
  <2>2. l(0) <= l(k) /\ l(k) <= l(k + 1) /\ l(0) \in Nat /\ l(k) \in Nat /\ l(k + 1) \in Nat
    BY <1>3, <1>4, <1>6, <2>1
  <2>3. QED
    BY <2>2
<1> HIDE DEF G
<1>7. m \in G
  BY <1>1, <1>5, <1>6, Inducts
<1>8. l(0) <= l(m)
  BY <1>1, <1>7 DEF G
<1>9. QED
  BY <1>2, <1>8 DEF l

PageGrown(c, r) ==
  Starts(c.bulk, r.bulk) /\ Starts(c.heads, r.heads) /\ Len(c.v.su) <= Len(r.v.su)

(* What a coder has is of finite length.                                   *)
LEMMA CoderLengths ==
  ASSUME NEW c \in Coders
  PROVE  Len(c.bulk) \in Nat /\ Len(c.heads) \in Nat /\ Len(c.v.su) \in Nat
<1>1. c.bulk \in Seq(Symbols) /\ c.heads \in Seq(Heads) /\ c.v.su \in Seq(Setups)
  BY DEF Coders, Vs
<1>2. QED
  BY <1>1, LenProperties

(* A coder that has grown twice has grown.                                 *)
LEMMA GrownTwice ==
  ASSUME NEW b \in Coders, NEW c \in Coders, NEW r \in Coders, PageGrown(b, c), PageGrown(c, r)
  PROVE  PageGrown(b, r)
<1>1. Starts(b.bulk, r.bulk) /\ Starts(b.heads, r.heads)
  BY StartsTwice DEF PageGrown
<1>2. Len(b.v.su) \in Nat /\ Len(c.v.su) \in Nat /\ Len(r.v.su) \in Nat
  BY CoderLengths
<1>3. Len(b.v.su) <= Len(c.v.su) /\ Len(c.v.su) <= Len(r.v.su)
  BY DEF PageGrown
<1> DEFINE x == Len(b.v.su)
           y == Len(c.v.su)
           z == Len(r.v.su)
<1>4. x \in Nat /\ y \in Nat /\ z \in Nat /\ x <= y /\ y <= z
  BY <1>2, <1>3
<1> HIDE DEF x, y, z
<1>5. x <= z
  BY <1>4
<1>6. QED
  BY <1>1, <1>5 DEF PageGrown, x, z

(* A page adds its head, and its symbols behind those that are there.      *)
LEMMA PageGrows ==
  ASSUME NEW c \in Coders, NEW r \in Coders, NEW p \in Pages, PageCoded(c, p, r)
  PROVE  /\ PageGrown(c, r) /\ Len(r.heads) = Len(c.heads) + 1
         /\ r.heads[Len(c.heads) + 1] = HeadOf(c, p)
<1>1. PICK t, o : /\ o.v = c.v /\ Walk(t, o, r, p.pkts) /\ HasSymbols(t, c, r.bulk, p.pkts)
  BY DEF PageCoded
<1>2. p.pkts \in Seq(Packets) /\ Len(p.pkts) \in Nat
  BY LenProperties DEF Pages, Packets
<1>3. Len(c.bulk) \in Nat /\ Len(c.heads) \in Nat
  BY CoderLengths
<1>4. Starts(c.bulk, r.bulk)
  <2> DEFINE a == Len(c.bulk)
             b == Len(p.pkts)
  <2>1. a \in Nat /\ b \in Nat /\ Len(r.bulk) = a + b /\ \A i \in 1 .. a : r.bulk[i] = c.bulk[i]
    BY <1>1, <1>2, <1>3 DEF HasSymbols
  <2> HIDE DEF a, b
  <2>2. a <= Len(r.bulk) /\ Len(r.bulk) \in Nat
    BY <2>1
  <2>3. QED
    BY <2>1, <2>2 DEF Starts, a
<1>5. IsLonger(r.heads, c.heads, HeadOf(c, p))
  BY DEF PageCoded
<1>6. Starts(c.heads, r.heads)
  BY <1>3, <1>5 DEF IsLonger, Starts
<1>7. Len(c.v.su) <= Len(r.v.su)
  BY <1>1, <1>2, SetupsGrow
<1>8. QED
  BY <1>4, <1>5, <1>6, <1>7 DEF IsLonger, PageGrown

(* A skipped page adds nothing.                                            *)
LEMMA SkippedGrows ==
  ASSUME NEW c \in Coders, NEW r \in Coders, NEW p, PageSkipped(c, p, r)
  PROVE  PageGrown(c, r)
<1>1. Len(c.bulk) \in Nat /\ Len(c.heads) \in Nat /\ Len(c.v.su) \in Nat
  BY CoderLengths
<1>2. r.v = c.v /\ r.heads = c.heads /\ r.bulk = c.bulk
  BY DEF PageSkipped
<1>3. QED
  BY <1>1, <1>2 DEF PageGrown, Starts

(* How many of the first k pages were not skipped.                         *)
HeadsAt(k, s) == IF k = 0 THEN 0 ELSE IF k <= s + 1 THEN 1 ELSE k - s

(* After k pages there is a head for each that was not skipped.            *)
LEMMA RunGrows ==
  ASSUME NEW C, NEW run \in Seq(Pages), NEW s, RunCoded(C, run, s), C[0].heads = <<>>,
         NEW k \in 0 .. Len(run)
  PROVE  Len(C[k].heads) = HeadsAt(k, s) /\ \A i \in 0 .. k : PageGrown(C[i], C[k])
<1> DEFINE m == Len(run)
<1>1. /\ m \in Nat /\ s \in Nat /\ s < m /\ \A j \in 0 .. m : C[j] \in Coders
      /\ \A j \in 0 .. m - 1 : IF j \in 1 .. s THEN PageSkipped(C[j], run[j + 1], C[j + 1])
                               ELSE PageCoded(C[j], run[j + 1], C[j + 1])
  BY DEF RunCoded
<1>2. \A j \in 0 .. m - 1 : run[j + 1] \in Pages
  <2>1. \A j \in 1 .. m : run[j] \in Pages
    BY ElementOfSeq
  <2> HIDE DEF m
  <2>2. \A j \in 0 .. m - 1 : j + 1 \in 1 .. m
    BY <1>1
  <2>3. QED
    BY <2>1, <2>2
<1>3. k \in 0 .. m
  OBVIOUS
<1> HIDE DEF m
<1>4. ASSUME NEW j \in 0 .. m PROVE PageGrown(C[j], C[j])
  <2> DEFINE c == C[j]
  <2>1. Len(c.bulk) \in Nat /\ Len(c.heads) \in Nat /\ Len(c.v.su) \in Nat
    BY <1>1, CoderLengths
  <2> HIDE DEF c
  <2>2. PageGrown(c, c)
    BY <2>1 DEF PageGrown, Starts
  <2>3. QED
    BY <2>2 DEF c
<1> DEFINE G == {j \in Nat : j <= m =>
                   Len(C[j].heads) = HeadsAt(j, s) /\ \A i \in 0 .. j : PageGrown(C[i], C[j])}
<1>5. 0 \in G
  <2>1. 0 \in 0 .. m
    BY <1>1
  <2>2. PageGrown(C[0], C[0])
    BY <1>4, <2>1
  <2>3. Len(C[0].heads) = HeadsAt(0, s)
    BY DEF HeadsAt
  <2>4. \A i \in 0 .. 0 : i = 0
    OBVIOUS
  <2>5. QED
    BY <2>2, <2>3, <2>4
<1>6. ASSUME NEW j \in Nat, j \in G PROVE j + 1 \in G
  <2> SUFFICES ASSUME j + 1 <= m
               PROVE  /\ Len(C[j + 1].heads) = HeadsAt(j + 1, s)
                      /\ \A i \in 0 .. j + 1 : PageGrown(C[i], C[j + 1])
    OBVIOUS
  <2>1. j \in 0 .. m - 1 /\ j <= m /\ j \in 0 .. m /\ j + 1 \in 0 .. m
    BY <1>1
  <2>2. Len(C[j].heads) = HeadsAt(j, s) /\ \A i \in 0 .. j : PageGrown(C[i], C[j])
    BY <1>6, <2>1
  <2> DEFINE c == C[j]
             r == C[j + 1]
             p == run[j + 1]
  <2>3. c \in Coders /\ r \in Coders /\ p \in Pages
    BY <1>1, <1>2, <2>1
  <2>4. PageGrown(c, r) /\ Len(r.heads) = HeadsAt(j + 1, s)
    <3>1. CASE j \in 1 .. s
      <4>1. PageSkipped(c, p, r)
        BY <1>1, <2>1, <3>1
      <4>2. Len(r.heads) = Len(c.heads)
        BY <4>1 DEF PageSkipped
      <4>3. HeadsAt(j + 1, s) = HeadsAt(j, s)
        BY <1>1, <3>1 DEF HeadsAt
      <4>4. QED
        BY <2>2, <2>3, <4>1, <4>2, <4>3, SkippedGrows
    <3>2. CASE j \notin 1 .. s
      <4>1. PageCoded(c, p, r)
        BY <1>1, <2>1, <3>2
      <4>2. PageGrown(c, r) /\ Len(r.heads) = Len(c.heads) + 1
        <5> HIDE DEF c, r, p
        <5>1. QED
          BY <2>3, <4>1, PageGrows
      <4>3. HeadsAt(j + 1, s) = HeadsAt(j, s) + 1
        BY <1>1, <3>2 DEF HeadsAt
      <4>4. QED
        BY <2>2, <4>2, <4>3
    <3>3. QED
      BY <3>1, <3>2
  <2>5. ASSUME NEW i \in 0 .. j + 1 PROVE PageGrown(C[i], C[j + 1])
    <3>1. CASE i = j + 1
      BY <1>4, <2>1, <3>1
    <3>2. CASE i # j + 1
      <4>1. i \in 0 .. j /\ i \in 0 .. m
        BY <1>1, <2>1, <3>2
      <4> DEFINE b == C[i]
      <4>2. PageGrown(b, c) /\ b \in Coders
        BY <1>1, <2>2, <4>1
      <4> HIDE DEF b, c, r
      <4>3. PageGrown(b, r)
        BY <2>3, <2>4, <4>2, GrownTwice
      <4>4. QED
        BY <4>3 DEF b, r
    <3>3. QED
      BY <3>1, <3>2
  <2>6. QED
    BY <2>4, <2>5
<1> HIDE DEF G
<1>7. k \in G
  BY <1>1, <1>3, <1>5, <1>6, Inducts
<1>8. QED
  BY <1>1, <1>3, <1>7 DEF G

(* So a run that is coded has a head for each page that is not skipped.    *)
LEMMA RunHeads ==
  ASSUME NEW C, NEW run \in Seq(Pages), NEW s, RunCoded(C, run, s), C[0].heads = <<>>,
         NEW c, c = C[Len(run)]
  PROVE  Len(c.heads) = HeadsAt(Len(run), s)
<1>1. Len(run) \in 0 .. Len(run)
  BY LenProperties
<1>2. Len(C[Len(run)].heads) = HeadsAt(Len(run), s)
  BY <1>1, RunGrows
<1>3. QED
  BY <1>2

(* What was coded of a page is there at the end of the run.                *)
LEMMA PageStays ==
  ASSUME NEW C, NEW run \in Seq(Pages), NEW s, RunCoded(C, run, s), C[0].heads = <<>>,
         NEW k \in 0 .. Len(run) - 1, k \notin 1 .. s
  PROVE  /\ C[Len(run)].heads[HeadsAt(k, s) + 1] = HeadOf(C[k], run[k + 1])
         /\ Starts(C[k + 1].bulk, C[Len(run)].bulk)
<1> DEFINE m == Len(run)
           c == C[k]
           r == C[k + 1]
           f == C[m]
           p == run[k + 1]
<1>1. /\ m \in Nat /\ s \in Nat /\ s < m /\ \A j \in 0 .. m : C[j] \in Coders
      /\ \A j \in 0 .. m - 1 : IF j \in 1 .. s THEN PageSkipped(C[j], run[j + 1], C[j + 1])
                               ELSE PageCoded(C[j], run[j + 1], C[j + 1])
  BY DEF RunCoded
<1>2. k \in 0 .. m /\ k + 1 \in 0 .. m /\ m \in 0 .. m /\ k + 1 \in 1 .. m
  BY <1>1
<1>3. c \in Coders /\ r \in Coders /\ f \in Coders /\ PageCoded(c, p, r)
  BY <1>1, <1>2
<1>4. p \in Pages
  BY <1>2, ElementOfSeq
<1>5. Len(c.heads) = HeadsAt(k, s)
  BY <1>2, RunGrows
<1>6. \A i \in 0 .. m : PageGrown(C[i], C[m])
  BY <1>2, RunGrows
<1>7. PageGrown(r, f)
  BY <1>2, <1>6
<1> HIDE DEF m, c, r, f, p
<1>8. Len(r.heads) = Len(c.heads) + 1 /\ r.heads[Len(c.heads) + 1] = HeadOf(c, p)
  BY <1>3, <1>4, PageGrows
<1>9. Len(c.heads) \in Nat
  BY <1>3, CoderLengths
<1>10. f.heads[Len(c.heads) + 1] = r.heads[Len(c.heads) + 1]
  <2>1. Len(c.heads) + 1 \in 1 .. Len(r.heads)
    BY <1>8, <1>9
  <2>2. QED
    BY <1>7, <2>1 DEF PageGrown, Starts
<1>11. Starts(r.bulk, f.bulk)
  BY <1>7 DEF PageGrown
<1>12. f.heads[HeadsAt(k, s) + 1] = HeadOf(c, p)
  BY <1>5, <1>8, <1>10
<1>13. QED
  BY <1>11, <1>12 DEF m, c, r, f, p

(* Skipped pages only advance the number of the packet.                    *)
Advanced(c, r, n) == r.v = c.v /\ r.h = c.h /\ r.w = c.w + n /\ r.bulk = c.bulk

(* The skipped pages, together, count their packets.                       *)
LEMMA SkippedAdvance ==
  ASSUME NEW C, NEW run \in Seq(Pages), NEW s, RunCoded(C, run, s),
         NEW T, T[0] = 0, \A k \in 0 .. s - 1 : T[k + 1] = T[k] + Len(run[k + 2].pkts)
  PROVE  Advanced(C[1], C[s + 1], T[s])
<1> DEFINE m == Len(run)
           l(k) == Len(run[k + 2].pkts)
<1>1. /\ m \in Nat /\ s \in Nat /\ s < m /\ \A j \in 0 .. m : C[j] \in Coders
      /\ \A j \in 0 .. m - 1 : j \in 1 .. s => PageSkipped(C[j], run[j + 1], C[j + 1])
  BY DEF RunCoded
<1>2. \A k \in 0 .. s - 1 : l(k) \in Nat
  <2> SUFFICES ASSUME NEW k \in 0 .. s - 1 PROVE l(k) \in Nat
    OBVIOUS
  <2> DEFINE i == k + 2
  <2>1. i \in 1 .. Len(run)
    BY <1>1
  <2> HIDE DEF i
  <2>4. run[i] \in Pages
    BY <2>1, ElementOfSeq
  <2>2. run[i].pkts \in Seq(Packets)
    BY <2>4 DEF Pages, Packets
  <2>3. QED
    BY <2>2, LenProperties DEF i
<1>3. \A k \in 0 .. s - 1 : T[k + 1] = T[k] + l(k)
  OBVIOUS
<1>4. \A k \in 0 .. s - 1 : PageSkipped(C[k + 1], run[k + 2], C[k + 2])
  <2> SUFFICES ASSUME NEW k \in 0 .. s - 1 PROVE PageSkipped(C[k + 1], run[k + 2], C[k + 2])
    OBVIOUS
  <2> DEFINE i == k + 1
  <2>1. i \in 0 .. m - 1 /\ i \in 1 .. s /\ i + 1 = k + 2
    BY <1>1
  <2> HIDE DEF i, m
  <2>2. PageSkipped(C[i], run[i + 1], C[i + 1])
    BY <1>1, <2>1
  <2>3. QED
    BY <2>1, <2>2 DEF i
<1>5. \A k \in 0 .. s - 1 : /\ C[k + 2].v = C[k + 1].v /\ C[k + 2].h = C[k + 1].h
                            /\ C[k + 2].w = C[k + 1].w + l(k) /\ C[k + 2].bulk = C[k + 1].bulk
  BY <1>4 DEF PageSkipped
<1>6. C[1].w \in Nat
  <2>1. 1 \in 0 .. m
    BY <1>1
  <2>2. QED
    BY <1>1, <2>1 DEF Coders
<1> HIDE DEF m, l
<1> DEFINE G == {k \in Nat : k <= s => T[k] \in Nat /\ Advanced(C[1], C[k + 1], T[k])}
<1>7. 0 \in G
  BY <1>6 DEF Advanced
<1>8. ASSUME NEW k \in Nat, k \in G PROVE k + 1 \in G
  <2> SUFFICES ASSUME k + 1 <= s
               PROVE  T[k + 1] \in Nat /\ Advanced(C[1], C[k + 1 + 1], T[k + 1])
    OBVIOUS
  <2>1. k \in 0 .. s - 1 /\ k <= s /\ k + 1 + 1 = k + 2
    BY <1>1
  <2>2. T[k] \in Nat /\ Advanced(C[1], C[k + 1], T[k]) /\ T[k + 1] = T[k] + l(k) /\ l(k) \in Nat
    BY <1>2, <1>3, <1>8, <2>1
  <2> DEFINE c == C[k + 1]
             r == C[k + 2]
             b == C[1]
  <2>3. r.v = c.v /\ r.h = c.h /\ r.w = c.w + l(k) /\ r.bulk = c.bulk
    BY <1>5, <2>1
  <2>4. c.v = b.v /\ c.h = b.h /\ c.w = b.w + T[k] /\ c.bulk = b.bulk /\ b.w \in Nat
    BY <1>6, <2>2 DEF Advanced
  <2> HIDE DEF c, r, b
  <2>5. T[k + 1] \in Nat /\ r.w = b.w + T[k + 1]
    BY <2>2, <2>3, <2>4
  <2>6. Advanced(b, r, T[k + 1])
    BY <2>3, <2>4, <2>5 DEF Advanced
  <2>7. QED
    BY <2>1, <2>5, <2>6 DEF b, r
<1> HIDE DEF G
<1>9. s \in G
  BY <1>1, <1>7, <1>8, Inducts
<1>10. QED
  BY <1>1, <1>9 DEF G

-----------------------------------------------------------------------------
(* The first of the pages that a decoder makes.                            *)
Upto(B, a) == [i \in 1 .. a |-> B[i]]

IsUpto(q, B, a) == q = Upto(B, a)

(* Pages made of B, with the next ones behind them, are made of B.         *)
LEMMA Joined ==
  ASSUME NEW B, NEW a \in Nat, NEW b \in Nat, NEW x, IsUpto(x, B, a),
         NEW y, y = [i \in 1 .. b |-> B[a + i]]
  PROVE  IsUpto(x \o y, B, a + b)
<1> DEFINE S == {B[i] : i \in 1 .. a + b}
           z == Upto(B, a + b)
<1>1. \A i \in 1 .. a + b : B[i] \in S
  OBVIOUS
<1> HIDE DEF S
<1>2. x \in Seq(S) /\ Len(x) = a /\ \A i \in 1 .. a : x[i] = B[i]
  <2>1. \A i \in 1 .. a : B[i] \in S
    BY <1>1
  <2>2. x = [i \in 1 .. a |-> B[i]]
    BY DEF IsUpto, Upto
  <2>3. QED
    BY <2>1, <2>2
<1>3. y \in Seq(S) /\ Len(y) = b /\ \A i \in 1 .. b : y[i] = B[a + i]
  <2>1. \A i \in 1 .. b : B[a + i] \in S
    BY <1>1
  <2>2. QED
    BY <2>1
<1>4. z \in Seq(S) /\ Len(z) = a + b /\ \A i \in 1 .. a + b : z[i] = B[i]
  <2>1. a + b \in Nat
    OBVIOUS
  <2>2. QED
    BY <1>1, <2>1 DEF Upto
<1> HIDE DEF z
<1> DEFINE u == x \o y
<1>5. /\ u \in Seq(S) /\ Len(u) = Len(x) + Len(y)
      /\ \A i \in 1 .. Len(x) + Len(y) : u[i] = IF i <= Len(x) THEN x[i] ELSE y[i - Len(x)]
  <2>1. /\ x \o y \in Seq(S) /\ Len(x \o y) = Len(x) + Len(y)
        /\ \A i \in 1 .. Len(x) + Len(y) :
             (x \o y)[i] = IF i <= Len(x) THEN x[i] ELSE y[i - Len(x)]
    <3>1. x \in Seq(S) /\ y \in Seq(S)
      BY <1>2, <1>3
    <3> HIDE DEF u
    <3>2. QED
      BY <3>1, ConcatProperties
  <2>2. QED
    BY <2>1
<1> HIDE DEF u
<1>6. Len(u) = Len(z) /\ \A i \in 1 .. Len(z) : u[i] = z[i]
  <2>1. Len(u) = a + b
    BY <1>2, <1>3, <1>5
  <2>2. ASSUME NEW i \in 1 .. a + b PROVE u[i] = B[i]
    <3>1. CASE i <= a
      <4>1. i \in 1 .. a
        BY <3>1
      <4>2. u[i] = x[i]
        BY <1>2, <1>3, <1>5, <3>1
      <4>3. QED
        BY <1>2, <4>1, <4>2
    <3>2. CASE ~(i <= a)
      <4>1. i - a \in 1 .. b /\ a + (i - a) = i
        BY <3>2
      <4>2. u[i] = y[i - a]
        BY <1>2, <1>3, <1>5, <3>2
      <4>3. QED
        BY <1>3, <4>1, <4>2
    <3>3. QED
      BY <3>1, <3>2
  <2>3. QED
    BY <1>4, <2>1, <2>2
<1>7. u = z
  BY <1>4, <1>5, <1>6, SeqEqual
<1>8. QED
  BY <1>7 DEF IsUpto, u, z

(* So are they with the next one.                                          *)
LEMMA JoinedOne ==
  ASSUME NEW B, NEW a \in Nat, NEW x, IsUpto(x, B, a), NEW c, c = B[a + 1]
  PROVE  IsUpto(x \o <<c>>, B, a + 1) /\ IsUpto(x \o <<c>> \o <<>>, B, a + 1)
<1>1. <<c>> = [i \in 1 .. 1 |-> B[a + i]]
  <2>1. \A i \in 1 .. 1 : B[a + i] = c
    OBVIOUS
  <2>2. QED
    BY <2>1
<1>2. IsUpto(x \o <<c>>, B, a + 1)
  BY <1>1, Joined
<1> DEFINE u == x \o <<c>>
           n == a + 1
<1>3. n \in Nat /\ IsUpto(u, B, n) /\ n + 0 = n
  BY <1>2
<1> HIDE DEF u, n
<1>4. <<>> = [i \in 1 .. 0 |-> B[n + i]]
  OBVIOUS
<1>5. IsUpto(u \o <<>>, B, n + 0)
  BY <1>3, <1>4, Joined
<1>6. QED
  BY <1>2, <1>3, <1>5 DEF u, n

(* The pages a decoder makes of a run: those that were skipped are taken   *)
(* from what was kept of earlier ones.                                     *)
Made(run, s, kept) ==
  [i \in 1 .. Len(run) |->
     IF i \in 2 .. s + 1 THEN [output[kept.off + i - 1] EXCEPT !.serial = run[1].serial]
     ELSE [open |-> i = 1, eos |-> run[i].eos, serial |-> run[i].serial, pkts |-> run[i].pkts]]

(* The page behind which the decoder is after j heads.                     *)
PageAt(j, s) == IF j = 0 THEN 0 ELSE s + j

(* The decoder is there with the models that the encoder had.              *)
InStepAt(d, c, j, B, e) ==
  \E pk, out : IsDec(d, c.v, c.h, c.w, j, Len(c.bulk), pk, out) /\ IsUpto(out, B, e)

(* A run decodes from its heads and symbols to its pages, and the models   *)
(* end up as those of the coder: by induction on the heads.                *)
LEMMA RunDecodes ==
  ASSUME NEW C, NEW run \in Seq(Pages), NEW s, RunCoded(C, run, s),
         C[0].heads = <<>>, C[0].bulk = <<>>, C[0].w = 0,
         NEW T, T[0] = 0, \A k \in 0 .. s - 1 : T[k + 1] = T[k] + Len(run[k + 2].pkts),
         NEW kept, kept.off \in Int, kept.len = s, kept.npk = T[s],
         NEW D, D[0] = Dec(C[0].v, C[0].h, 0, 0, 0, <<>>, <<>>),
         \A j \in 0 .. Len(run) - s - 1 :
           D[j + 1] = DecodedPage(D[j], C[Len(run)].heads[j + 1], C[Len(run)].bulk, kept)
  PROVE  InStepAt(D[Len(run) - s], C[Len(run)], Len(run) - s, Made(run, s, kept), Len(run))
<1> DEFINE m == Len(run)
           f == C[m]
           B == Made(run, s, kept)
           n == m - s
<1>1. /\ m \in Nat /\ s \in Nat /\ s < m /\ \A k \in 0 .. m : C[k] \in Coders
      /\ \A k \in 0 .. m - 1 : k \in 1 .. s \/ PageCoded(C[k], run[k + 1], C[k + 1])
  BY DEF RunCoded
<1>2. Advanced(C[1], C[s + 1], T[s])
  BY SkippedAdvance
<1>3. \A k \in 0 .. m - 1 : k \notin 1 .. s
        => f.heads[HeadsAt(k, s) + 1] = HeadOf(C[k], run[k + 1]) /\ Starts(C[k + 1].bulk, f.bulk)
  <2> SUFFICES ASSUME NEW k \in 0 .. Len(run) - 1, k \notin 1 .. s
               PROVE  /\ C[Len(run)].heads[HeadsAt(k, s) + 1] = HeadOf(C[k], run[k + 1])
                      /\ Starts(C[k + 1].bulk, C[Len(run)].bulk)
    OBVIOUS
  <2> HIDE DEF m, f, B, n
  <2>1. QED
    BY PageStays
<1>4. f.bulk \in Seq(Symbols)
  <2>1. m \in 0 .. m
    BY <1>1
  <2>2. QED
    BY <1>1, <2>1 DEF Coders
<1>5. \A k \in 1 .. m : run[k] \in Pages
  BY ElementOfSeq
<1>6. \A j \in 0 .. n - 1 : D[j + 1] = DecodedPage(D[j], f.heads[j + 1], f.bulk, kept)
  OBVIOUS
<1>7. n \in Nat /\ n >= 1
  BY <1>1
<1>8. \A i \in 1 .. m :
        B[i] = IF i \in 2 .. s + 1 THEN [output[kept.off + i - 1] EXCEPT !.serial = run[1].serial]
               ELSE [open |-> i = 1, eos |-> run[i].eos, serial |-> run[i].serial,
                     pkts |-> run[i].pkts]
  BY DEF Made
<1> HIDE DEF n, B, f, m
<1> DEFINE G == {j \in Nat : j <= n =>
                   InStepAt(D[j], C[PageAt(j, s)], j, B, PageAt(j, s))}
<1>9. 0 \in G
  <2>1. PageAt(0, s) = 0 /\ Len(C[0].bulk) = 0
    BY DEF PageAt
  <2>2. IsUpto(<<>>, B, 0)
    BY DEF IsUpto, Upto
  <2>3. IsDec(D[0], C[0].v, C[0].h, C[0].w, 0, Len(C[0].bulk), <<>>, <<>>)
    BY <2>1 DEF IsDec
  <2>4. InStepAt(D[0], C[0], 0, B, 0)
    BY <2>2, <2>3 DEF InStepAt
  <2>5. QED
    BY <2>1, <2>4
<1>10. ASSUME NEW j \in 0 .. n - 1
       PROVE  LET k == PageAt(j, s)
              IN  /\ k \in 0 .. m - 1 /\ k + 1 \in 0 .. m /\ k \in 0 .. m /\ k + 1 \in 1 .. m
                  /\ k \notin 1 .. s /\ HeadsAt(k, s) = j /\ k + 1 \notin 2 .. s + 1
  BY <1>1 DEF PageAt, HeadsAt, n
<1>11. ASSUME NEW j \in 0 .. n - 1
       PROVE  LET k == PageAt(j, s)
              IN  DecodedAs(C[k], run[k + 1], C[k + 1], D[j], D[j + 1], kept, f.bulk)
  <2> DEFINE k == PageAt(j, s)
             c == C[k]
             r == C[k + 1]
             p == run[k + 1]
             hd == f.heads[j + 1]
  <2>1. /\ k \in 0 .. m - 1 /\ k + 1 \in 0 .. m /\ k \in 0 .. m /\ k + 1 \in 1 .. m
        /\ k \notin 1 .. s /\ HeadsAt(k, s) = j
    BY <1>10
  <2>2. c \in Coders /\ r \in Coders /\ p \in Pages /\ PageCoded(c, p, r)
    <3> HIDE DEF k
    <3>1. QED
      BY <1>1, <1>5, <2>1
  <2>3. hd = HeadOf(c, p) /\ Starts(r.bulk, f.bulk)
    <3> HIDE DEF k
    <3>1. QED
      BY <1>3, <2>1
  <2>4. D[j + 1] = DecodedPage(D[j], hd, f.bulk, kept)
    BY <1>6
  <2> DEFINE d == D[j]
             b == f.bulk
  <2> HIDE DEF k, c, r, p, hd, d, b
  <2>5. b \in Seq(Symbols) /\ Starts(r.bulk, b)
    BY <1>4, <2>3 DEF b
  <2>6. DecodedAs(c, p, r, d, DecodedPage(d, hd, b, kept), kept, b)
    BY <2>2, <2>3, <2>5, PageDecodes
  <2>7. D[j + 1] = DecodedPage(d, hd, b, kept)
    BY <2>4 DEF d, b
  <2>8. DecodedAs(c, p, r, d, D[j + 1], kept, b)
    BY <2>6, <2>7
  <2>9. QED
    BY <2>8 DEF c, p, r, d, b, k
<1>12. ASSUME NEW j \in Nat, j \in G PROVE j + 1 \in G
  <2> SUFFICES ASSUME j + 1 <= n
               PROVE  InStepAt(D[j + 1], C[PageAt(j + 1, s)], j + 1, B, PageAt(j + 1, s))
    OBVIOUS
  <2>1. j \in 0 .. n - 1 /\ j <= n
    BY <1>7
  <2> DEFINE k == PageAt(j, s)
             c == C[k]
             r == C[k + 1]
             p == run[k + 1]
             d == D[j]
             e == D[j + 1]
             page == [open |-> j = 0, eos |-> p.eos, serial |-> p.serial, pkts |-> p.pkts]
  <2>2. /\ k \in 0 .. m - 1 /\ k \in 0 .. m /\ k + 1 \in 0 .. m /\ k + 1 \in 1 .. m
        /\ k \notin 1 .. s /\ k + 1 \notin 2 .. s + 1
    BY <1>10, <2>1
  <2>3. PICK pk, out : IsDec(d, c.v, c.h, c.w, j, Len(c.bulk), pk, out) /\ IsUpto(out, B, k)
    BY <1>12, <2>1 DEF InStepAt
  <2>4. DecodedAs(c, p, r, d, e, kept, f.bulk)
    BY <1>11, <2>1
  <2>5. k + 1 = 1 <=> j = 0
    BY <1>1, <2>1 DEF PageAt
  <2>6. B[k + 1] = page
    <3> DEFINE i == k + 1
    <3>1. i \in 1 .. m /\ i \notin 2 .. s + 1 /\ (i = 1 <=> j = 0)
      BY <2>2, <2>5
    <3>2. B[i] = [open |-> i = 1, eos |-> run[i].eos, serial |-> run[i].serial, pkts |-> run[i].pkts]
      <4> HIDE DEF i, page, k
      <4>1. QED
        BY <1>8, <3>1
    <3>3. (i = 1) = (j = 0)
      BY <3>1
    <3> HIDE DEF i, k
    <3>4. QED
      BY <3>2, <3>3 DEF i
  <2> HIDE DEF k, c, r, p, d, e, page
  <2>7. IsDec(e, r.v, r.h, IF j = 0 THEN r.w + kept.npk ELSE r.w, j + 1, Len(r.bulk), p.pkts,
              out \o <<page>> \o Behind(j, kept, p.serial))
    BY <2>3, <2>4 DEF DecodedAs, page
  <2>8. k \in Nat
    BY <1>1, <2>2
  <2>9. IsUpto(out \o <<page>>, B, k + 1) /\ IsUpto(out \o <<page>> \o <<>>, B, k + 1)
    BY <2>3, <2>6, <2>8, JoinedOne
  <2>10. CASE j = 0
    <3>1. k = 0 /\ PageAt(j + 1, s) = s + 1 /\ k + 1 = 1
      BY <2>10 DEF PageAt, k
    <3>2. p = run[1] /\ r = C[1]
      BY <3>1 DEF p, r
    <3> DEFINE z == C[s + 1]
               y == Behind(j, kept, p.serial)
               x == out \o <<page>>
    <3>3. z.v = r.v /\ z.h = r.h /\ z.w = r.w + kept.npk /\ z.bulk = r.bulk
      BY <1>2, <3>2 DEF Advanced
    <3>4. y = [i \in 1 .. s |-> [output[kept.off + i] EXCEPT !.serial = run[1].serial]]
      BY <2>10, <3>2 DEF Behind, replay
    <3>5. \A i \in 1 .. s : B[1 + i] = [output[kept.off + i] EXCEPT !.serial = run[1].serial]
      <4> SUFFICES ASSUME NEW i \in 1 .. s
                   PROVE  B[1 + i] = [output[kept.off + i] EXCEPT !.serial = run[1].serial]
        OBVIOUS
      <4> DEFINE l == 1 + i
      <4>1. l \in 1 .. m /\ l \in 2 .. s + 1
        BY <1>1
      <4>2. kept.off + l - 1 = kept.off + i
        <5>1. (kept.off + (1 + i)) - 1 = kept.off + i
          OBVIOUS
        <5>2. QED
          BY <5>1
      <4> HIDE DEF l
      <4>3. B[l] = [output[kept.off + l - 1] EXCEPT !.serial = run[1].serial]
        BY <1>8, <4>1
      <4>4. QED
        BY <4>2, <4>3 DEF l
    <3>6. y = [i \in 1 .. s |-> B[1 + i]]
      <4> HIDE DEF y
      <4>1. QED
        BY <3>4, <3>5
    <3> HIDE DEF x, y, z
    <3>7. IsUpto(x, B, 1)
      BY <2>9, <3>1 DEF x
    <3>8. IsUpto(x \o y, B, 1 + s)
      BY <1>1, <3>6, <3>7, Joined
    <3>9. IsDec(e, z.v, z.h, z.w, j + 1, Len(z.bulk), p.pkts, x \o y)
      BY <2>7, <2>10, <3>3 DEF x, y
    <3>10. 1 + s = s + 1
      BY <1>1
    <3>11. InStepAt(e, z, j + 1, B, s + 1)
      BY <3>8, <3>9, <3>10 DEF InStepAt
    <3>12. QED
      BY <3>1, <3>11 DEF e, z
  <2>11. CASE j # 0
    <3>1. PageAt(j + 1, s) = k + 1
      BY <1>1, <2>1, <2>11 DEF PageAt, k
    <3>2. Behind(j, kept, p.serial) = <<>>
      BY <2>11 DEF Behind
    <3> DEFINE x == out \o <<page>> \o <<>>
    <3>3. IsDec(e, r.v, r.h, r.w, j + 1, Len(r.bulk), p.pkts, x)
      BY <2>7, <2>11, <3>2
    <3>4. IsUpto(x, B, k + 1)
      BY <2>9
    <3> HIDE DEF x
    <3>5. InStepAt(e, r, j + 1, B, k + 1)
      BY <3>3, <3>4 DEF InStepAt
    <3>6. QED
      BY <3>1, <3>5 DEF e, r
  <2>12. QED
    BY <2>10, <2>11
<1> HIDE DEF G
<1>13. n \in G
  BY <1>7, <1>9, <1>12, Inducts
<1>14. PageAt(n, s) = m
  BY <1>1, <1>7 DEF PageAt, n
<1>15. InStepAt(D[n], C[m], n, B, m)
  BY <1>7, <1>13, <1>14 DEF G
<1>16. QED
  BY <1>15 DEF n, m, B

-----------------------------------------------------------------------------
(* The pages of a link, and its headers.                                   *)
LEMMA LeastIs ==
  ASSUME NEW S \in SUBSET Nat, S # {}
  PROVE  Min(S) \in S /\ \A y \in S : Min(S) <= y
BY Least DEF Min

RunOf(in, l) == SubSeq(in, l.a, l.z)
HdrOf(in, l) == HeaderPages(Tail(RunOf(in, l)))

HeadCount(run) ==
  LET rest == {k \in 1 .. Len(run) : ~allhdr(run[k])}
  IN  IF rest = {} THEN Len(run) ELSE Min(rest) - 1

(* x is of n pages, those of q from the one behind a on.                   *)
IsPart(x, n, q, a) == x \in Seq(Pages) /\ Len(x) = n /\ \A i \in 1 .. n : x[i] = q[a + i]

(* What is cut out of a file.                                              *)
LEMMA PartIs ==
  ASSUME NEW in \in Seq(Pages), NEW a \in Nat, NEW z \in Nat, a >= 1, a <= z + 1, z <= Len(in)
  PROVE  IsPart(SubSeq(in, a, z), z - a + 1, in, a - 1)
<1>1. Len(in) \in Nat /\ \A i \in 1 .. Len(in) : in[i] \in Pages
  BY LenProperties, ElementOfSeq
<1>2. \A i \in a .. z : in[i] \in Pages
  BY <1>1
<1> DEFINE x == SubSeq(in, a, z)
<1>3. /\ x \in Seq(Pages) /\ Len(x) = (IF a <= z THEN z - a + 1 ELSE 0)
      /\ \A i \in 1 .. z - a + 1 : x[i] = in[a + i - 1]
  BY <1>2, SubSeqProperties
<1> HIDE DEF x
<1>4. \A i \in 1 .. z - a + 1 : a + i - 1 = a - 1 + i
  OBVIOUS
<1>5. QED
  BY <1>3, <1>4 DEF IsPart, x

(* The header pages of a run are its first so many.                        *)
LEMMA HeaderPagesAre ==
  ASSUME NEW run \in Seq(Pages)
  PROVE  HeadCount(run) \in 0 .. Len(run) /\ IsPart(HeaderPages(run), HeadCount(run), run, 0)
<1> DEFINE rest == {k \in 1 .. Len(run) : ~allhdr(run[k])}
           c == HeadCount(run)
<1>1. Len(run) \in Nat /\ DOMAIN run = 1 .. Len(run)
  BY LenProperties
<1>2. c \in 0 .. Len(run)
  <2>1. CASE rest = {}
    BY <1>1, <2>1 DEF HeadCount
  <2>2. CASE rest # {}
    <3>1. rest \in SUBSET Nat /\ \A k \in rest : k \in 1 .. Len(run)
      BY <1>1
    <3>2. c = Min(rest) - 1
      BY <2>2 DEF HeadCount
    <3> HIDE DEF rest, c
    <3>3. Min(rest) \in 1 .. Len(run)
      BY <2>2, <3>1, LeastIs
    <3>4. QED
      BY <1>1, <3>2, <3>3
  <2>3. QED
    BY <2>1, <2>2
<1>3. HeaderPages(run) = SubSeq(run, 1, c)
  BY <1>1 DEF HeaderPages, HeadCount
<1> HIDE DEF c
<1>4. IsPart(SubSeq(run, 1, c), c - 1 + 1, run, 1 - 1)
  <2>1. c \in Nat /\ 1 <= c + 1 /\ c <= Len(run)
    BY <1>1, <1>2
  <2>2. QED
    BY <2>1, PartIs
<1>5. c - 1 + 1 = c /\ 1 - 1 = 0
  BY <1>1, <1>2
<1>6. QED
  BY <1>2, <1>3, <1>4, <1>5 DEF c

(* Runs of as many pages with the same packets.                            *)
SamePackets(x, y) == Len(x) = Len(y) /\ \A i \in 1 .. Len(x) : x[i].pkts = y[i].pkts

(* Runs with the same packets have as many header pages, with the same     *)
(* packets.                                                                *)
LEMMA SameHeads ==
  ASSUME NEW x \in Seq(Pages), NEW y \in Seq(Pages), SamePackets(x, y)
  PROVE  HeadCount(x) = HeadCount(y) /\ SamePackets(HeaderPages(x), HeaderPages(y))
<1>1. Len(x) = Len(y) /\ \A i \in 1 .. Len(x) : x[i].pkts = y[i].pkts
  BY DEF SamePackets
<1>2. \A i \in 1 .. Len(x) : allhdr(x[i]) <=> allhdr(y[i])
  BY <1>1 DEF allhdr
<1>3. {k \in 1 .. Len(x) : ~allhdr(x[k])} = {k \in 1 .. Len(y) : ~allhdr(y[k])}
  BY <1>1, <1>2
<1>4. HeadCount(x) = HeadCount(y)
  BY <1>1, <1>3 DEF HeadCount
<1> DEFINE c == HeadCount(x)
           u == HeaderPages(x)
           w == HeaderPages(y)
<1>5. c \in 0 .. Len(x) /\ IsPart(u, c, x, 0) /\ IsPart(w, c, y, 0)
  BY <1>4, HeaderPagesAre
<1> HIDE DEF c, u, w
<1>6. Len(x) \in Nat
  BY LenProperties
<1>7. Len(u) = c /\ Len(w) = c /\ \A i \in 1 .. c : u[i] = x[i] /\ w[i] = y[i]
  <2>1. \A i \in 1 .. c : 0 + i = i
    BY <1>5, <1>6
  <2>2. QED
    BY <1>5, <2>1 DEF IsPart
<1>8. \A i \in 1 .. c : i \in 1 .. Len(x)
  BY <1>5, <1>6
<1>9. SamePackets(u, w)
  BY <1>1, <1>7, <1>8 DEF SamePackets
<1>10. QED
  BY <1>4, <1>9 DEF u, w

(* Their packets are as many.                                              *)
Counted(T, pages) ==
  /\ T[0] = 0 /\ T[Len(pages)] = PacketsOf(pages)
  /\ \A k \in 0 .. Len(pages) - 1 : T[k + 1] = T[k] + Len(pages[k + 1].pkts)

(* The packets of pages can be counted.                                    *)
LEMMA CountedIs ==
  ASSUME NEW pages \in Seq(Pages)
  PROVE  \E T : Counted(T, pages)
<1>1. Len(pages) \in Nat /\ DOMAIN pages = 1 .. Len(pages)
  BY LenProperties
<1>2. PICK T : Counts(T, 0, pages, Len(pages))
  <2> DEFINE n == Len(pages)
  <2>1. n \in Nat /\ DOMAIN pages = 1 .. n
    BY <1>1
  <2> HIDE DEF n
  <2>2. \E T : Counts(T, 0, pages, n)
    BY <2>1, CountsIt
  <2>3. QED
    BY <2>2 DEF n
<1>3. QED
  BY <1>2 DEF Counts, Counted, PacketsOf

(* Runs with the same packets have as many of them.                        *)
LEMMA SameCount ==
  ASSUME NEW x \in Seq(Pages), NEW y \in Seq(Pages), SamePackets(x, y)
  PROVE  PacketsOf(x) = PacketsOf(y)
<1>1. PICK T : Counted(T, x)
  BY CountedIs
<1>2. PICK U : Counted(U, y)
  BY CountedIs
<1> DEFINE n == Len(x)
           l(k) == Len(x[k + 1].pkts)
<1>3. n \in Nat /\ n = Len(y)
  BY LenProperties DEF SamePackets
<1>4. \A k \in 0 .. n - 1 : Len(y[k + 1].pkts) = l(k)
  <2> SUFFICES ASSUME NEW k \in 0 .. n - 1 PROVE Len(y[k + 1].pkts) = l(k)
    OBVIOUS
  <2>1. k + 1 \in 1 .. Len(x)
    BY <1>3
  <2>2. QED
    BY <2>1 DEF SamePackets
<1>5. /\ T[0] = 0 /\ T[n] = PacketsOf(x)
      /\ \A k \in 0 .. n - 1 : T[k + 1] = T[k] + l(k)
  BY <1>1 DEF Counted
<1>6. /\ U[0] = 0 /\ U[n] = PacketsOf(y)
      /\ \A k \in 0 .. n - 1 : U[k + 1] = U[k] + l(k)
  BY <1>2, <1>3, <1>4 DEF Counted
<1> HIDE DEF n, l
<1> DEFINE G == {k \in Nat : k <= n => T[k] = U[k]}
<1>7. 0 \in G
  BY <1>5, <1>6
<1>8. ASSUME NEW k \in Nat, k \in G PROVE k + 1 \in G
  <2> SUFFICES ASSUME k + 1 <= n PROVE T[k + 1] = U[k + 1]
    OBVIOUS
  <2>1. k \in 0 .. n - 1 /\ k <= n
    BY <1>3
  <2>2. QED
    BY <1>5, <1>6, <1>8, <2>1
<1> HIDE DEF G
<1>9. n \in G
  BY <1>3, <1>7, <1>8, Inducts
<1>10. QED
  BY <1>3, <1>5, <1>6, <1>9 DEF G

(* Where a link's headers are.                                             *)
LEMMA LinkPages ==
  ASSUME NEW in \in Seq(Pages), NEW l, l.a \in Nat, l.z \in Nat, l.a >= 1, l.a <= l.z,
         l.z <= Len(in)
  PROVE  LET s == Len(HdrOf(in, l))
         IN  /\ IsPart(RunOf(in, l), l.z - l.a + 1, in, l.a - 1)
             /\ s = HeadCount(Tail(RunOf(in, l))) /\ s \in 0 .. l.z - l.a
             /\ IsPart(Tail(RunOf(in, l)), l.z - l.a, in, l.a)
             /\ IsPart(HdrOf(in, l), s, in, l.a)
<1> DEFINE run == RunOf(in, l)
           t == Tail(run)
           h == HdrOf(in, l)
           a == l.a
           z == l.z
           s == HeadCount(t)
<1>1. a \in Nat /\ z \in Nat /\ a >= 1 /\ a <= z /\ z <= Len(in)
  OBVIOUS
<1>2. IsPart(run, z - a + 1, in, a - 1)
  <2>1. a <= z + 1
    BY <1>1
  <2> HIDE DEF a, z
  <2>2. IsPart(SubSeq(in, a, z), z - a + 1, in, a - 1)
    BY <1>1, <2>1, PartIs
  <2>3. QED
    BY <2>2 DEF RunOf, a, z
<1>3. h = HeaderPages(t)
  BY DEF HdrOf
<1> HIDE DEF run, a, z, h
<1>4. run \in Seq(Pages) /\ Len(run) = z - a + 1 /\ \A i \in 1 .. z - a + 1 : run[i] = in[a - 1 + i]
  BY <1>2 DEF IsPart
<1>5. run # <<>>
  <2>1. Len(run) # 0
    BY <1>1, <1>4
  <2>2. QED
    BY <2>1
<1>6. t \in Seq(Pages) /\ Len(t) = z - a /\ \A i \in 1 .. z - a : t[i] = in[a + i]
  <2>1. /\ t \in Seq(Pages) /\ Len(t) = Len(run) - 1
        /\ \A i \in 1 .. Len(t) : t[i] = run[i + 1]
    BY <1>4, <1>5, HeadTailProperties
  <2>2. \A i \in 1 .. z - a : i + 1 \in 1 .. z - a + 1 /\ a - 1 + (i + 1) = a + i
    BY <1>1
  <2> HIDE DEF t
  <2>3. Len(t) = z - a
    BY <1>1, <1>4, <2>1
  <2>4. QED
    BY <1>4, <2>1, <2>2, <2>3
<1> HIDE DEF t
<1>7. s \in 0 .. Len(t) /\ IsPart(h, s, t, 0)
  BY <1>3, <1>6, HeaderPagesAre
<1> HIDE DEF s
<1>8. s \in 0 .. z - a /\ Len(h) = s
  BY <1>6, <1>7 DEF IsPart
<1>9. \A i \in 1 .. s : h[i] = in[a + i]
  <2>1. \A i \in 1 .. s : i \in 1 .. z - a /\ 0 + i = i
    BY <1>1, <1>8
  <2>2. \A i \in 1 .. s : h[i] = t[0 + i]
    BY <1>7 DEF IsPart
  <2>3. QED
    BY <1>6, <2>1, <2>2
<1>10. IsPart(h, s, in, a) /\ IsPart(t, z - a, in, a)
  BY <1>6, <1>7, <1>8, <1>9 DEF IsPart
<1>11. QED
  BY <1>2, <1>8, <1>10 DEF a, z, h, run, s, t

-----------------------------------------------------------------------------
(* The links of a file are laid end to end, each from a page that opens a  *)
(* stream to the page before the next of those.                            *)
LinkType == [a : Nat, z : Nat, serial : Int, rep : Nat, hdup : Nat, rec : BOOLEAN,
             keep : BOOLEAN, setup : Nat]

IsFresh(l) == l.rep = 0 /\ l.hdup = 0 /\ ~l.rec /\ ~l.keep /\ l.setup = 0

SpanIs(l, in) ==
  /\ l.a \in Nat /\ l.z \in Nat /\ l.a >= 1 /\ l.a <= l.z /\ l.z <= Len(in)
  /\ l.serial = in[l.a].serial /\ in[l.a].open
  /\ \A k \in l.a + 1 .. l.z : ~in[k].open

Layout(ls, in) ==
  /\ in \in Seq(Pages) /\ Len(in) \in Nat /\ ls \in Seq(LinkType) /\ Len(ls) \in Nat
  /\ Len(ls) >= 1 /\ ls[1].a = 1 /\ ls[Len(ls)].z = Len(in)
  /\ \A i \in 1 .. Len(ls) : SpanIs(ls[i], in)
  /\ \A i \in 1 .. Len(ls) : \A k \in ls[i].a .. ls[i].z - 1 : ~in[k].eos
  /\ \A i \in 1 .. Len(ls) - 1 : ls[i + 1].a = ls[i].z + 1

(* A link reaches from the page that opens it to the one before the next   *)
(* of those.                                                               *)
LEMMA LinkIs ==
  ASSUME NEW in \in Seq(Pages), NEW x \in 1 .. Len(in), NEW l, l = Link(in, x)
  PROVE  /\ l \in LinkType /\ l.a = x /\ l.serial = in[x].serial /\ IsFresh(l)
         /\ l.z \in x .. Len(in) /\ \A k \in x + 1 .. l.z : ~in[k].open
         /\ (\A k \in x + 1 .. Len(in) : ~in[k].open) => l.z = Len(in)
         /\ \A y \in x + 1 .. Len(in) :
              in[y].open /\ (\A k \in x + 1 .. y - 1 : ~in[k].open) => l.z = y - 1
<1> DEFINE n == Len(in)
           S == {k \in x + 1 .. n : in[k].open}
           z == IF S = {} THEN n ELSE Min(S) - 1
<1>1. n \in Nat /\ DOMAIN in = 1 .. n /\ x \in 1 .. n /\ in[x] \in Pages
  BY LenProperties, ElementOfSeq
<1> HIDE DEF n
<1>2. {k \in Opens(in) : k > x} = S
  BY <1>1 DEF Opens
<1> DEFINE o == [a |-> x, z |-> z, serial |-> in[x].serial, rep |-> 0, hdup |-> 0, rec |-> FALSE,
                 keep |-> FALSE, setup |-> 0]
<1>3. l = o
  <2> HIDE DEF S
  <2>1. QED
    BY <1>2 DEF Link, n
<1>4. S \in SUBSET Nat
  BY <1>1
<1>5. S # {} => Min(S) \in S /\ \A y \in S : Min(S) <= y
  <2> HIDE DEF S
  <2>1. QED
    BY <1>4, LeastIs
<1>6. z \in x .. n
  <2>1. S # {} => Min(S) \in x + 1 .. n
    BY <1>5
  <2> HIDE DEF S
  <2>2. QED
    BY <1>1, <2>1
<1>7. \A k \in x + 1 .. z : ~in[k].open
  <2> SUFFICES ASSUME NEW k \in x + 1 .. z, in[k].open PROVE FALSE
    OBVIOUS
  <2>1. k \in S
    BY <1>1, <1>6
  <2>2. S # {} /\ z = Min(S) - 1 /\ Min(S) <= k /\ Min(S) \in Nat
    BY <1>4, <1>5, <2>1
  <2> HIDE DEF S
  <2>3. QED
    BY <1>1, <2>2
<1>8. (\A k \in x + 1 .. n : ~in[k].open) => z = n
  OBVIOUS
<1>9. \A y \in x + 1 .. n : in[y].open /\ (\A k \in x + 1 .. y - 1 : ~in[k].open) => z = y - 1
  <2> SUFFICES ASSUME NEW y \in x + 1 .. n, in[y].open, \A k \in x + 1 .. y - 1 : ~in[k].open
               PROVE  z = y - 1
    OBVIOUS
  <2>1. y \in S /\ \A k \in S : k >= y
    BY <1>1
  <2>2. S # {} /\ Min(S) \in S /\ Min(S) <= y /\ Min(S) >= y /\ Min(S) \in Nat
    <3>1. S # {}
      BY <2>1
    <3>2. Min(S) \in S /\ Min(S) <= y
      BY <1>5, <2>1, <3>1
    <3> HIDE DEF S
    <3>3. QED
      BY <1>4, <2>1, <3>1, <3>2
  <2> HIDE DEF S
  <2>3. QED
    BY <1>1, <2>2
<1> HIDE DEF z
<1>10. in[x].serial \in Int /\ z \in Nat
  BY <1>1, <1>6 DEF Pages
<1>11. o \in LinkType /\ o.a = x /\ o.z = z /\ o.serial = in[x].serial /\ IsFresh(o)
  BY <1>1, <1>10 DEF LinkType, IsFresh
<1> HIDE DEF o
<1>12. QED
  BY <1>3, <1>6, <1>7, <1>8, <1>9, <1>11 DEF n

(* A link ends in front of the next page that opens a stream.              *)
LEMMA LinkEnds ==
  ASSUME NEW in \in Seq(Pages), NEW x \in 1 .. Len(in), NEW l, l = Link(in, x),
         NEW y \in x + 1 .. Len(in), in[y].open, \A j \in x + 1 .. y - 1 : ~in[j].open
  PROVE  l.z = y - 1
<1>1. \A w \in x + 1 .. Len(in) :
        in[w].open /\ (\A j \in x + 1 .. w - 1 : ~in[j].open) => l.z = w - 1
  BY LinkIs, SMTT(30)
<1>2. QED
  BY <1>1

(* The links found on the first k pages.                                   *)
Found(ls, in, k) ==
  /\ ls \in Seq(LinkType) /\ Len(ls) \in Nat
  /\ \A i \in 1 .. Len(ls) : ls[i].a \in 1 .. k /\ ls[i] = Link(in, ls[i].a) /\ in[ls[i].a].open
  /\ k >= 1 => Len(ls) >= 1 /\ ls[1].a = 1 /\ \A j \in ls[Len(ls)].a + 1 .. k : ~in[j].open
  /\ \A i \in 1 .. Len(ls) - 1 : ls[i + 1].a = ls[i].z + 1

(* One more page opens a link or belongs to the last one.                  *)
LEMMA FoundNext ==
  ASSUME NEW in \in Seq(Pages), NEW k \in 0 .. Len(in) - 1, NEW ls, Found(ls, in, k), k = 0 => ls = <<>>,
         k = 0 => in[1].open,
         NEW r, r = IF in[k + 1].open THEN Append(ls, Link(in, k + 1)) ELSE ls
  PROVE  Found(r, in, k + 1)
<1> DEFINE n == Len(ls)
           l == Link(in, k + 1)
<1>1. k + 1 \in 1 .. Len(in) /\ k \in Nat /\ Len(in) \in Nat
  BY LenProperties
<1>2. /\ ls \in Seq(LinkType) /\ n \in Nat
      /\ \A i \in 1 .. n : ls[i].a \in 1 .. k /\ ls[i] = Link(in, ls[i].a) /\ in[ls[i].a].open
      /\ k >= 1 => n >= 1 /\ ls[1].a = 1 /\ \A j \in ls[n].a + 1 .. k : ~in[j].open
      /\ \A i \in 1 .. n - 1 : ls[i + 1].a = ls[i].z + 1
  BY DEF Found
<1>3. l \in LinkType /\ l.a = k + 1
  BY <1>1, LinkIs
<1>4. CASE in[k + 1].open
  <2>1. r = Append(ls, l)
    BY <1>4
  <2>2. r \in Seq(LinkType) /\ IsLonger(r, ls, l)
    BY <1>2, <1>3, <2>1, Appended
  <2>3. Len(r) = n + 1 /\ r[n + 1] = l /\ \A i \in 1 .. n : r[i] = ls[i]
    BY <2>2 DEF IsLonger
  <2>4. k = 0 => n = 0
    OBVIOUS
  <2>5. n >= 1 => ls[n].z = k
    <3> SUFFICES ASSUME n >= 1 PROVE ls[n].z = k
      OBVIOUS
    <3> DEFINE x == ls[n].a
               e == ls[n]
               y == k + 1
    <3>1. n \in 1 .. n /\ x \in 1 .. k /\ e = Link(in, x) /\ k >= 1
      BY <1>1, <1>2, <2>4
    <3>2. y \in x + 1 .. Len(in) /\ in[y].open /\ x \in 1 .. Len(in)
      BY <1>1, <1>4, <3>1
    <3>3. \A j \in x + 1 .. y - 1 : ~in[j].open
      <4>1. y - 1 = k
        BY <1>1
      <4>2. \A j \in x + 1 .. k : ~in[j].open
        BY <1>2, <3>1
      <4>3. QED
        BY <4>1, <4>2
    <3> HIDE DEF x, e, y
    <3>4. e.z = y - 1
      BY <3>1, <3>2, <3>3, LinkEnds
    <3>5. QED
      BY <1>1, <3>4 DEF e, y
  <2> HIDE DEF n, l
  <2>6. \A i \in 1 .. n + 1 : r[i].a \in 1 .. k + 1 /\ r[i] = Link(in, r[i].a) /\ in[r[i].a].open
    <3> SUFFICES ASSUME NEW i \in 1 .. n + 1
                 PROVE  r[i].a \in 1 .. k + 1 /\ r[i] = Link(in, r[i].a) /\ in[r[i].a].open
      OBVIOUS
    <3>1. CASE i = n + 1
      <4>1. r[i] = l
        BY <2>3, <3>1
      <4>4. k + 1 \in 1 .. k + 1
        BY <1>1
      <4>2. r[i].a = k + 1 /\ r[i].a \in 1 .. k + 1
        BY <1>3, <4>1, <4>4
      <4>3. QED
        BY <1>4, <4>1, <4>2 DEF l
    <3>2. CASE i # n + 1
      <4>1. i \in 1 .. n /\ r[i] = ls[i]
        BY <1>2, <2>3, <3>2
      <4>2. ls[i].a \in 1 .. k /\ ls[i] = Link(in, ls[i].a) /\ in[ls[i].a].open
        BY <1>2, <4>1
      <4>3. ls[i].a \in 1 .. k + 1
        BY <1>1, <4>2
      <4>4. QED
        BY <4>1, <4>2, <4>3
    <3>3. QED
      BY <3>1, <3>2
  <2>7. \A i \in 1 .. (n + 1) - 1 : r[i + 1].a = r[i].z + 1
    <3> SUFFICES ASSUME NEW i \in 1 .. (n + 1) - 1 PROVE r[i + 1].a = r[i].z + 1
      OBVIOUS
    <3>1. CASE i = n
      BY <1>1, <1>2, <1>3, <2>3, <2>5, <3>1
    <3>2. CASE i # n
      <4>1. i \in 1 .. n - 1 /\ i \in 1 .. n /\ i + 1 \in 1 .. n
        BY <1>2, <3>2
      <4>2. QED
        BY <1>2, <2>3, <4>1
    <3>3. QED
      BY <3>1, <3>2
  <2>8. r[1].a = 1
    <3>1. CASE n = 0
      <4>1. k = 0
        BY <1>1, <1>2, <3>1
      <4>2. QED
        BY <1>3, <2>3, <3>1, <4>1
    <3>2. CASE n # 0
      <4>1. 1 \in 1 .. n /\ k >= 1
        BY <1>1, <1>2, <2>4, <3>2
      <4>2. QED
        BY <1>2, <2>3, <4>1
    <3>3. QED
      BY <3>1, <3>2
  <2>9. r[n + 1].a = k + 1 /\ \A j \in (k + 1) + 1 .. k + 1 : ~in[j].open
    BY <1>1, <1>3, <2>3
  <2>10. QED
    BY <1>2, <2>2, <2>3, <2>6, <2>7, <2>8, <2>9 DEF Found
<1>5. CASE ~in[k + 1].open
  <2>1. r = ls /\ k >= 1
    BY <1>1, <1>5
  <2>2. \A j \in ls[n].a + 1 .. k + 1 : ~in[j].open
    <3>1. n \in 1 .. n
      BY <1>2, <2>1
    <3>2. ls[n].a \in 1 .. k
      BY <1>2, <3>1
    <3>3. \A j \in ls[n].a + 1 .. k : ~in[j].open
      BY <1>2, <2>1
    <3> HIDE DEF n
    <3>4. \A j \in ls[n].a + 1 .. k + 1 : j = k + 1 \/ j \in ls[n].a + 1 .. k
      BY <1>1, <3>2
    <3>5. QED
      BY <1>5, <3>3, <3>4
  <2>3. \A i \in 1 .. n : ls[i].a \in 1 .. k + 1
    BY <1>1, <1>2
  <2>4. QED
    BY <1>2, <2>1, <2>2, <2>3 DEF Found
<1>6. QED
  BY <1>4, <1>5

(* Scan finds links laid end to end, none of them referring to another.    *)
LEMMA LinksAreLaid ==
  ASSUME NEW in \in Seq(Pages), in # <<>>, \A k \in DOMAIN in : ~Stray(in, k), NEW ls, ls = LinksOf(in)
  PROVE  Layout(ls, in) /\ \A i \in 1 .. Len(ls) : IsFresh(ls[i])
<1> DEFINE n == Len(in)
           q == [k \in DOMAIN in |-> k]
<1>1. n \in Nat /\ DOMAIN in = 1 .. n /\ n >= 1 /\ \A k \in 1 .. n : in[k] \in Pages
  <2>1. n \in Nat /\ DOMAIN in = 1 .. n /\ \A k \in 1 .. n : in[k] \in Pages
    BY LenProperties, ElementOfSeq
  <2>2. n # 0
    BY EmptySeq
  <2>3. QED
    BY <2>1, <2>2
<1>2. \A k \in 1 .. n : ~Stray(in, k)
  BY <1>1
<1>3. \A k \in 1 .. n : \E j \in 1 .. k : in[j].open
        /\ \A i \in j .. k - 1 : in[i].eos => \E m \in i + 1 .. k : in[m].open
  BY <1>2 DEF Stray
<1> HIDE DEF n
<1>4. in[1].open
  <2>1. 1 \in 1 .. n /\ \A j \in 1 .. 1 : j = 1
    BY <1>1
  <2>2. QED
    BY <1>3, <2>1
<1>5. DOMAIN q = 1 .. n /\ \A k \in 1 .. n : q[k] = k
  BY <1>1
<1>6. PICK t : Finds(t, <<>>, q, n, in)
  <2> HIDE DEF q
  <2>1. QED
    BY <1>1, <1>5, FindsIt
<1>7. /\ t[0] = <<>> /\ t[n] = ls
      /\ \A k \in 0 .. n - 1 :
           t[k + 1] = IF in[k + 1].open THEN Append(t[k], Link(in, k + 1)) ELSE t[k]
  <2>1. t[0] = <<>> /\ t[n] = ls
    BY <1>6 DEF Finds, LinksOf
  <2>2. \A k \in 0 .. n - 1 : k + 1 \in 1 .. n
    BY <1>1
  <2>3. \A k \in 0 .. n - 1 : q[k + 1] = k + 1
    BY <1>5, <2>2
  <2> HIDE DEF q
  <2>4. QED
    BY <1>6, <2>1, <2>3 DEF Finds
<1> HIDE DEF q
<1> DEFINE G == {k \in Nat : k <= n => Found(t[k], in, k)}
<1>8. 0 \in G
  <2>1. Found(<<>>, in, 0)
    <3>1. << >> \in Seq(LinkType) /\ Len(<< >>) = 0
      OBVIOUS
    <3>2. QED
      BY <3>1 DEF Found
  <2>2. QED
    BY <1>7, <2>1
<1>9. ASSUME NEW k \in Nat, k \in G PROVE k + 1 \in G
  <2> SUFFICES ASSUME k + 1 <= n PROVE Found(t[k + 1], in, k + 1)
    OBVIOUS
  <2>1. k \in 0 .. n - 1 /\ k <= n
    BY <1>1
  <2> DEFINE x == t[k]
             y == t[k + 1]
  <2>2. Found(x, in, k) /\ k \in 0 .. Len(in) - 1
    BY <1>9, <2>1 DEF n
  <2>3. (k = 0 => x = <<>>) /\ y = IF in[k + 1].open THEN Append(x, Link(in, k + 1)) ELSE x
    BY <1>7, <2>1
  <2> HIDE DEF x, y
  <2>4. Found(y, in, k + 1)
    BY <1>4, <2>2, <2>3, FoundNext
  <2>5. QED
    BY <2>4 DEF y
<1> HIDE DEF G
<1>10. n \in G
  BY <1>1, <1>8, <1>9, Inducts
<1>11. Found(ls, in, n)
  BY <1>1, <1>7, <1>10 DEF G
<1> DEFINE N == Len(ls)
<1>12. /\ ls \in Seq(LinkType) /\ N \in Nat
       /\ \A i \in 1 .. N : ls[i].a \in 1 .. n /\ ls[i] = Link(in, ls[i].a) /\ in[ls[i].a].open
       /\ N >= 1 /\ ls[1].a = 1 /\ \A j \in ls[N].a + 1 .. n : ~in[j].open
       /\ \A i \in 1 .. N - 1 : ls[i + 1].a = ls[i].z + 1
  BY <1>1, <1>11 DEF Found
<1> HIDE DEF N
<1>13. ASSUME NEW i \in 1 .. N
       PROVE  /\ SpanIs(ls[i], in) /\ IsFresh(ls[i])
              /\ (\A k \in ls[i].a + 1 .. n : ~in[k].open) => ls[i].z = n
  <2> DEFINE l == ls[i]
             x == l.a
  <2>1. x \in 1 .. Len(in) /\ l = Link(in, x) /\ in[x].open /\ x \in Nat /\ n = Len(in) /\ n \in Nat
    BY <1>1, <1>12 DEF n
  <2> HIDE DEF x
  <2>2. /\ l.serial = in[x].serial /\ IsFresh(l)
        /\ l.z \in x .. Len(in) /\ \A k \in x + 1 .. l.z : ~in[k].open
        /\ (\A k \in x + 1 .. Len(in) : ~in[k].open) => l.z = Len(in)
    <3> HIDE DEF l
    <3>1. QED
      BY <2>1, LinkIs
  <2>3. l.a = x
    BY DEF x
  <2> HIDE DEF l
  <2>4. l.z \in Nat /\ x <= l.z /\ l.z <= Len(in) /\ x >= 1
    BY <2>1, <2>2
  <2>5. SpanIs(l, in)
    BY <2>1, <2>2, <2>3, <2>4 DEF SpanIs
  <2>6. QED
    BY <2>1, <2>2, <2>3, <2>5 DEF l
<1>14. ls[N].z = n
  <2>1. N \in 1 .. N
    BY <1>12
  <2>2. QED
    BY <1>12, <1>13, <2>1
<1>15. ASSUME NEW i \in 1 .. N, NEW k \in ls[i].a .. ls[i].z - 1 PROVE ~in[k].eos
  <2> DEFINE a == ls[i].a
             z == ls[i].z
  <2>1. /\ a \in Nat /\ z \in Nat /\ a >= 1 /\ a <= z /\ z <= n
        /\ \A m \in a + 1 .. z : ~in[m].open
    BY <1>13 DEF SpanIs, n
  <2>2. k \in a .. z - 1
    OBVIOUS
  <2> HIDE DEF a, z
  <2>3. k + 1 \in 1 .. n /\ k \in Nat
    BY <1>1, <2>1, <2>2
  <2>4. PICK j \in 1 .. k + 1 :
          in[j].open /\ \A x \in j .. (k + 1) - 1 : in[x].eos => \E m \in x + 1 .. k + 1 : in[m].open
    BY <1>3, <2>3
  <2>5. j <= a
    <3> SUFFICES ASSUME ~(j <= a) PROVE FALSE
      OBVIOUS
    <3>1. j \in a + 1 .. z
      BY <2>1, <2>2
    <3>2. QED
      BY <2>1, <2>4, <3>1
  <2>6. k \in j .. (k + 1) - 1
    BY <2>1, <2>2, <2>5
  <2> SUFFICES ASSUME in[k].eos PROVE FALSE
    OBVIOUS
  <2>7. PICK m \in k + 1 .. k + 1 : in[m].open
    BY <2>4, <2>6
  <2>8. m \in a + 1 .. z
    BY <2>1, <2>2
  <2>9. QED
    BY <2>1, <2>7, <2>8
<1>16. n = Len(in)
  BY DEF n
<1>17. Layout(ls, in)
  BY <1>1, <1>12, <1>13, <1>14, <1>15, <1>16 DEF Layout, N
<1>18. QED
  BY <1>13, <1>17 DEF N

-----------------------------------------------------------------------------
(* What a link refers to.                                                  *)
SameSpans(r, ls) ==
  /\ r \in Seq(LinkType) /\ Len(r) = Len(ls)
  /\ \A k \in 1 .. Len(ls) : r[k].a = ls[k].a /\ r[k].z = ls[k].z /\ r[k].serial = ls[k].serial

(* Links with the same pages are laid alike.                               *)
LEMMA LaidStill ==
  ASSUME NEW in, NEW ls, Layout(ls, in), NEW r, SameSpans(r, ls)
  PROVE  Layout(r, in)
<1> DEFINE n == Len(ls)
<1>1. /\ in \in Seq(Pages) /\ Len(in) \in Nat /\ ls \in Seq(LinkType) /\ n \in Nat
      /\ n >= 1 /\ ls[1].a = 1 /\ ls[n].z = Len(in)
      /\ \A i \in 1 .. n : SpanIs(ls[i], in)
      /\ \A i \in 1 .. n : \A k \in ls[i].a .. ls[i].z - 1 : ~in[k].eos
      /\ \A i \in 1 .. n - 1 : ls[i + 1].a = ls[i].z + 1
  BY DEF Layout
<1>2. /\ r \in Seq(LinkType) /\ Len(r) = n
      /\ \A k \in 1 .. n : r[k].a = ls[k].a /\ r[k].z = ls[k].z /\ r[k].serial = ls[k].serial
  BY DEF SameSpans
<1> HIDE DEF n
<1>3. r[1].a = 1 /\ r[n].z = Len(in)
  BY <1>1, <1>2
<1>4. \A i \in 1 .. n : SpanIs(r[i], in)
  <2> SUFFICES ASSUME NEW i \in 1 .. n PROVE SpanIs(r[i], in)
    OBVIOUS
  <2> DEFINE x == r[i]
             l == ls[i]
  <2>1. SpanIs(l, in) /\ x.a = l.a /\ x.z = l.z /\ x.serial = l.serial
    BY <1>1, <1>2
  <2> HIDE DEF x, l
  <2>2. SpanIs(x, in)
    BY <2>1 DEF SpanIs
  <2>3. QED
    BY <2>2 DEF x
<1>5. \A i \in 1 .. n : \A k \in r[i].a .. r[i].z - 1 : ~in[k].eos
  <2> SUFFICES ASSUME NEW i \in 1 .. n PROVE \A k \in r[i].a .. r[i].z - 1 : ~in[k].eos
    OBVIOUS
  <2>1. r[i].a = ls[i].a /\ r[i].z = ls[i].z /\ \A k \in ls[i].a .. ls[i].z - 1 : ~in[k].eos
    BY <1>1, <1>2
  <2>2. QED
    BY <2>1
<1>6. \A i \in 1 .. n - 1 : r[i + 1].a = r[i].z + 1
  <2>1. \A i \in 1 .. n - 1 : i \in 1 .. n /\ i + 1 \in 1 .. n
    BY <1>1
  <2>2. QED
    BY <1>1, <1>2, <2>1
<1>7. QED
  BY <1>1, <1>2, <1>3, <1>4, <1>5, <1>6 DEF Layout

RefIs(ls, in, i) ==
  LET l == ls[i]
  IN  /\ l.rep # 0 => /\ l.rep \in 1 .. i - 1 /\ l.hdup = 0 /\ ls[l.rep].rep = 0 /\ ls[l.rep].rec
                      /\ samerun(RunOf(in, l), RunOf(in, ls[l.rep]))
      /\ l.hdup # 0 => /\ l.hdup \in 1 .. i - 1 /\ ls[l.hdup].rep = 0 /\ ls[l.hdup].hdup = 0
                       /\ ls[l.hdup].keep /\ ~l.keep
                       /\ samerun(HdrOf(in, l), HdrOf(in, ls[l.hdup]))

Refs(ls, in) == \A i \in 1 .. Len(ls) : RefIs(ls, in, i)

FreshFrom(ls, n) == \A i \in 1 .. Len(ls) : i >= n => IsFresh(ls[i])

(* r has the links of ls, and marks i as a repeat of m, or its headers.    *)
WholeMarked(r, ls, i, m) ==
  /\ SameSpans(r, ls)
  /\ \A k \in 1 .. Len(ls) :
       /\ r[k].hdup = ls[k].hdup /\ r[k].keep = ls[k].keep /\ r[k].setup = ls[k].setup
       /\ r[k].rep = IF k = i THEN m ELSE ls[k].rep
       /\ r[k].rec = IF k = m THEN TRUE ELSE ls[k].rec

HeadersMarked(r, ls, i, m) ==
  /\ SameSpans(r, ls)
  /\ \A k \in 1 .. Len(ls) :
       /\ r[k].rep = ls[k].rep /\ r[k].rec = ls[k].rec /\ r[k].setup = ls[k].setup
       /\ r[k].hdup = IF k = i THEN m ELSE ls[k].hdup
       /\ r[k].keep = IF k = m THEN TRUE ELSE ls[k].keep

(* A sequence of records with another record in one place.                 *)
Replaced(r, ls, i, l) ==
  r \in Seq(LinkType) /\ Len(r) = Len(ls) /\ \A k \in 1 .. Len(ls) : r[k] = IF k = i THEN l ELSE ls[k]

(* Links of which one is replaced.                                         *)
LEMMA ReplacedIs ==
  ASSUME NEW ls \in Seq(LinkType), NEW i \in 1 .. Len(ls), NEW l \in LinkType
  PROVE  Replaced([ls EXCEPT ![i] = l], ls, i, l)
BY ExceptSeq DEF Replaced

(* What WholeRepeated does to the links.                                   *)
LEMMA WholeIsMarked ==
  ASSUME NEW ls \in Seq(LinkType), NEW i \in 1 .. Len(ls), NEW m \in 1 .. Len(ls), m # i,
         NEW r, r = [ls EXCEPT ![i].rep = m, ![m].rec = TRUE]
  PROVE  WholeMarked(r, ls, i, m)
<1> DEFINE l == [ls[i] EXCEPT !.rep = m]
           x == [ls EXCEPT ![i] = l]
           g == [ls[m] EXCEPT !.rec = TRUE]
           y == [x EXCEPT ![m] = g]
<1>1. \A k \in 1 .. Len(ls) : ls[k] \in LinkType
  BY ElementOfSeq
<1>2. m \in Nat
  OBVIOUS
<1>3. l \in LinkType /\ g \in LinkType
  BY <1>1, <1>2 DEF LinkType
<1>4. [ls EXCEPT ![i].rep = m] = x
  OBVIOUS
<1> HIDE DEF l
<1>5. Replaced(x, ls, i, l)
  BY <1>3, ReplacedIs
<1>6. x[m] = ls[m]
  BY <1>5 DEF Replaced
<1>7. [x EXCEPT ![m].rec = TRUE] = [x EXCEPT ![m] = [x[m] EXCEPT !.rec = TRUE]]
  OBVIOUS
<1> HIDE DEF x
<1>8. r = y
  BY <1>4, <1>6, <1>7
<1> HIDE DEF g
<1>9. x \in Seq(LinkType) /\ m \in 1 .. Len(x) /\ Len(x) = Len(ls)
  BY <1>5 DEF Replaced
<1>10. Replaced(y, x, m, g)
  BY <1>3, <1>9, ReplacedIs
<1>11. r \in Seq(LinkType) /\ Len(r) = Len(ls)
       /\ \A k \in 1 .. Len(ls) : r[k] = IF k = m THEN g ELSE IF k = i THEN l ELSE ls[k]
  BY <1>5, <1>8, <1>9, <1>10 DEF Replaced
<1>12. /\ l.a = ls[i].a /\ l.z = ls[i].z /\ l.serial = ls[i].serial /\ l.hdup = ls[i].hdup
       /\ l.keep = ls[i].keep /\ l.setup = ls[i].setup /\ l.rep = m /\ l.rec = ls[i].rec
       /\ g.a = ls[m].a /\ g.z = ls[m].z /\ g.serial = ls[m].serial /\ g.hdup = ls[m].hdup
       /\ g.keep = ls[m].keep /\ g.setup = ls[m].setup /\ g.rep = ls[m].rep /\ g.rec = TRUE
  BY <1>1 DEF LinkType, l, g
<1>13. ASSUME NEW k \in 1 .. Len(ls)
       PROVE  /\ r[k].a = ls[k].a /\ r[k].z = ls[k].z /\ r[k].serial = ls[k].serial
              /\ r[k].hdup = ls[k].hdup /\ r[k].keep = ls[k].keep /\ r[k].setup = ls[k].setup
              /\ r[k].rep = IF k = i THEN m ELSE ls[k].rep
              /\ r[k].rec = IF k = m THEN TRUE ELSE ls[k].rec
  <2>1. r[k] = IF k = m THEN g ELSE IF k = i THEN l ELSE ls[k]
    BY <1>11
  <2>2. CASE k = m
    <3>1. r[k] = g /\ k # i
      BY <2>1, <2>2
    <3>2. QED
      BY <1>12, <2>2, <3>1
  <2>3. CASE k = i
    <3>1. r[k] = l /\ k # m
      BY <2>1, <2>3
    <3>2. QED
      BY <1>12, <2>3, <3>1
  <2>4. CASE k # m /\ k # i
    BY <2>1, <2>4
  <2>5. QED
    BY <2>2, <2>3, <2>4
<1>14. QED
  BY <1>11, <1>13 DEF WholeMarked, SameSpans

(* What HeaderRepeated does to them.                                       *)
LEMMA HeadersAreMarked ==
  ASSUME NEW ls \in Seq(LinkType), NEW i \in 1 .. Len(ls), NEW m \in 1 .. Len(ls), m # i,
         NEW r, r = [ls EXCEPT ![i].hdup = m, ![m].keep = TRUE]
  PROVE  HeadersMarked(r, ls, i, m)
<1> DEFINE l == [ls[i] EXCEPT !.hdup = m]
           x == [ls EXCEPT ![i] = l]
           g == [ls[m] EXCEPT !.keep = TRUE]
           y == [x EXCEPT ![m] = g]
<1>1. \A k \in 1 .. Len(ls) : ls[k] \in LinkType
  BY ElementOfSeq
<1>2. m \in Nat
  OBVIOUS
<1>3. l \in LinkType /\ g \in LinkType
  BY <1>1, <1>2 DEF LinkType
<1>4. [ls EXCEPT ![i].hdup = m] = x
  OBVIOUS
<1> HIDE DEF l
<1>5. Replaced(x, ls, i, l)
  BY <1>3, ReplacedIs
<1>6. x[m] = ls[m]
  BY <1>5 DEF Replaced
<1>7. [x EXCEPT ![m].keep = TRUE] = [x EXCEPT ![m] = [x[m] EXCEPT !.keep = TRUE]]
  OBVIOUS
<1> HIDE DEF x
<1>8. r = y
  BY <1>4, <1>6, <1>7
<1> HIDE DEF g
<1>9. x \in Seq(LinkType) /\ m \in 1 .. Len(x) /\ Len(x) = Len(ls)
  BY <1>5 DEF Replaced
<1>10. Replaced(y, x, m, g)
  BY <1>3, <1>9, ReplacedIs
<1>11. r \in Seq(LinkType) /\ Len(r) = Len(ls)
       /\ \A k \in 1 .. Len(ls) : r[k] = IF k = m THEN g ELSE IF k = i THEN l ELSE ls[k]
  BY <1>5, <1>8, <1>9, <1>10 DEF Replaced
<1>12. /\ l.a = ls[i].a /\ l.z = ls[i].z /\ l.serial = ls[i].serial /\ l.rep = ls[i].rep
       /\ l.rec = ls[i].rec /\ l.setup = ls[i].setup /\ l.hdup = m /\ l.keep = ls[i].keep
       /\ g.a = ls[m].a /\ g.z = ls[m].z /\ g.serial = ls[m].serial /\ g.rep = ls[m].rep
       /\ g.rec = ls[m].rec /\ g.setup = ls[m].setup /\ g.hdup = ls[m].hdup /\ g.keep = TRUE
  BY <1>1 DEF LinkType, l, g
<1>13. ASSUME NEW k \in 1 .. Len(ls)
       PROVE  /\ r[k].a = ls[k].a /\ r[k].z = ls[k].z /\ r[k].serial = ls[k].serial
              /\ r[k].rep = ls[k].rep /\ r[k].rec = ls[k].rec /\ r[k].setup = ls[k].setup
              /\ r[k].hdup = IF k = i THEN m ELSE ls[k].hdup
              /\ r[k].keep = IF k = m THEN TRUE ELSE ls[k].keep
  <2>1. r[k] = IF k = m THEN g ELSE IF k = i THEN l ELSE ls[k]
    BY <1>11
  <2>2. CASE k = m
    <3>1. r[k] = g /\ k # i
      BY <2>1, <2>2
    <3>2. QED
      BY <1>12, <2>2, <3>1
  <2>3. CASE k = i
    <3>1. r[k] = l /\ k # m
      BY <2>1, <2>3
    <3>2. QED
      BY <1>12, <2>3, <3>1
  <2>4. CASE k # m /\ k # i
    BY <2>1, <2>4
  <2>5. QED
    BY <2>2, <2>3, <2>4
<1>14. QED
  BY <1>11, <1>13 DEF HeadersMarked, SameSpans

(* A repeat of an earlier link is referred to a link that is coded, and    *)
(* the others refer to what they did.                                      *)
LEMMA RefsAfterWhole ==
  ASSUME NEW in, NEW ls, Len(ls) \in Nat, Refs(ls, in), NEW i \in 1 .. Len(ls), FreshFrom(ls, i),
         NEW m \in 1 .. i - 1, ls[m].rep = 0, samerun(RunOf(in, ls[i]), RunOf(in, ls[m])),
         NEW r, WholeMarked(r, ls, i, m)
  PROVE  Refs(r, in) /\ FreshFrom(r, i + 1)
<1> DEFINE n == Len(ls)
<1>1. n \in Nat /\ i \in 1 .. n /\ m \in 1 .. n /\ m # i /\ m # 0 /\ m < i
  OBVIOUS
<1>2. /\ Len(r) = n
      /\ \A k \in 1 .. n :
           /\ r[k].a = ls[k].a /\ r[k].z = ls[k].z /\ r[k].serial = ls[k].serial
           /\ r[k].hdup = ls[k].hdup /\ r[k].keep = ls[k].keep /\ r[k].setup = ls[k].setup
           /\ r[k].rep = IF k = i THEN m ELSE ls[k].rep
           /\ r[k].rec = IF k = m THEN TRUE ELSE ls[k].rec
  BY DEF WholeMarked, SameSpans
<1>3. \A k \in 1 .. n : RefIs(ls, in, k) /\ (k >= i => IsFresh(ls[k]))
  BY DEF Refs, FreshFrom
<1>4. \A k \in 1 .. n : RunOf(in, r[k]) = RunOf(in, ls[k]) /\ HdrOf(in, r[k]) = HdrOf(in, ls[k])
  BY <1>2 DEF RunOf, HdrOf
<1>5. samerun(RunOf(in, ls[i]), RunOf(in, ls[m])) /\ ls[m].rep = 0
  OBVIOUS
<1> HIDE DEF n
<1>6. ASSUME NEW k \in 1 .. n PROVE RefIs(r, in, k)
  <2>1. CASE k = i
    <3>5. IsFresh(ls[i])
      BY <1>1, <1>3
    <3>6. r[i].rep = m /\ r[i].hdup = 0
      BY <1>1, <1>2, <3>5 DEF IsFresh
    <3>7. r[m].rep = 0 /\ r[m].rec
      BY <1>1, <1>2, <1>5
    <3>1. r[k].rep = m /\ r[k].hdup = 0 /\ r[m].rep = 0 /\ r[m].rec
      BY <2>1, <3>6, <3>7
    <3>2. samerun(RunOf(in, r[k]), RunOf(in, r[m]))
      BY <1>1, <1>4, <1>5, <2>1
    <3>3. m \in 1 .. k - 1
      BY <1>1, <2>1
    <3>4. QED
      BY <3>1, <3>2, <3>3 DEF RefIs
  <2>2. CASE k # i
    <3>1. r[k].rep = ls[k].rep /\ r[k].hdup = ls[k].hdup /\ r[k].keep = ls[k].keep
      BY <1>2, <2>2
    <3>2. \A j \in 1 .. k - 1 : j \in 1 .. n
      BY <1>1
    <3>3. ASSUME r[k].rep # 0
          PROVE  /\ r[k].rep \in 1 .. k - 1 /\ r[k].hdup = 0 /\ r[r[k].rep].rep = 0 /\ r[r[k].rep].rec
                 /\ samerun(RunOf(in, r[k]), RunOf(in, r[r[k].rep]))
      <4> DEFINE j == ls[k].rep
      <4>1. /\ j \in 1 .. k - 1 /\ ls[k].hdup = 0 /\ ls[j].rep = 0 /\ ls[j].rec
            /\ samerun(RunOf(in, ls[k]), RunOf(in, ls[j]))
        BY <1>3, <3>1, <3>3 DEF RefIs
      <4> HIDE DEF j
      <4>2. j \in 1 .. n /\ j # i
        <5>1. k < i
          BY <1>1, <1>3, <2>2, <3>1, <3>3 DEF IsFresh
        <5>2. QED
          BY <1>1, <3>2, <4>1, <5>1
      <4>3. r[j].rep = 0 /\ r[j].rec /\ samerun(RunOf(in, r[k]), RunOf(in, r[j]))
        BY <1>2, <1>4, <4>1, <4>2
      <4>4. QED
        BY <3>1, <4>1, <4>3 DEF j
    <3>4. ASSUME r[k].hdup # 0
          PROVE  /\ r[k].hdup \in 1 .. k - 1 /\ r[r[k].hdup].rep = 0 /\ r[r[k].hdup].hdup = 0
                 /\ r[r[k].hdup].keep /\ ~r[k].keep
                 /\ samerun(HdrOf(in, r[k]), HdrOf(in, r[r[k].hdup]))
      <4> DEFINE j == ls[k].hdup
      <4>1. /\ j \in 1 .. k - 1 /\ ls[j].rep = 0 /\ ls[j].hdup = 0 /\ ls[j].keep /\ ~ls[k].keep
            /\ samerun(HdrOf(in, ls[k]), HdrOf(in, ls[j]))
        BY <1>3, <3>1, <3>4 DEF RefIs
      <4> HIDE DEF j
      <4>2. j \in 1 .. n /\ j # i
        <5>1. k < i
          BY <1>1, <1>3, <2>2, <3>1, <3>4 DEF IsFresh
        <5>2. QED
          BY <1>1, <3>2, <4>1, <5>1
      <4>3. r[j].rep = 0 /\ r[j].hdup = 0 /\ r[j].keep /\ ~r[k].keep
            /\ samerun(HdrOf(in, r[k]), HdrOf(in, r[j]))
        BY <1>2, <1>4, <3>1, <4>1, <4>2
      <4>4. QED
        BY <3>1, <4>1, <4>3 DEF j
    <3>5. QED
      BY <3>3, <3>4 DEF RefIs
  <2>3. QED
    BY <2>1, <2>2
<1>7. ASSUME NEW k \in 1 .. n, k >= i + 1 PROVE IsFresh(r[k])
  <2>1. k # i /\ k # m /\ k >= i
    BY <1>1, <1>7
  <2>3. IsFresh(ls[k])
    BY <1>3, <2>1
  <2>4. /\ r[k].rep = ls[k].rep /\ r[k].hdup = ls[k].hdup /\ r[k].rec = ls[k].rec
        /\ r[k].keep = ls[k].keep /\ r[k].setup = ls[k].setup
    BY <1>2, <2>1
  <2>2. QED
    BY <2>3, <2>4 DEF IsFresh
<1>8. QED
  BY <1>2, <1>6, <1>7 DEF Refs, FreshFrom, n

(* So is a repeat of the headers of one that codes them.                   *)
LEMMA RefsAfterHeaders ==
  ASSUME NEW in, NEW ls, Len(ls) \in Nat, Refs(ls, in), NEW i \in 1 .. Len(ls), FreshFrom(ls, i),
         NEW m \in 1 .. i - 1, ls[m].rep = 0, ls[m].hdup = 0,
         samerun(HdrOf(in, ls[i]), HdrOf(in, ls[m])), NEW r, HeadersMarked(r, ls, i, m)
  PROVE  Refs(r, in) /\ FreshFrom(r, i + 1)
<1> DEFINE n == Len(ls)
<1>1. n \in Nat /\ i \in 1 .. n /\ m \in 1 .. n /\ m # i /\ m # 0 /\ m < i
  OBVIOUS
<1>2. /\ Len(r) = n
      /\ \A k \in 1 .. n :
           /\ r[k].a = ls[k].a /\ r[k].z = ls[k].z /\ r[k].serial = ls[k].serial
           /\ r[k].rep = ls[k].rep /\ r[k].rec = ls[k].rec /\ r[k].setup = ls[k].setup
           /\ r[k].hdup = IF k = i THEN m ELSE ls[k].hdup
           /\ r[k].keep = IF k = m THEN TRUE ELSE ls[k].keep
  BY DEF HeadersMarked, SameSpans
<1>3. \A k \in 1 .. n : RefIs(ls, in, k) /\ (k >= i => IsFresh(ls[k]))
  BY DEF Refs, FreshFrom
<1>4. \A k \in 1 .. n : RunOf(in, r[k]) = RunOf(in, ls[k]) /\ HdrOf(in, r[k]) = HdrOf(in, ls[k])
  BY <1>2 DEF RunOf, HdrOf
<1>5. samerun(HdrOf(in, ls[i]), HdrOf(in, ls[m])) /\ ls[m].rep = 0 /\ ls[m].hdup = 0
  OBVIOUS
<1> HIDE DEF n
<1>6. ASSUME NEW k \in 1 .. n PROVE RefIs(r, in, k)
  <2>1. CASE k = i
    <3>5. IsFresh(ls[i])
      BY <1>1, <1>3
    <3>6. r[i].hdup = m /\ r[i].rep = 0 /\ ~r[i].keep
      BY <1>1, <1>2, <3>5 DEF IsFresh
    <3>7. r[m].rep = 0 /\ r[m].hdup = 0 /\ r[m].keep
      BY <1>1, <1>2, <1>5
    <3>1. /\ r[k].hdup = m /\ r[k].rep = 0 /\ ~r[k].keep
          /\ r[m].rep = 0 /\ r[m].hdup = 0 /\ r[m].keep
      BY <2>1, <3>6, <3>7
    <3>2. samerun(HdrOf(in, r[k]), HdrOf(in, r[m]))
      BY <1>1, <1>4, <1>5, <2>1
    <3>3. m \in 1 .. k - 1
      BY <1>1, <2>1
    <3>4. QED
      BY <3>1, <3>2, <3>3 DEF RefIs
  <2>2. CASE k # i
    <3>1. r[k].rep = ls[k].rep /\ r[k].hdup = ls[k].hdup
      BY <1>2, <2>2
    <3>2. \A j \in 1 .. k - 1 : j \in 1 .. n
      BY <1>1
    <3>3. ASSUME r[k].rep # 0
          PROVE  /\ r[k].rep \in 1 .. k - 1 /\ r[k].hdup = 0 /\ r[r[k].rep].rep = 0 /\ r[r[k].rep].rec
                 /\ samerun(RunOf(in, r[k]), RunOf(in, r[r[k].rep]))
      <4> DEFINE j == ls[k].rep
      <4>1. /\ j \in 1 .. k - 1 /\ ls[k].hdup = 0 /\ ls[j].rep = 0 /\ ls[j].rec
            /\ samerun(RunOf(in, ls[k]), RunOf(in, ls[j]))
        BY <1>3, <3>1, <3>3 DEF RefIs
      <4> HIDE DEF j
      <4>2. j \in 1 .. n
        BY <3>2, <4>1
      <4>3. r[j].rep = 0 /\ r[j].rec /\ samerun(RunOf(in, r[k]), RunOf(in, r[j]))
        BY <1>2, <1>4, <4>1, <4>2
      <4>4. QED
        BY <3>1, <4>1, <4>3 DEF j
    <3>4. ASSUME r[k].hdup # 0
          PROVE  /\ r[k].hdup \in 1 .. k - 1 /\ r[r[k].hdup].rep = 0 /\ r[r[k].hdup].hdup = 0
                 /\ r[r[k].hdup].keep /\ ~r[k].keep
                 /\ samerun(HdrOf(in, r[k]), HdrOf(in, r[r[k].hdup]))
      <4> DEFINE j == ls[k].hdup
      <4>1. /\ j \in 1 .. k - 1 /\ ls[j].rep = 0 /\ ls[j].hdup = 0 /\ ls[j].keep /\ ~ls[k].keep
            /\ samerun(HdrOf(in, ls[k]), HdrOf(in, ls[j]))
        BY <1>3, <3>1, <3>4 DEF RefIs
      <4> HIDE DEF j
      <4>2. j \in 1 .. n /\ j # i /\ k # m
        <5>1. k < i
          BY <1>1, <1>3, <2>2, <3>1, <3>4 DEF IsFresh
        <5>2. k # m
          BY <1>5, <3>1, <3>4
        <5>3. QED
          BY <1>1, <3>2, <4>1, <5>1, <5>2
      <4>3. r[j].rep = 0 /\ r[j].hdup = 0 /\ r[j].keep /\ ~r[k].keep
            /\ samerun(HdrOf(in, r[k]), HdrOf(in, r[j]))
        BY <1>2, <1>4, <4>1, <4>2
      <4>4. QED
        BY <3>1, <4>1, <4>3 DEF j
    <3>5. QED
      BY <3>3, <3>4 DEF RefIs
  <2>3. QED
    BY <2>1, <2>2
<1>7. ASSUME NEW k \in 1 .. n, k >= i + 1 PROVE IsFresh(r[k])
  <2>1. k # i /\ k # m /\ k >= i
    BY <1>1, <1>7
  <2>3. IsFresh(ls[k])
    BY <1>3, <2>1
  <2>4. /\ r[k].rep = ls[k].rep /\ r[k].hdup = ls[k].hdup /\ r[k].rec = ls[k].rec
        /\ r[k].keep = ls[k].keep /\ r[k].setup = ls[k].setup
    BY <1>2, <2>1
  <2>2. QED
    BY <2>3, <2>4 DEF IsFresh
<1>8. QED
  BY <1>2, <1>6, <1>7 DEF Refs, FreshFrom, n

-----------------------------------------------------------------------------
(* How a link is coded.                                                    *)
SkipsOf(in, l) == IF l.hdup # 0 THEN Len(HdrOf(in, l)) ELSE 0

Coded(C, run, s, b, c) == C[0] = b /\ C[Len(run)] = c /\ RunCoded(C, run, s)

ModelsFit(b, v) == b \in Coders /\ b.v.su = v.su

(* The models that a link starts with are models, with all the setups.     *)
LEMMA ModelsAre ==
  ASSUME NEW v \in Vs, NEW h \in Hs, NEW again \in BOOLEAN, NEW setup \in Nat, setup <= Len(v.su),
         NEW b, b = Coder(LinkModels([v |-> v, h |-> h], again, setup), TRUE)
  PROVE  ModelsFit(b, v)
<1> DEFINE u == IF again THEN vb_reset(v) ELSE v
           g == IF again THEN Models.h ELSE h
           x == vb_use(u, setup)
           y == ogg_hdr_reset(g)
<1>1. v.su \in Seq(Setups) /\ v.cur \in Nat /\ v.age \in Nat /\ v.cur <= Len(v.su)
  BY DEF Vs
<1>2. u \in Vs /\ u.su = v.su
  BY <1>1 DEF Vs, vb_reset
<1>3. g \in Hs
  BY DEF Hs, Models
<1> HIDE DEF u, g
<1>4. x \in Vs /\ x.su = v.su
  BY <1>2 DEF Vs, vb_use
<1>5. y \in Hs
  BY <1>3 DEF Hs, ogg_hdr_reset
<1>6. b = [v |-> x, h |-> y, w |-> 0, heads |-> <<>>, bulk |-> <<>>, ok |-> TRUE]
  BY DEF Coder, LinkModels, u, g
<1> HIDE DEF x, y
<1>7. << >> \in Seq(Heads) /\ << >> \in Seq(Symbols)
  OBVIOUS
<1> DEFINE o == [v |-> x, h |-> y, w |-> 0, heads |-> <<>>, bulk |-> <<>>, ok |-> TRUE]
<1>8. o \in Coders
  BY <1>4, <1>5, <1>7 DEF Coders
<1>9. o.v = x
  OBVIOUS
<1> HIDE DEF o
<1>10. b = o
  BY <1>6 DEF o
<1>11. QED
  BY <1>4, <1>8, <1>9, <1>10 DEF ModelsFit

(* The pages skipped are those behind the first.                           *)
LEMMA SkipsAre ==
  ASSUME NEW l, SpanIs(l, input), input \in Seq(Pages)
  PROVE  /\ SkipsOf(input, l) \in 0 .. l.z - l.a
         /\ \A k \in 0 .. l.z - l.a : Skipped(l, l.a + k) <=> k \in 1 .. SkipsOf(input, l)
<1> DEFINE a == l.a
           z == l.z
           h == Len(HdrOf(input, l))
           s == SkipsOf(input, l)
<1>1. a \in Nat /\ z \in Nat /\ a >= 1 /\ a <= z /\ z <= Len(input)
  BY DEF SpanIs
<1>2. h \in 0 .. z - a
  BY <1>1, LinkPages
<1>3. hdrrun(l) = HdrOf(input, l)
  BY DEF hdrrun, runof, HdrOf, RunOf
<1>4. s = IF l.hdup # 0 THEN h ELSE 0
  BY DEF SkipsOf
<1>5. \A k \in 0 .. z - a : Skipped(l, a + k) <=> l.hdup # 0 /\ a + k \in a + 1 .. a + h
  BY <1>3 DEF Skipped
<1> HIDE DEF a, z, h, s
<1>6. \A k \in 0 .. z - a : a + k \in a + 1 .. a + h <=> k \in 1 .. h
  BY <1>1, <1>2
<1>7. s \in 0 .. z - a
  BY <1>1, <1>2, <1>4
<1>8. \A k \in 0 .. z - a : Skipped(l, a + k) <=> k \in 1 .. s
  BY <1>1, <1>4, <1>5, <1>6
<1>9. QED
  BY <1>7, <1>8 DEF a, z, s

(* enc_link codes the run of a link, if it is all right in the end.        *)
LEMMA LinkEncodes ==
  ASSUME input \in Seq(Pages), NEW l, SpanIs(l, input), NEW v \in Vs, NEW h \in Hs,
         NEW again \in BOOLEAN, NEW setup \in Nat, setup <= Len(v.su),
         NEW c, c = enc_link([v |-> v, h |-> h], l, again, setup), c.ok
  PROVE  \E C : Coded(C, RunOf(input, l), SkipsOf(input, l),
                      Coder(LinkModels([v |-> v, h |-> h], again, setup), TRUE), c)
<1> DEFINE a == l.a
           z == l.z
           n == z - a + 1
           s == SkipsOf(input, l)
           run == RunOf(input, l)
           b == Coder(LinkModels([v |-> v, h |-> h], again, setup), TRUE)
           q == [i \in 1 .. l.z - l.a + 1 |-> l.a + i - 1]
<1>1. a \in Nat /\ z \in Nat /\ a >= 1 /\ a <= z /\ z <= Len(input)
  BY DEF SpanIs
<1>2. run \in Seq(Pages) /\ Len(run) = n /\ \A i \in 1 .. n : run[i] = input[a - 1 + i]
  BY <1>1, LinkPages DEF IsPart
<1>3. s \in 0 .. z - a /\ \A k \in 0 .. z - a : Skipped(l, a + k) <=> k \in 1 .. s
  BY SkipsAre
<1>4. b \in Coders
  BY ModelsAre DEF ModelsFit
<1>5. n \in Nat /\ DOMAIN q = 1 .. n
  BY <1>1
<1>6. PICK C : EncodesPages(C, b, q, n, l)
  <2> HIDE DEF n, b, q
  <2>1. QED
    BY <1>5, EncodesPagesIt
<1>7. C[0] = b /\ C[n] = c
  <2>1. c = FoldLeft(LAMBDA t, k : EncodedPage(t, input[k], Skipped(l, k)), b, q)
    BY DEF enc_link
  <2>2. QED
    BY <1>6, <2>1 DEF EncodesPages
<1>8. \A k \in 0 .. n - 1 : C[k + 1] = EncodedPage(C[k], input[q[k + 1]], Skipped(l, q[k + 1]))
  BY <1>6 DEF EncodesPages
<1>9. \A k \in 0 .. n - 1 : q[k + 1] = a + k /\ run[k + 1] = input[a + k] /\ k \in 0 .. z - a
  <2> SUFFICES ASSUME NEW k \in 0 .. n - 1
               PROVE  q[k + 1] = a + k /\ run[k + 1] = input[a + k] /\ k \in 0 .. z - a
    OBVIOUS
  <2>1. k + 1 \in 1 .. n /\ a - 1 + (k + 1) = a + k /\ a + (k + 1) - 1 = a + k /\ k \in 0 .. z - a
    BY <1>1
  <2>2. q[k + 1] = a + (k + 1) - 1
    BY <2>1
  <2>3. run[k + 1] = input[a - 1 + (k + 1)]
    <3> DEFINE i == k + 1
    <3>1. i \in 1 .. n
      BY <2>1
    <3> HIDE DEF i, run
    <3>2. run[i] = input[a - 1 + i]
      BY <1>2, <3>1
    <3>3. QED
      BY <3>2 DEF i
  <2>4. QED
    BY <2>1, <2>2, <2>3
<1> HIDE DEF q, b, n, s, run
<1>10. ASSUME NEW k \in 0 .. n - 1
       PROVE  IF k \in 1 .. s THEN C[k + 1] = EncodedPage(C[k], run[k + 1], TRUE)
              ELSE C[k + 1] = EncodedPage(C[k], run[k + 1], FALSE)
  <2> DEFINE x == Skipped(l, a + k)
             y == C[k]
             p == run[k + 1]
  <2>1. C[k + 1] = EncodedPage(y, p, x) /\ (x <=> k \in 1 .. s)
    BY <1>3, <1>8, <1>9
  <2> HIDE DEF x, y, p
  <2>2. x => EncodedPage(y, p, x) = EncodedPage(y, p, TRUE)
    BY DEF EncodedPage
  <2>3. ~x => EncodedPage(y, p, x) = EncodedPage(y, p, FALSE)
    BY DEF EncodedPage
  <2>4. QED
    BY <2>1, <2>2, <2>3 DEF y, p
<1>11. s \in Nat /\ s < n
  BY <1>1, <1>3 DEF n
<1>12. C[0] \in Coders /\ C[n].ok
  BY <1>4, <1>7
<1>13. RunCoded(C, run, s)
  BY <1>2, <1>10, <1>11, <1>12, RunIsCoded
<1>14. Coded(C, run, s, b, c)
  BY <1>2, <1>7, <1>13 DEF Coded
<1>15. QED
  BY <1>14 DEF run, s, b

(* As many pages are coded as are not skipped.                             *)
LEMMA PagesAre ==
  ASSUME input \in Seq(Pages), NEW l, SpanIs(l, input)
  PROVE  PagesOf(l) = Len(RunOf(input, l)) - SkipsOf(input, l)
<1> DEFINE a == l.a
           z == l.z
           s == SkipsOf(input, l)
           S == a .. z
           T == a + 1 .. a + s
           U == {k \in a .. z : ~Skipped(l, k)}
<1>1. a \in Nat /\ z \in Nat /\ a >= 1 /\ a <= z /\ z <= Len(input)
  BY DEF SpanIs
<1>2. Len(RunOf(input, l)) = z - a + 1
  BY <1>1, LinkPages DEF IsPart
<1>3. s \in 0 .. z - a /\ \A k \in 0 .. z - a : Skipped(l, a + k) <=> k \in 1 .. s
  BY SkipsAre
<1> HIDE DEF s
<1>4. U = S \ T
  <2>1. ASSUME NEW k \in S PROVE ~Skipped(l, k) <=> k \notin T
    <3> DEFINE j == k - a
    <3>1. j \in 0 .. z - a /\ a + j = k /\ (j \in 1 .. s <=> k \in T)
      BY <1>1, <1>3
    <3> HIDE DEF j, T, a, z
    <3>2. Skipped(l, a + j) <=> j \in 1 .. s
      BY <1>3, <3>1
    <3>3. QED
      BY <3>1, <3>2
  <2> HIDE DEF T
  <2>2. QED
    BY <2>1
<1>5. IsFiniteSet(S) /\ Cardinality(S) = z - a + 1
  <2> HIDE DEF a, z, T, U
  <2>1. a \in Int /\ z \in Int /\ ~(a > z)
    BY <1>1
  <2>2. IsFiniteSet(a .. z) /\ Cardinality(a .. z) = IF a > z THEN 0 ELSE z - a + 1
    BY <2>1, FS_Interval
  <2>3. QED
    BY <2>1, <2>2
<1>6. IsFiniteSet(T) /\ Cardinality(T) = s
  <2> DEFINE x == a + 1
             y == a + s
  <2>1. x \in Int /\ y \in Int /\ (IF x > y THEN 0 ELSE y - x + 1) = s
    BY <1>1, <1>3
  <2> HIDE DEF x, y
  <2>2. IsFiniteSet(x .. y) /\ Cardinality(x .. y) = IF x > y THEN 0 ELSE y - x + 1
    BY <2>1, FS_Interval
  <2>3. QED
    BY <2>1, <2>2 DEF x, y
<1>7. S \cap T = T
  BY <1>1, <1>3
<1> HIDE DEF S, T, U
<1>8. Cardinality(S \ T) = Cardinality(S) - Cardinality(S \cap T)
  BY <1>5, FS_Difference
<1>9. Cardinality(U) = (z - a + 1) - s
  BY <1>4, <1>5, <1>6, <1>7, <1>8
<1>10. QED
  BY <1>2, <1>9 DEF PagesOf, U, s

-----------------------------------------------------------------------------
(* The states of the encoder before each link, and what each step made.    *)
IsSeq(q) == \E S : q \in Seq(S)

(* A sequence of anything, with something more.                            *)
LEMMA AppendedAny ==
  ASSUME NEW q, IsSeq(q), NEW c
  PROVE  IsSeq(Append(q, c)) /\ IsLonger(Append(q, c), q, c)
<1>1. PICK S : q \in Seq(S)
  BY DEF IsSeq
<1> DEFINE T == S \cup {c}
<1>2. q \in Seq(T) /\ c \in T
  <2>1. S \subseteq T /\ c \in T
    OBVIOUS
  <2> HIDE DEF T
  <2>2. QED
    BY <1>1, <2>1, SeqMonotonic
<1> HIDE DEF T
<1>3. Append(q, c) \in Seq(T) /\ IsLonger(Append(q, c), q, c)
  BY <1>2, Appended
<1>4. QED
  BY <1>3 DEF IsSeq

Ws == [v : Vs, h : Hs, recl : Seq(Nat), keepl : Seq(Nat), si : Nat]

SetupOf(ls, l) == IF l.hdup # 0 THEN ls[l.hdup].setup ELSE 0

Before(w, v, h, recl, keepl, si) == w = [v |-> v, h |-> h, recl |-> recl, keepl |-> keepl, si |-> si]

ReplayStep(w, x, l, e) ==
  /\ \E p \in 1 .. Len(w.recl) :
       /\ w.recl[p] = l.rep
       /\ e = [rep |-> TRUE, back |-> Len(w.recl) - p, serial |-> PutSerial(w.h, l.serial)]
  /\ Before(x, w.v, SerialSeen(w.h, l.serial), w.recl, w.keepl, w.si)

Listed(list, mark, j) == IF mark THEN Append(list, j) ELSE list

CodedTo(C, w, x, j, l, setup, run, k, e, s, solid) ==
  LET c == C[Len(run)]
  IN  /\ C[0] = Coder(LinkModels([v |-> w.v, h |-> w.h], ~solid /\ j > 1, setup), TRUE)
      /\ RunCoded(C, run, k)
      /\ s = [heads |-> c.heads, bulk |-> c.bulk]
      /\ l.setup = IF Len(c.v.su) > Len(w.v.su) THEN Len(c.v.su) ELSE setup
      /\ \E p \in Nat :
           /\ l.hdup # 0 => p \in 1 .. Len(w.keepl) /\ w.keepl[p] = l.hdup
           /\ e = [rep |-> FALSE, rec |-> l.rec, dup |-> l.hdup # 0,
                   back |-> IF l.hdup # 0 THEN Len(w.keepl) - p ELSE 0, keep |-> l.keep,
                   pages |-> Len(run) - k]
      /\ Before(x, c.v, c.h, Listed(w.recl, l.rec, j), Listed(w.keepl, l.keep, j), w.si + 1)

LinkStep(w, x, j, l, setup, in, e, s, solid) ==
  \E C : CodedTo(C, w, x, j, l, setup, RunOf(in, l), SkipsOf(in, l), e, s, solid)

EncStep(w, x, j, in, ls, ct, st, solid) ==
  IF ls[j].rep # 0 THEN ReplayStep(w, x, ls[j], ct[j])
  ELSE LinkStep(w, x, j, ls[j], SetupOf(ls, ls[j]), in, ct[j], st[w.si], solid)

(* A list grows by later links only.                                       *)
Grown(a, b, j) ==
  Starts(a, b) /\ (\A i \in 1 .. Len(a) : a[i] < j) /\ \A i \in Len(a) + 1 .. Len(b) : b[i] >= j

(* A list that is added to has still only grown by later links.            *)
LEMMA GrownMore ==
  ASSUME NEW a \in Seq(Nat), NEW b \in Seq(Nat), NEW n \in Nat, NEW j \in Nat, j <= n, Grown(a, b, j),
         NEW mark \in BOOLEAN
  PROVE  Grown(a, Listed(b, mark, n), j)
<1> DEFINE c == Listed(b, mark, n)
           x == Len(a)
           y == Len(b)
<1>1. /\ x \in Nat /\ y \in Nat /\ x <= y /\ \A i \in 1 .. x : b[i] = a[i]
      /\ \A i \in 1 .. x : a[i] < j
      /\ \A i \in x + 1 .. y : b[i] >= j
  BY DEF Grown, Starts
<1>2. CASE ~mark
  BY <1>2 DEF Listed
<1>3. CASE mark
  <2>1. c = Append(b, n)
    BY <1>3 DEF Listed
  <2>2. IsLonger(c, b, n)
    BY <2>1, Appended
  <2> HIDE DEF c
  <2>3. Len(c) = y + 1 /\ c[y + 1] = n /\ \A i \in 1 .. y : c[i] = b[i]
    BY <2>2 DEF IsLonger
  <2> HIDE DEF x, y
  <2>4. Len(c) \in Nat /\ x <= Len(c) /\ \A i \in 1 .. x : c[i] = a[i]
    BY <1>1, <2>3
  <2>5. \A i \in x + 1 .. Len(c) : c[i] >= j
    <3> SUFFICES ASSUME NEW i \in x + 1 .. Len(c) PROVE c[i] >= j
      OBVIOUS
    <3>1. CASE i = y + 1
      BY <2>3, <3>1
    <3>2. CASE i # y + 1
      <4>1. i \in x + 1 .. y /\ i \in 1 .. y
        BY <1>1, <2>3, <3>2
      <4>2. QED
        BY <1>1, <2>3, <4>1
    <3>3. QED
      BY <3>1, <3>2
  <2>6. QED
    BY <1>1, <2>4, <2>5 DEF Grown, Starts, x, c
<1>4. QED
  BY <1>2, <1>3

(* It has so far only earlier ones.                                        *)
LEMMA GrownSelf ==
  ASSUME NEW b \in Seq(Nat), NEW n \in Nat, Grown(b, b, n), NEW mark \in BOOLEAN
  PROVE  /\ Listed(b, mark, n) \in Seq(Nat)
         /\ Grown(Listed(b, mark, n), Listed(b, mark, n), n + 1)
<1> DEFINE c == Listed(b, mark, n)
           y == Len(b)
<1>1. y \in Nat /\ \A i \in 1 .. y : b[i] < n /\ b[i] \in Nat
  <2>1. y \in Nat /\ \A i \in 1 .. y : b[i] \in Nat
    BY LenProperties, ElementOfSeq
  <2>2. QED
    BY <2>1 DEF Grown
<1>2. c \in Seq(Nat) /\ Len(c) \in Nat /\ \A i \in 1 .. Len(c) : c[i] < n + 1
  <2>1. CASE ~mark
    <3>1. c = b
      BY <2>1 DEF Listed
    <3> HIDE DEF c
    <3>2. QED
      BY <1>1, <3>1
  <2>2. CASE mark
    <3>1. c = Append(b, n)
      BY <2>2 DEF Listed
    <3>2. c \in Seq(Nat) /\ IsLonger(c, b, n)
      BY <3>1, Appended
    <3> HIDE DEF c
    <3>3. Len(c) = y + 1 /\ c[y + 1] = n /\ \A i \in 1 .. y : c[i] = b[i]
      BY <3>2 DEF IsLonger
    <3> HIDE DEF y
    <3>4. \A i \in 1 .. Len(c) : i = y + 1 \/ i \in 1 .. y
      BY <1>1, <3>3
    <3>5. ASSUME NEW i \in 1 .. Len(c) PROVE c[i] < n + 1
      <4>1. CASE i = y + 1
        BY <3>3, <4>1
      <4>2. CASE i \in 1 .. y
        <5>1. c[i] = b[i] /\ b[i] < n /\ b[i] \in Nat
          BY <1>1, <3>3, <4>2
        <5>2. QED
          BY <5>1
      <4>3. QED
        BY <3>4, <4>1, <4>2
    <3>6. QED
      BY <1>1, <3>2, <3>3, <3>5
  <2>3. QED
    BY <2>1, <2>2
<1> HIDE DEF c
<1>3. Grown(c, c, n + 1)
  <2>1. \A i \in Len(c) + 1 .. Len(c) : FALSE
    BY <1>2
  <2>2. QED
    BY <1>2, <2>1 DEF Grown, Starts
<1>4. QED
  BY <1>2, <1>3 DEF c

(* Every link that is marked is on its list.                               *)
OnList(list, i) == \E p \in 1 .. Len(list) : list[p] = i

Lists(w, ls, n) ==
  \A i \in 1 .. n - 1 : ls[i].rep = 0 => /\ ls[i].rec => OnList(w.recl, i)
                                         /\ ls[i].keep => OnList(w.keepl, i)

(* What is on a list stays there.                                          *)
LEMMA OnListStill ==
  ASSUME NEW b \in Seq(Nat), NEW n \in Nat, NEW mark \in BOOLEAN
  PROVE  /\ \A i : OnList(b, i) => OnList(Listed(b, mark, n), i)
         /\ mark => OnList(Listed(b, mark, n), n)
<1> DEFINE c == Append(b, n)
<1>1. CASE ~mark
  BY <1>1 DEF Listed
<1>2. CASE mark
  <2>1. Listed(b, mark, n) = c
    BY <1>2 DEF Listed
  <2>2. IsLonger(c, b, n)
    BY Appended
  <2> HIDE DEF c
  <2>3. /\ Len(b) \in Nat /\ Len(c) = Len(b) + 1 /\ c[Len(b) + 1] = n
        /\ \A i \in 1 .. Len(b) : c[i] = b[i]
    BY <2>2 DEF IsLonger
  <2>4. OnList(c, n)
    <3>1. Len(b) + 1 \in 1 .. Len(c)
      BY <2>3
    <3>2. QED
      BY <2>3, <3>1 DEF OnList
  <2>5. ASSUME NEW i, OnList(b, i) PROVE OnList(c, i)
    <3>1. PICK p \in 1 .. Len(b) : b[p] = i
      BY <2>5 DEF OnList
    <3>2. p \in 1 .. Len(c) /\ c[p] = i
      BY <2>3, <3>1
    <3>3. QED
      BY <3>2 DEF OnList
  <2>6. QED
    BY <2>1, <2>4, <2>5
<1>3. QED
  BY <1>1, <1>2

Reached(w, f, j) ==
  /\ w \in Ws /\ Grown(w.recl, f.recl, j) /\ Grown(w.keepl, f.keepl, j)
  /\ w.si >= 1 /\ w.si <= f.si /\ (j > 1 => w.si > 1)

Stepped(W, f, j, in, ls, ct, st, solid) ==
  EncStep(W[j], W[j + 1], j, in, ls, ct, st, solid) /\ (ls[j].rep = 0 => W[j].si < f.si)

SetupsIn(w, ls, n) ==
  \A i \in 1 .. Len(ls) : ls[i].setup <= Len(w.v.su) /\ (i >= n => ls[i].setup = 0)

History(W, n, in, ls, ct, st, solid) ==
  /\ n \in 1 .. Len(ls) + 1
  /\ Before(W[1], Models.v, Models.h, <<>>, <<>>, 1)
  /\ \A j \in 1 .. n : Reached(W[j], W[n], j)
  /\ \A j \in 1 .. n - 1 : Stepped(W, W[n], j, in, ls, ct, st, solid)
  /\ IsSeq(ct) /\ Len(ct) = n - 1 /\ IsSeq(st) /\ Len(st) = W[n].si - 1
  /\ Lists(W[n], ls, n) /\ SetupsIn(W[n], ls, n)

(* The coder does what it does to link n, in state w, and is in state x.   *)
Advances(w, x, n, in, ls, r, ct, c2, st, s2, solid) ==
  /\ x \in Ws /\ EncStep(w, x, n, in, r, c2, s2, solid)
  /\ x.recl = Listed(w.recl, r[n].rep = 0 /\ r[n].rec, n)
  /\ x.keepl = Listed(w.keepl, r[n].rep = 0 /\ r[n].keep, n)
  /\ x.si = (IF r[n].rep = 0 THEN w.si + 1 ELSE w.si)
  /\ Len(w.v.su) <= Len(x.v.su)
  /\ IsSeq(c2) /\ Len(c2) = n /\ (\A j \in 1 .. n - 1 : c2[j] = ct[j])
  /\ IsSeq(s2) /\ Len(s2) = x.si - 1 /\ (\A j \in 1 .. Len(st) : s2[j] = st[j])
  /\ Len(r) = Len(ls) /\ \A k \in 1 .. Len(ls) : k # n => r[k] = ls[k]
  /\ r[n].rep = ls[n].rep /\ r[n].hdup = ls[n].hdup
  /\ r[n].setup <= Len(x.v.su)

Goes(x, n, in, ls, ct, st, solid) == \E X : X[n + 1] = x /\ History(X, n + 1, in, ls, ct, st, solid)

(* A history goes on by a step of the coder.                               *)
LEMMA HistoryGrows ==
  ASSUME NEW W, NEW n, NEW in, NEW ls \in Seq(LinkType), NEW ct, NEW st, NEW solid,
         History(W, n, in, ls, ct, st, solid), Refs(ls, in), n <= Len(ls),
         n = 1 => ls[1].rep = 0,
         NEW x, NEW r, NEW c2, NEW s2,
         Advances(W[n], x, n, in, ls, r, ct, c2, st, s2, solid)
  PROVE  Goes(x, n, in, r, c2, s2, solid)
<1> DEFINE N == Len(ls)
           w == W[n]
           X == [j \in 1 .. n + 1 |-> IF j = n + 1 THEN x ELSE W[j]]
<1>1. N \in Nat /\ n \in 1 .. N /\ n \in Nat /\ n + 1 \in 1 .. N + 1
  <2>1. N \in Nat
    BY LenProperties
  <2>2. n \in 1 .. N + 1 /\ n <= N
    BY DEF History
  <2> HIDE DEF N
  <2>3. QED
    BY <2>1, <2>2
<1>2. X[n + 1] = x /\ \A j \in 1 .. n : X[j] = W[j]
  BY <1>1
<1>3. /\ \A j \in 1 .. n : Reached(W[j], w, j)
      /\ \A j \in 1 .. n - 1 : Stepped(W, w, j, in, ls, ct, st, solid)
      /\ Len(ct) = n - 1 /\ Len(st) = w.si - 1
      /\ Lists(w, ls, n) /\ SetupsIn(w, ls, n)
      /\ Before(W[1], Models.v, Models.h, <<>>, <<>>, 1)
  BY DEF History
<1>4. /\ x \in Ws /\ EncStep(w, x, n, in, r, c2, s2, solid)
      /\ x.recl = Listed(w.recl, r[n].rep = 0 /\ r[n].rec, n)
      /\ x.keepl = Listed(w.keepl, r[n].rep = 0 /\ r[n].keep, n)
      /\ x.si = (IF r[n].rep = 0 THEN w.si + 1 ELSE w.si)
      /\ Len(w.v.su) <= Len(x.v.su)
      /\ IsSeq(c2) /\ Len(c2) = n /\ (\A j \in 1 .. n - 1 : c2[j] = ct[j])
      /\ IsSeq(s2) /\ Len(s2) = x.si - 1 /\ (\A j \in 1 .. Len(st) : s2[j] = st[j])
      /\ Len(r) = N /\ \A k \in 1 .. N : k # n => r[k] = ls[k]
      /\ r[n].rep = ls[n].rep /\ r[n].hdup = ls[n].hdup
      /\ r[n].setup <= Len(x.v.su)
  BY DEF Advances
<1>5. Reached(w, w, n) /\ w \in Ws
  BY <1>1, <1>3 DEF Reached
<1>6. w.recl \in Seq(Nat) /\ w.keepl \in Seq(Nat) /\ w.si \in Nat /\ x.si \in Nat /\ w.v \in Vs /\ x.v \in Vs
      /\ w.si <= x.si
  BY <1>4, <1>5 DEF Ws
<1> HIDE DEF X, N, w
<1>7. \A j \in 1 .. n : Reached(W[j], x, j)
  <2> SUFFICES ASSUME NEW j \in 1 .. n PROVE Reached(W[j], x, j)
    OBVIOUS
  <2> DEFINE b == W[j]
             y == r[n].rep = 0 /\ r[n].rec
             z == r[n].rep = 0 /\ r[n].keep
  <2>1. Reached(b, w, j) /\ j <= n /\ j \in Nat
    BY <1>1, <1>3
  <2> HIDE DEF b
  <2>2. /\ b \in Ws /\ Grown(b.recl, w.recl, j) /\ Grown(b.keepl, w.keepl, j)
        /\ b.si >= 1 /\ b.si <= w.si /\ (j > 1 => b.si > 1)
    BY <2>1 DEF Reached
  <2>3. b.recl \in Seq(Nat) /\ b.keepl \in Seq(Nat) /\ b.si \in Nat
    BY <2>2 DEF Ws
  <2>4. y \in BOOLEAN /\ z \in BOOLEAN
    OBVIOUS
  <2>5. x.recl = Listed(w.recl, y, n) /\ x.keepl = Listed(w.keepl, z, n)
    BY <1>4
  <2> HIDE DEF y, z
  <2>6. Grown(b.recl, x.recl, j)
    BY <1>1, <1>6, <2>1, <2>2, <2>3, <2>4, <2>5, GrownMore
  <2>7. Grown(b.keepl, x.keepl, j)
    BY <1>1, <1>6, <2>1, <2>2, <2>3, <2>4, <2>5, GrownMore
  <2>8. b.si <= x.si
    BY <1>6, <2>2, <2>3
  <2>9. Reached(b, x, j)
    BY <2>2, <2>6, <2>7, <2>8 DEF Reached
  <2>10. QED
    BY <2>9 DEF b
<1>8. Reached(x, x, n + 1)
  <2> DEFINE y == r[n].rep = 0 /\ r[n].rec
             z == r[n].rep = 0 /\ r[n].keep
  <2>1. Grown(w.recl, w.recl, n) /\ Grown(w.keepl, w.keepl, n) /\ w.si >= 1 /\ (n > 1 => w.si > 1)
    BY <1>5 DEF Reached
  <2>2. y \in BOOLEAN /\ z \in BOOLEAN
    OBVIOUS
  <2>3. x.recl = Listed(w.recl, y, n) /\ x.keepl = Listed(w.keepl, z, n)
    BY <1>4
  <2> HIDE DEF y, z
  <2>4. Grown(x.recl, x.recl, n + 1)
    BY <1>1, <1>6, <2>1, <2>2, <2>3, GrownSelf
  <2>5. Grown(x.keepl, x.keepl, n + 1)
    BY <1>1, <1>6, <2>1, <2>2, <2>3, GrownSelf
  <2>6. x.si > 1
    <3>1. CASE n = 1
      <4>1. r[n].rep = 0
        BY <1>4, <3>1
      <4>2. QED
        BY <1>4, <1>6, <2>1, <4>1
    <3>2. CASE n # 1
      BY <1>1, <1>6, <2>1, <3>2
    <3>3. QED
      BY <3>1, <3>2
  <2>7. QED
    BY <1>4, <1>6, <2>4, <2>5, <2>6 DEF Reached
<1>9. \A j \in 1 .. n - 1 : Stepped(W, x, j, in, r, c2, s2, solid)
  <2> SUFFICES ASSUME NEW j \in 1 .. n - 1 PROVE Stepped(W, x, j, in, r, c2, s2, solid)
    OBVIOUS
  <2>1. j \in 1 .. N /\ j # n /\ j \in 1 .. n /\ j + 1 \in 1 .. n
    BY <1>1
  <2>2. r[j] = ls[j] /\ c2[j] = ct[j] /\ RefIs(ls, in, j)
    BY <1>4, <2>1 DEF Refs, N
  <2>3. Stepped(W, w, j, in, ls, ct, st, solid) /\ Reached(W[j], w, j)
    BY <1>3, <2>1
  <2>4. SetupOf(r, r[j]) = SetupOf(ls, ls[j])
    <3>1. CASE ls[j].hdup = 0
      BY <2>2, <3>1 DEF SetupOf
    <3>2. CASE ls[j].hdup # 0
      <4>1. ls[j].hdup \in 1 .. j - 1
        BY <2>2, <3>2 DEF RefIs
      <4>2. ls[j].hdup \in 1 .. N /\ ls[j].hdup # n
        BY <1>1, <2>1, <4>1
      <4>3. r[ls[j].hdup] = ls[ls[j].hdup]
        BY <1>4, <4>2
      <4>4. QED
        BY <2>2, <4>3 DEF SetupOf
    <3>3. QED
      BY <3>1, <3>2
  <2>5. CASE ls[j].rep # 0
    <3>1. ReplayStep(W[j], W[j + 1], ls[j], ct[j])
      BY <2>3, <2>5 DEF Stepped, EncStep
    <3>2. EncStep(W[j], W[j + 1], j, in, r, c2, s2, solid)
      BY <2>2, <2>5, <3>1 DEF EncStep
    <3>3. QED
      BY <2>2, <2>5, <3>2 DEF Stepped
  <2>6. CASE ls[j].rep = 0
    <3> DEFINE i == W[j].si
    <3>1. /\ LinkStep(W[j], W[j + 1], j, ls[j], SetupOf(ls, ls[j]), in, ct[j], st[i], solid)
          /\ i < w.si
      BY <2>3, <2>6 DEF Stepped, EncStep
    <3>2. i \in Nat /\ i >= 1
      BY <2>3 DEF Reached, Ws
    <3> HIDE DEF i
    <3>3. i \in 1 .. Len(st)
      BY <1>3, <1>6, <3>1, <3>2
    <3>4. s2[i] = st[i]
      BY <1>4, <3>3
    <3>5. EncStep(W[j], W[j + 1], j, in, r, c2, s2, solid)
      BY <2>2, <2>4, <2>6, <3>1, <3>4 DEF EncStep, i
    <3>6. i < x.si
      BY <1>6, <3>1, <3>2
    <3>7. QED
      BY <2>2, <3>5, <3>6 DEF Stepped, i
  <2>7. QED
    BY <2>5, <2>6
<1>10. \A j \in 1 .. (n + 1) - 1 : Stepped(X, x, j, in, r, c2, s2, solid)
  <2> SUFFICES ASSUME NEW j \in 1 .. (n + 1) - 1 PROVE Stepped(X, x, j, in, r, c2, s2, solid)
    OBVIOUS
  <2>1. CASE j = n
    <3>1. X[j] = w /\ X[j + 1] = x
      BY <1>1, <1>2, <2>1 DEF w
    <3>2. r[j].rep = 0 => w.si < x.si
      BY <1>4, <1>6, <2>1
    <3>3. QED
      BY <1>4, <2>1, <3>1, <3>2 DEF Stepped
  <2>2. CASE j # n
    <3>1. j \in 1 .. n - 1 /\ j \in 1 .. n /\ j + 1 \in 1 .. n
      BY <1>1, <2>2
    <3>2. X[j] = W[j] /\ X[j + 1] = W[j + 1] /\ Stepped(W, x, j, in, r, c2, s2, solid)
      BY <1>2, <1>9, <3>1
    <3>3. QED
      BY <3>2 DEF Stepped
  <2>3. QED
    BY <2>1, <2>2
<1>11. \A j \in 1 .. n + 1 : Reached(X[j], X[n + 1], j)
  <2> SUFFICES ASSUME NEW j \in 1 .. n + 1 PROVE Reached(X[j], X[n + 1], j)
    OBVIOUS
  <2>1. CASE j = n + 1
    BY <1>2, <1>8, <2>1
  <2>2. CASE j # n + 1
    <3>1. j \in 1 .. n
      BY <1>1, <2>2
    <3>2. QED
      BY <1>2, <1>7, <3>1
  <2>3. QED
    BY <2>1, <2>2
<1>12. Lists(x, r, n + 1)
  <2> DEFINE y == r[n].rep = 0 /\ r[n].rec
             z == r[n].rep = 0 /\ r[n].keep
  <2>1. x.recl = Listed(w.recl, y, n) /\ x.keepl = Listed(w.keepl, z, n)
    BY <1>4
  <2>2. y \in BOOLEAN /\ z \in BOOLEAN
    OBVIOUS
  <2>3. (r[n].rep = 0 /\ r[n].rec => y) /\ (r[n].rep = 0 /\ r[n].keep => z)
    OBVIOUS
  <2> HIDE DEF y, z
  <2>4. /\ \A i : OnList(w.recl, i) => OnList(x.recl, i)
        /\ y => OnList(x.recl, n)
    BY <1>1, <1>6, <2>1, <2>2, OnListStill
  <2>5. /\ \A i : OnList(w.keepl, i) => OnList(x.keepl, i)
        /\ z => OnList(x.keepl, n)
    BY <1>1, <1>6, <2>1, <2>2, OnListStill
  <2>6. ASSUME NEW i \in 1 .. (n + 1) - 1, r[i].rep = 0
        PROVE  (r[i].rec => OnList(x.recl, i)) /\ (r[i].keep => OnList(x.keepl, i))
    <3>1. CASE i = n
      BY <2>3, <2>4, <2>5, <2>6, <3>1
    <3>2. CASE i # n
      <4>1. i \in 1 .. n - 1 /\ i \in 1 .. N
        BY <1>1, <3>2
      <4>2. r[i] = ls[i]
        BY <1>4, <3>2, <4>1
      <4>3. (ls[i].rec => OnList(w.recl, i)) /\ (ls[i].keep => OnList(w.keepl, i))
        BY <1>3, <2>6, <4>1, <4>2 DEF Lists
      <4>4. QED
        BY <2>4, <2>5, <4>2, <4>3
    <3>3. QED
      BY <3>1, <3>2
  <2>7. QED
    BY <2>6 DEF Lists
<1>13. SetupsIn(x, r, n + 1)
  <2> SUFFICES ASSUME NEW i \in 1 .. Len(r)
               PROVE  r[i].setup <= Len(x.v.su) /\ (i >= n + 1 => r[i].setup = 0)
    BY DEF SetupsIn
  <2>1. i \in 1 .. N
    BY <1>4
  <2>2. CASE i = n
    BY <1>1, <1>4, <2>2
  <2>3. CASE i # n
    <3> DEFINE e == ls[i].setup
    <3>1. r[i].setup = e
      BY <1>4, <2>1, <2>3
    <3>2. e \in Nat
      <4>1. ls[i] \in LinkType
        BY <2>1, ElementOfSeq DEF N
      <4>2. QED
        BY <4>1 DEF LinkType
    <3>3. e <= Len(w.v.su) /\ (i >= n => e = 0)
      BY <1>3, <2>1 DEF SetupsIn, N
    <3>4. Len(w.v.su) \in Nat /\ Len(x.v.su) \in Nat
      <4>1. w.v.su \in Seq(Setups) /\ x.v.su \in Seq(Setups)
        BY <1>6 DEF Vs
      <4>2. QED
        BY <4>1, LenProperties
    <3> HIDE DEF e
    <3>5. QED
      BY <1>1, <1>4, <2>1, <3>1, <3>2, <3>3, <3>4
  <2>4. QED
    BY <2>2, <2>3
<1>14. Before(X[1], Models.v, Models.h, <<>>, <<>>, 1)
  <2>1. 1 \in 1 .. n
    BY <1>1
  <2>2. QED
    BY <1>2, <1>3, <2>1
<1>15. History(X, n + 1, in, r, c2, s2, solid)
  <2>1. (n + 1) - 1 = n /\ n + 1 \in 1 .. Len(r) + 1
    BY <1>1, <1>4
  <2>2. /\ \A j \in 1 .. (n + 1) - 1 : Stepped(X, X[n + 1], j, in, r, c2, s2, solid)
        /\ Lists(X[n + 1], r, n + 1) /\ SetupsIn(X[n + 1], r, n + 1)
    BY <1>2, <1>10, <1>12, <1>13
  <2>3. IsSeq(c2) /\ Len(c2) = (n + 1) - 1 /\ IsSeq(s2) /\ Len(s2) = X[n + 1].si - 1
    BY <1>2, <1>4, <2>1
  <2>4. QED
    BY <1>11, <1>14, <2>1, <2>2, <2>3 DEF History
<1>16. QED
  BY <1>2, <1>15 DEF Goes

-----------------------------------------------------------------------------
(* What the decoder has written before link n: the pages of the file, but  *)
(* that some have the serial number of their link's first page.            *)
Restamped(o, p, s) == o = p \/ o = [p EXCEPT !.serial = s]

WrittenIs(out, in, ls, n) ==
  /\ out \in Seq(Pages) /\ Len(out) = IF n <= Len(ls) THEN ls[n].a - 1 ELSE Len(in)
  /\ \A k \in 1 .. Len(out) :
       \E i \in 1 .. n - 1 : k \in ls[i].a .. ls[i].z /\ Restamped(out[k], in[k], ls[i].serial)

(* Earlier links lie before later ones.                                    *)
LEMMA SpansRise ==
  ASSUME NEW in, NEW ls, Layout(ls, in), NEW n \in 1 .. Len(ls), NEW m \in 1 .. n - 1
  PROVE  ls[m].z < ls[n].a
<1> DEFINE N == Len(ls)
<1>1. /\ N \in Nat /\ \A i \in 1 .. N : SpanIs(ls[i], in)
      /\ \A i \in 1 .. N - 1 : ls[i + 1].a = ls[i].z + 1
  BY DEF Layout
<1>2. \A i \in 1 .. N : ls[i].a \in Nat /\ ls[i].z \in Nat /\ ls[i].a <= ls[i].z
  BY <1>1 DEF SpanIs
<1>3. n \in 1 .. N /\ m \in 1 .. N /\ m < n
  BY <1>1
<1> HIDE DEF N
<1> DEFINE G == {k \in Nat : m + 1 + k <= n => ls[m].z < ls[m + 1 + k].a}
<1>4. 0 \in G
  <2>1. m \in 1 .. N - 1 /\ m + 1 + 0 = m + 1
    BY <1>1, <1>3
  <2>2. ls[m + 1].a = ls[m].z + 1 /\ ls[m].z \in Nat
    BY <1>1, <1>2, <1>3, <2>1
  <2>3. ls[m].z < ls[m + 1].a
    BY <2>2
  <2>4. QED
    BY <2>1, <2>3
<1>5. ASSUME NEW k \in Nat, k \in G PROVE k + 1 \in G
  <2> SUFFICES ASSUME m + 1 + (k + 1) <= n PROVE ls[m].z < ls[m + 1 + (k + 1)].a
    OBVIOUS
  <2> DEFINE i == m + 1 + k
  <2>1. i \in 1 .. N - 1 /\ i <= n /\ i + 1 = m + 1 + (k + 1) /\ i \in 1 .. N /\ i + 1 \in 1 .. N
    BY <1>1, <1>3
  <2>2. ls[m].z < ls[i].a
    BY <1>5, <2>1
  <2> HIDE DEF i
  <2>3. ls[i + 1].a = ls[i].z + 1
    BY <1>1, <2>1
  <2>4. ls[m].z < ls[i + 1].a
    BY <1>2, <1>3, <2>1, <2>2, <2>3
  <2>5. QED
    BY <2>1, <2>4
<1> HIDE DEF G
<1>6. n - (m + 1) \in G
  <2>1. \A k \in Nat : k \in G
    BY <1>4, <1>5, Inducts
  <2>2. n - (m + 1) \in Nat
    BY <1>1, <1>3
  <2>3. QED
    BY <2>1, <2>2
<1>7. m + 1 + (n - (m + 1)) = n
  BY <1>1, <1>3
<1>8. QED
  BY <1>1, <1>3, <1>6, <1>7 DEF G

(* The place of a page in its link.                                        *)
LEMMA InSpan ==
  ASSUME NEW a \in Nat, NEW z \in Nat, NEW k \in Nat, a >= 1, a <= z, k <= z, k > a - 1
  PROVE  k - (a - 1) \in 1 .. z - a + 1 /\ a - 1 + (k - (a - 1)) = k /\ k \in a .. z
OBVIOUS

(* Output that grows by the pages of the next link.                        *)
LEMMA WritesMore ==
  ASSUME NEW in, NEW ls, Layout(ls, in), NEW n \in 1 .. Len(ls), NEW out, WrittenIs(out, in, ls, n),
         NEW x \in Seq(Pages), Len(x) = ls[n].z - ls[n].a + 1,
         \A i \in 1 .. Len(x) : Restamped(x[i], in[ls[n].a - 1 + i], ls[n].serial)
  PROVE  WrittenIs(out \o x, in, ls, n + 1)
<1> DEFINE N == Len(ls)
           l == ls[n]
           u == out \o x
<1>1. /\ N \in Nat /\ SpanIs(l, in) /\ ls[N].z = Len(in) /\ Len(in) \in Nat
      /\ \A i \in 1 .. N - 1 : ls[i + 1].a = ls[i].z + 1
  BY DEF Layout
<1>2. l.a \in Nat /\ l.z \in Nat /\ l.a <= l.z /\ l.a >= 1
  BY <1>1 DEF SpanIs
<1>3. n \in 1 .. N /\ n \in Nat
  BY <1>1
<1>4. out \in Seq(Pages) /\ Len(out) = l.a - 1
  BY <1>3 DEF WrittenIs
<1>5. /\ u \in Seq(Pages) /\ Len(u) = Len(out) + Len(x)
      /\ \A i \in 1 .. Len(out) + Len(x) : u[i] = IF i <= Len(out) THEN out[i] ELSE x[i - Len(out)]
  <2>1. /\ out \o x \in Seq(Pages) /\ Len(out \o x) = Len(out) + Len(x)
        /\ \A i \in 1 .. Len(out) + Len(x) :
             (out \o x)[i] = IF i <= Len(out) THEN out[i] ELSE x[i - Len(out)]
    <3> HIDE DEF u
    <3>1. QED
      BY <1>4, ConcatProperties
  <2>2. QED
    BY <2>1
<1> HIDE DEF u
<1>6. Len(u) = l.z
  <2>1. Len(x) = l.z - l.a + 1 /\ Len(u) = l.a - 1 + Len(x)
    BY <1>4, <1>5
  <2>2. QED
    BY <1>2, <2>1
<1>7. Len(u) = IF n + 1 <= N THEN ls[n + 1].a - 1 ELSE Len(in)
  <2>1. CASE n + 1 <= N
    <3>1. n \in 1 .. N - 1
      BY <1>1, <1>3, <2>1
    <3>2. ls[n + 1].a = l.z + 1
      BY <1>1, <3>1
    <3>3. QED
      BY <1>2, <1>6, <2>1, <3>2
  <2>2. CASE ~(n + 1 <= N)
    <3>1. n = N
      BY <1>1, <1>3, <2>2
    <3>2. QED
      BY <1>1, <1>6, <2>2, <3>1
  <2>3. QED
    BY <2>1, <2>2
<1>8. ASSUME NEW k \in 1 .. Len(u)
      PROVE  \E i \in 1 .. (n + 1) - 1 : k \in ls[i].a .. ls[i].z /\ Restamped(u[k], in[k], ls[i].serial)
  <2>1. k \in 1 .. l.z /\ k \in 1 .. Len(out) + Len(x) /\ k \in Nat
    BY <1>2, <1>4, <1>5, <1>6
  <2>2. CASE k <= Len(out)
    <3>1. u[k] = out[k] /\ k \in 1 .. Len(out)
      BY <1>2, <1>4, <1>5, <2>1, <2>2
    <3>2. PICK i \in 1 .. n - 1 : k \in ls[i].a .. ls[i].z /\ Restamped(out[k], in[k], ls[i].serial)
      BY <3>1 DEF WrittenIs
    <3>3. i \in 1 .. (n + 1) - 1
      BY <1>3
    <3>4. QED
      BY <3>1, <3>2, <3>3
  <2>3. CASE ~(k <= Len(out))
    <3> DEFINE j == k - Len(out)
    <3>1. j \in 1 .. Len(x) /\ l.a - 1 + j = k /\ k \in l.a .. l.z
      <4>1. k \in Nat /\ k <= l.z /\ k > l.a - 1
        BY <1>2, <1>4, <2>1, <2>3
      <4>2. Len(x) = l.z - l.a + 1 /\ j = k - (l.a - 1)
        BY <1>4
      <4>3. QED
        <5> DEFINE a == l.a
                   z == l.z
        <5>1. a \in Nat /\ z \in Nat /\ a >= 1 /\ a <= z /\ k \in Nat /\ k <= z /\ k > a - 1
          BY <1>2, <4>1
        <5>2. Len(x) = z - a + 1 /\ j = k - (a - 1)
          BY <4>2
        <5> HIDE DEF a, z, j
        <5>3. k - (a - 1) \in 1 .. z - a + 1 /\ a - 1 + (k - (a - 1)) = k /\ k \in a .. z
          BY <5>1, InSpan
        <5>4. j \in 1 .. Len(x) /\ a - 1 + j = k /\ k \in a .. z
          BY <5>2, <5>3
        <5>5. QED
          BY <5>4 DEF a, z
    <3>2. u[k] = x[j]
      BY <1>5, <2>1, <2>3
    <3> HIDE DEF j
    <3>3. Restamped(x[j], in[l.a - 1 + j], l.serial)
      BY <3>1
    <3>4. n \in 1 .. (n + 1) - 1
      BY <1>3
    <3>5. Restamped(u[k], in[k], l.serial)
      BY <3>1, <3>2, <3>3
    <3>6. QED
      BY <3>1, <3>4, <3>5
  <2>4. QED
    BY <2>2, <2>3
<1>9. QED
  BY <1>5, <1>7, <1>8 DEF WrittenIs, u

SameUnder(o, p, s) == [o EXCEPT !.serial = s] = [p EXCEPT !.serial = s]

(* Two pages alike are the same page under one serial number.              *)
LEMMA RestampedSame ==
  ASSUME NEW p \in Pages, NEW q \in Pages, NEW t, NEW o, Restamped(o, q, t),
         SameUnder(p, q, 0), NEW s
  PROVE  SameUnder(o, p, s)
<1>1. /\ p = [open |-> p.open, eos |-> p.eos, serial |-> p.serial, pkts |-> p.pkts]
      /\ q = [open |-> q.open, eos |-> q.eos, serial |-> q.serial, pkts |-> q.pkts]
  BY DEF Pages
<1> DEFINE x == [open |-> p.open, eos |-> p.eos, serial |-> 0, pkts |-> p.pkts]
           y == [open |-> q.open, eos |-> q.eos, serial |-> 0, pkts |-> q.pkts]
<1>2. [p EXCEPT !.serial = 0] = x /\ [q EXCEPT !.serial = 0] = y
  BY <1>1
<1>3. x = y
  BY <1>2 DEF SameUnder
<1>4. x.open = p.open /\ x.eos = p.eos /\ x.pkts = p.pkts
      /\ y.open = q.open /\ y.eos = q.eos /\ y.pkts = q.pkts
  OBVIOUS
<1> HIDE DEF x, y
<1>5. p.open = q.open /\ p.eos = q.eos /\ p.pkts = q.pkts
  BY <1>3, <1>4
<1>6. [o EXCEPT !.serial = s] = [q EXCEPT !.serial = s]
  <2>1. CASE o = q
    BY <2>1
  <2>2. CASE o = [q EXCEPT !.serial = t]
    BY <1>1, <2>2
  <2>3. QED
    BY <2>1, <2>2 DEF Restamped
<1>7. QED
  BY <1>1, <1>5, <1>6 DEF SameUnder

(* A page written lies in a link that was written.                         *)
LEMMA WrittenAt ==
  ASSUME NEW in, NEW ls, Layout(ls, in), NEW n \in 1 .. Len(ls), NEW out, WrittenIs(out, in, ls, n),
         NEW m \in 1 .. n - 1, NEW k \in ls[m].a .. ls[m].z
  PROVE  k \in 1 .. Len(out) /\ \E t : Restamped(out[k], in[k], t)
<1>1. m \in 1 .. Len(ls) /\ ls[m].z < ls[n].a
  <2>1. Len(ls) \in Nat
    BY DEF Layout
  <2>2. QED
    BY <2>1, SpansRise
<1>2. SpanIs(ls[m], in) /\ SpanIs(ls[n], in)
  BY <1>1 DEF Layout
<1>3. ls[m].a \in Nat /\ ls[m].a >= 1 /\ ls[m].z \in Nat /\ ls[n].a \in Nat
  BY <1>2 DEF SpanIs
<1>4. Len(out) = ls[n].a - 1
  BY DEF WrittenIs
<1>5. k \in 1 .. Len(out)
  <2> DEFINE a == ls[m].a
             z == ls[m].z
             b == ls[n].a
  <2>1. a \in Nat /\ a >= 1 /\ z \in Nat /\ b \in Nat /\ z < b /\ k \in a .. z
    BY <1>1, <1>3
  <2> HIDE DEF a, z, b
  <2>2. k \in 1 .. b - 1
    BY <2>1
  <2>3. QED
    BY <1>4, <2>2 DEF b
<1>6. QED
  BY <1>5 DEF WrittenIs

(* A page with another serial is a page.                                   *)
LEMMA StampedPage ==
  ASSUME NEW p \in Pages, NEW s \in Int
  PROVE  [p EXCEPT !.serial = s] \in Pages
BY DEF Pages

(* Runs that are the same without their serials.                           *)
LEMMA SameRunIs ==
  ASSUME NEW x \in Seq(Pages), NEW y \in Seq(Pages), samerun(x, y)
  PROVE  /\ Len(x) = Len(y)
         /\ \A k \in 1 .. Len(x) : SameUnder(x[k], y[k], 0)
<1>1. DOMAIN x = 1 .. Len(x)
  BY LenProperties
<1>2. QED
  BY <1>1 DEF samerun, SameUnder

(* A replay writes the pages of its link: those it copies are, but for the *)
(* serials, those of the link that was repeated, and so its own.           *)
LEMMA ReplayWrites ==
  ASSUME Layout(links, input), Refs(links, input), NEW n \in 1 .. Len(links), links[n].rep # 0,
         WrittenIs(output, input, links, n), NEW m, m = links[n].rep
  PROVE  WrittenIs(output \o replay(links[m].a - 1, links[m].z - links[m].a + 1, links[n].serial),
                   input, links, n + 1)
<1> DEFINE l == links[n]
           g == links[m]
           s == l.serial
           x == replay(g.a - 1, g.z - g.a + 1, s)
           N == g.z - g.a + 1
<1>1. m \in 1 .. n - 1 /\ samerun(RunOf(input, l), RunOf(input, g))
  BY DEF Refs, RefIs
<1>2. m \in 1 .. Len(links)
  <2>1. Len(links) \in Nat
    BY DEF Layout
  <2>2. QED
    BY <1>1, <2>1
<1>3. SpanIs(l, input) /\ SpanIs(g, input) /\ input \in Seq(Pages)
  BY <1>2 DEF Layout
<1>4. /\ l.a \in Nat /\ l.z \in Nat /\ l.a >= 1 /\ l.a <= l.z /\ l.z <= Len(input)
      /\ g.a \in Nat /\ g.z \in Nat /\ g.a >= 1 /\ g.a <= g.z /\ g.z <= Len(input)
      /\ s = input[l.a].serial
  BY <1>3 DEF SpanIs
<1>5. \A k \in 1 .. Len(input) : input[k] \in Pages
  BY <1>3, ElementOfSeq
<1>6. Len(input) \in Nat /\ N \in Nat
  BY <1>3, <1>4, LenProperties
<1>7. s \in Int
  <2>1. l.a \in 1 .. Len(input)
    BY <1>4, <1>6
  <2>2. QED
    BY <1>4, <1>5, <2>1 DEF Pages
<1> DEFINE u == RunOf(input, l)
           v == RunOf(input, g)
<1>8. IsPart(u, l.z - l.a + 1, input, l.a - 1)
  <2> HIDE DEF u, v, l, g
  <2>1. QED
    BY <1>3, <1>4, LinkPages DEF u
<1>9. IsPart(v, N, input, g.a - 1)
  <2> HIDE DEF u, v, l, g
  <2>1. QED
    BY <1>3, <1>4, LinkPages DEF v
<1>10. samerun(u, v) /\ u \in Seq(Pages) /\ v \in Seq(Pages)
  BY <1>1, <1>8, <1>9 DEF IsPart
<1> HIDE DEF u, v, l, g, x, s, N
<1>11. Len(u) = N /\ l.z - l.a + 1 = N
       /\ \A k \in 1 .. N : SameUnder(u[k], v[k], 0)
  BY <1>8, <1>9, <1>10, SameRunIs DEF IsPart
<1>12. x = [k \in 1 .. N |-> [output[(g.a - 1) + k] EXCEPT !.serial = s]]
  BY DEF replay, x, N
<1>13. ASSUME NEW k \in 1 .. N
       PROVE  x[k] = [input[l.a - 1 + k] EXCEPT !.serial = s] /\ x[k] \in Pages
  <2> DEFINE i == g.a - 1 + k
             j == l.a - 1 + k
             o == output[i]
             p == input[j]
             q == input[i]
  <2>1. i \in g.a .. g.z /\ j \in 1 .. Len(input) /\ i \in 1 .. Len(input)
    <3> DEFINE a == l.a
               z == l.z
               b == g.a
               y == g.z
               n0 == Len(input)
    <3>1. /\ a \in Nat /\ z \in Nat /\ a >= 1 /\ a <= z /\ z <= n0
          /\ b \in Nat /\ y \in Nat /\ b >= 1 /\ b <= y /\ y <= n0
          /\ n0 \in Nat /\ k \in 1 .. y - b + 1 /\ z - a + 1 = y - b + 1
      BY <1>4, <1>6, <1>11 DEF N
    <3>2. i = b - 1 + k /\ j = a - 1 + k
      OBVIOUS
    <3> HIDE DEF a, z, b, y, n0, i, j
    <3>3. i \in b .. y /\ i \in 1 .. n0
      BY <3>1, <3>2
    <3>4. j \in 1 .. n0
      BY <3>1, <3>2
    <3>5. QED
      BY <3>3, <3>4 DEF b, y, n0
  <2>2. p \in Pages /\ q \in Pages
    BY <1>5, <2>1
  <2>3. u[k] = p /\ v[k] = q
    BY <1>8, <1>9, <1>11 DEF IsPart
  <2>4. PICK t : Restamped(o, q, t)
    <3> HIDE DEF i, j
    <3>1. i \in links[m].a .. links[m].z
      BY <2>1 DEF g
    <3>2. QED
      BY <1>1, <3>1, WrittenAt
  <2>5. SameUnder(p, q, 0)
    BY <1>11, <2>3
  <2>6. x[k] = [o EXCEPT !.serial = s]
    BY <1>12
  <2> HIDE DEF i, j, o, p, q
  <2>7. x[k] = [p EXCEPT !.serial = s]
    <3>1. SameUnder(o, p, s)
      BY <2>2, <2>4, <2>5, RestampedSame
    <3>2. QED
      BY <2>6, <3>1 DEF SameUnder
  <2>8. x[k] \in Pages
    BY <1>7, <2>2, <2>7, StampedPage
  <2>9. QED
    BY <2>7, <2>8 DEF p, j
<1>14. x \in Seq(Pages) /\ Len(x) = N
  <2>1. \A k \in 1 .. N : [output[(g.a - 1) + k] EXCEPT !.serial = s] \in Pages
    BY <1>12, <1>13
  <2>2. QED
    BY <1>6, <1>12, <2>1
<1>15. \A i \in 1 .. Len(x) : Restamped(x[i], input[links[n].a - 1 + i], links[n].serial)
  BY <1>13, <1>14 DEF Restamped, l, s
<1>16. Len(x) = links[n].z - links[n].a + 1
  BY <1>11, <1>14 DEF l
<1>17. WrittenIs(output \o x, input, links, n + 1)
  BY <1>14, <1>15, <1>16, WritesMore
<1>18. QED
  BY <1>17 DEF x, g, l, s

(* A coded link writes its pages, those of the reused headers too.         *)
LEMMA LinkWrites ==
  ASSUME Layout(links, input), Refs(links, input), NEW n \in 1 .. Len(links),
         WrittenIs(output, input, links, n), NEW kept,
         links[n].hdup # 0 => kept.off = links[links[n].hdup].a,
         NEW x, x = Made(RunOf(input, links[n]), SkipsOf(input, links[n]), kept)
  PROVE  /\ x \in Seq(Pages) /\ Len(x) = links[n].z - links[n].a + 1
         /\ \A i \in 1 .. Len(x) : Restamped(x[i], input[links[n].a - 1 + i], links[n].serial)
<1> DEFINE l == links[n]
           run == RunOf(input, l)
           s == SkipsOf(input, l)
           N == l.z - l.a + 1
<1>1. SpanIs(l, input) /\ input \in Seq(Pages) /\ Len(links) \in Nat
  BY DEF Layout
<1>2. /\ l.a \in Nat /\ l.z \in Nat /\ l.a >= 1 /\ l.a <= l.z /\ l.z <= Len(input)
      /\ l.serial = input[l.a].serial /\ input[l.a].open /\ \A k \in l.a + 1 .. l.z : ~input[k].open
  BY <1>1 DEF SpanIs
<1>3. \A k \in 1 .. Len(input) : input[k] \in Pages
  BY <1>1, ElementOfSeq
<1>4. Len(input) \in Nat /\ N \in Nat /\ N >= 1
  BY <1>1, <1>2, LenProperties
<1>5. LET h == Len(HdrOf(input, l))
      IN  h \in 0 .. l.z - l.a /\ IsPart(run, N, input, l.a - 1) /\ IsPart(HdrOf(input, l), h, input, l.a)
  <2> HIDE DEF l
  <2>1. QED
    BY <1>1, <1>2, LinkPages
<1>6. Len(run) = N /\ \A i \in 1 .. N : run[i] = input[l.a - 1 + i]
  BY <1>5 DEF IsPart
<1>7. s \in 0 .. l.z - l.a /\ (s # 0 => l.hdup # 0 /\ s = Len(HdrOf(input, l)))
  BY <1>2, <1>5 DEF SkipsOf
<1>8. \A i \in 1 .. N :
        x[i] = IF i \in 2 .. s + 1 THEN [output[kept.off + i - 1] EXCEPT !.serial = run[1].serial]
               ELSE [open |-> i = 1, eos |-> run[i].eos, serial |-> run[i].serial, pkts |-> run[i].pkts]
  BY <1>6 DEF Made
<1>9. x = [i \in 1 .. N |-> x[i]]
  BY <1>6 DEF Made
<1>10. run[1].serial = l.serial
  <2>1. 1 \in 1 .. N /\ l.a - 1 + 1 = l.a
    BY <1>2, <1>4
  <2>2. run[1] = input[l.a - 1 + 1]
    BY <1>6, <2>1
  <2>3. QED
    BY <1>2, <2>1, <2>2
<1> HIDE DEF N, run, s
<1>11. l.serial \in Int
  <2>1. l.a \in 1 .. Len(input)
    BY <1>2, <1>4
  <2>2. QED
    BY <1>2, <1>3, <2>1 DEF Pages
<1>12. ASSUME NEW i \in 1 .. N
       PROVE  x[i] \in Pages /\ Restamped(x[i], input[l.a - 1 + i], l.serial)
  <2> DEFINE j == l.a - 1 + i
             p == input[j]
  <2>1. j \in 1 .. Len(input) /\ j \in l.a .. l.z /\ (i = 1 => j = l.a) /\ (i # 1 => j \in l.a + 1 .. l.z)
    <3> DEFINE a == l.a
               z == l.z
               n0 == Len(input)
    <3>1. /\ a \in Nat /\ z \in Nat /\ a >= 1 /\ a <= z /\ z <= n0
          /\ n0 \in Nat /\ i \in 1 .. z - a + 1
      BY <1>2, <1>4 DEF N
    <3>2. j = a - 1 + i
      OBVIOUS
    <3> HIDE DEF a, z, n0, j
    <3>3. j \in 1 .. n0 /\ j \in a .. z
      BY <3>1, <3>2
    <3>4. (i = 1 => j = a) /\ (i # 1 => j \in a + 1 .. z)
      BY <3>1, <3>2
    <3>5. QED
      BY <3>3, <3>4 DEF a, z, n0
  <2>2. p \in Pages
    BY <1>3, <2>1
  <2>3. CASE i \notin 2 .. s + 1
    <3>1. x[i] = [open |-> i = 1, eos |-> p.eos, serial |-> p.serial, pkts |-> p.pkts]
      <4>1. run[i] = p
        BY <1>6
      <4> HIDE DEF p, j
      <4>2. x[i] = [open |-> i = 1, eos |-> run[i].eos, serial |-> run[i].serial, pkts |-> run[i].pkts]
        BY <1>8, <2>3
      <4>3. QED
        BY <4>1, <4>2
    <3>2. p.open = (i = 1)
      <4>1. p.open \in BOOLEAN
        BY <2>2 DEF Pages
      <4>2. CASE i = 1
        BY <1>2, <2>1, <4>1, <4>2
      <4>3. CASE i # 1
        BY <1>2, <2>1, <4>1, <4>3
      <4>4. QED
        BY <4>2, <4>3
    <3>3. p = [open |-> p.open, eos |-> p.eos, serial |-> p.serial, pkts |-> p.pkts]
      BY <2>2 DEF Pages
    <3> HIDE DEF p
    <3>4. x[i] = p
      BY <3>1, <3>2, <3>3
    <3>5. QED
      BY <2>2, <3>4 DEF Restamped, p
  <2>4. CASE i \in 2 .. s + 1
    <3>1. s # 0 /\ i - 1 \in 1 .. s /\ i - 1 \in Nat
      BY <1>7, <2>4
    <3> DEFINE g == links[l.hdup]
               u == HdrOf(input, l)
               v == HdrOf(input, g)
               k == i - 1
    <3>2. l.hdup # 0 /\ s = Len(u)
      BY <1>7, <3>1
    <3>3. l.hdup \in 1 .. n - 1 /\ samerun(u, v)
      BY <3>2 DEF Refs, RefIs
    <3>4. SpanIs(g, input) /\ l.hdup \in 1 .. Len(links)
      <4>1. l.hdup \in 1 .. Len(links)
        BY <1>1, <3>3
      <4>2. QED
        BY <4>1 DEF Layout
    <3>5. g.a \in Nat /\ g.z \in Nat /\ g.a >= 1 /\ g.a <= g.z /\ g.z <= Len(input)
      BY <3>4 DEF SpanIs
    <3>6. IsPart(v, Len(v), input, g.a) /\ Len(v) \in 0 .. g.z - g.a
      <4> HIDE DEF g
      <4>1. QED
        BY <1>1, <3>5, LinkPages
    <3>7. IsPart(u, s, input, l.a)
      BY <1>5, <3>2
    <3> HIDE DEF u, v, g
    <3>8. u \in Seq(Pages) /\ v \in Seq(Pages)
      BY <3>6, <3>7 DEF IsPart
    <3>9. Len(v) = s /\ SameUnder(u[k], v[k], 0)
      BY <3>1, <3>2, <3>3, <3>8, SameRunIs
    <3>10. u[k] = input[l.a + k] /\ v[k] = input[g.a + k] /\ l.a + k = j
      <4>1. u[k] = input[l.a + k] /\ v[k] = input[g.a + k]
        BY <3>1, <3>6, <3>7, <3>9 DEF IsPart
      <4>2. l.a + k = j
        <5> DEFINE a == l.a
        <5>1. a \in Nat /\ i \in Nat /\ k = i - 1 /\ j = a - 1 + i
          BY <1>2
        <5> HIDE DEF a, j, k
        <5>2. a + k = j
          BY <5>1
        <5>3. QED
          BY <5>2 DEF a
      <4>3. QED
        BY <4>1, <4>2
    <3>11. g.a + k \in g.a .. g.z /\ g.a + k \in 1 .. Len(input) /\ kept.off + i - 1 = g.a + k
      <4>1. kept.off = g.a
        BY <3>2 DEF g
      <4>2. QED
        BY <1>4, <3>1, <3>5, <3>6, <3>9, <4>1
    <3> DEFINE q == input[g.a + k]
               o == output[g.a + k]
    <3>12. q \in Pages /\ SameUnder(p, q, 0)
      BY <1>3, <3>9, <3>10, <3>11
    <3>13. PICK t : Restamped(o, q, t)
      <4> DEFINE e == g.a + k
                 h == l.hdup
      <4>1. e \in links[h].a .. links[h].z /\ h \in 1 .. n - 1
        BY <3>3, <3>11 DEF g
      <4> HIDE DEF e, h
      <4>2. \E t : Restamped(output[e], input[e], t)
        BY <4>1, WrittenAt
      <4>3. QED
        BY <4>2 DEF e
    <3>14. x[i] = [o EXCEPT !.serial = l.serial]
      BY <1>8, <1>10, <2>4, <3>11
    <3> HIDE DEF o, q, p, j
    <3>15. x[i] = [p EXCEPT !.serial = l.serial]
      <4> DEFINE f == l.serial
      <4> HIDE DEF f
      <4>1. x[i] = [o EXCEPT !.serial = f]
        BY <3>14 DEF f
      <4>2. SameUnder(o, p, f)
        BY <2>2, <3>12, <3>13, RestampedSame
      <4>3. QED
        BY <4>1, <4>2 DEF f, SameUnder
    <3>16. x[i] \in Pages
      BY <1>11, <2>2, <3>15, StampedPage
    <3>17. QED
      BY <3>15, <3>16 DEF Restamped, p, j
  <2>5. QED
    BY <2>3, <2>4
<1>13. x \in Seq(Pages) /\ Len(x) = N
  <2> DEFINE y == [i \in 1 .. N |-> x[i]]
  <2>1. \A i \in 1 .. N : x[i] \in Pages
    BY <1>12
  <2>2. y \in Seq(Pages) /\ Len(y) = N
    BY <1>4, <2>1
  <2> HIDE DEF y
  <2>3. x = y
    BY <1>9 DEF y
  <2>4. QED
    BY <2>2, <2>3
<1>14. QED
  BY <1>12, <1>13 DEF N

-----------------------------------------------------------------------------
(* What the decoder's lists have of a link of the encoder's lists.         *)
RecOf(l) == [off |-> l.a - 1, len |-> l.z - l.a + 1]

KeepOf(in, l) ==
  [off |-> l.a, len |-> Len(HdrOf(in, l)), setup |-> l.setup, npk |-> PacketsOf(HdrOf(in, l))]

RecsAre(q, list, ls) ==
  IsSeq(q) /\ Len(q) = Len(list) /\ \A p \in 1 .. Len(list) : q[p] = RecOf(ls[list[p]])

KeepsAre(q, list, ls, in) ==
  IsSeq(q) /\ Len(q) = Len(list) /\ \A p \in 1 .. Len(list) : q[p] = KeepOf(in, ls[list[p]])

DecIs(d, w, in, ls) ==
  /\ d = [v |-> w.v, h |-> w.h, si |-> w.si, rec |-> d.rec, keep |-> d.keep]
  /\ RecsAre(d.rec, w.recl, ls) /\ KeepsAre(d.keep, w.keepl, ls, in)

(* A list to which a link may have been added.                             *)
LEMMA ListLength ==
  ASSUME NEW b \in Seq(Nat), NEW n \in Nat, NEW mark \in BOOLEAN
  PROVE  Len(b) \in Nat /\ (mark => IsLonger(Listed(b, mark, n), b, n)) /\ (~mark => Listed(b, mark, n) = b)
BY Appended DEF Listed

(* The list of recorded links is added to alike on both sides.             *)
LEMMA RecsMore ==
  ASSUME NEW q, NEW list \in Seq(Nat), NEW ls, RecsAre(q, list, ls), NEW mark \in BOOLEAN,
         NEW n \in Nat, NEW r, r = RecOf(ls[n])
  PROVE  RecsAre(IF mark THEN Append(q, r) ELSE q, Listed(list, mark, n), ls)
<1> DEFINE b == Listed(list, mark, n)
<1>1. Len(list) \in Nat /\ (mark => IsLonger(b, list, n)) /\ (~mark => b = list)
  BY ListLength
<1>2. IsSeq(Append(q, r)) /\ IsLonger(Append(q, r), q, r)
  BY AppendedAny DEF RecsAre
<1> HIDE DEF b
<1>3. CASE mark
  <2> DEFINE y == Append(q, r)
  <2>1. IsLonger(b, list, n) /\ IsSeq(y) /\ IsLonger(y, q, r)
    BY <1>1, <1>2, <1>3
  <2> HIDE DEF y
  <2>2. Len(y) = Len(b) /\ Len(q) = Len(list)
    BY <2>1 DEF IsLonger, RecsAre
  <2>3. \A p \in 1 .. Len(b) : y[p] = RecOf(ls[b[p]])
    <3> SUFFICES ASSUME NEW p \in 1 .. Len(b) PROVE y[p] = RecOf(ls[b[p]])
      OBVIOUS
    <3>1. CASE p = Len(list) + 1
      BY <2>1, <2>2, <3>1 DEF IsLonger
    <3>2. CASE p \in 1 .. Len(list)
      BY <2>1, <2>2, <3>2 DEF IsLonger, RecsAre
    <3>3. QED
      BY <1>1, <2>1, <3>1, <3>2 DEF IsLonger
  <2>4. RecsAre(y, b, ls)
    BY <2>1, <2>2, <2>3 DEF RecsAre
  <2>5. QED
    BY <1>3, <2>4 DEF y, b
<1>4. CASE ~mark
  BY <1>1, <1>4 DEF b
<1>5. QED
  BY <1>3, <1>4

(* So is the list of kept headers.                                         *)
LEMMA KeepsMore ==
  ASSUME NEW q, NEW list \in Seq(Nat), NEW ls, NEW in, KeepsAre(q, list, ls, in), NEW mark \in BOOLEAN,
         NEW n \in Nat, NEW r, r = KeepOf(in, ls[n])
  PROVE  KeepsAre(IF mark THEN Append(q, r) ELSE q, Listed(list, mark, n), ls, in)
<1> DEFINE b == Listed(list, mark, n)
<1>1. Len(list) \in Nat /\ (mark => IsLonger(b, list, n)) /\ (~mark => b = list)
  BY ListLength
<1>2. IsSeq(Append(q, r)) /\ IsLonger(Append(q, r), q, r)
  BY AppendedAny DEF KeepsAre
<1> HIDE DEF b
<1>3. CASE mark
  <2> DEFINE y == Append(q, r)
  <2>1. IsLonger(b, list, n) /\ IsSeq(y) /\ IsLonger(y, q, r)
    BY <1>1, <1>2, <1>3
  <2> HIDE DEF y
  <2>2. Len(y) = Len(b) /\ Len(q) = Len(list)
    BY <2>1 DEF IsLonger, KeepsAre
  <2>3. \A p \in 1 .. Len(b) : y[p] = KeepOf(in, ls[b[p]])
    <3> SUFFICES ASSUME NEW p \in 1 .. Len(b) PROVE y[p] = KeepOf(in, ls[b[p]])
      OBVIOUS
    <3>1. CASE p = Len(list) + 1
      BY <2>1, <2>2, <3>1 DEF IsLonger
    <3>2. CASE p \in 1 .. Len(list)
      BY <2>1, <2>2, <3>2 DEF IsLonger, KeepsAre
    <3>3. QED
      BY <1>1, <2>1, <3>1, <3>2 DEF IsLonger
  <2>4. KeepsAre(y, b, ls, in)
    BY <2>1, <2>2, <2>3 DEF KeepsAre
  <2>5. QED
    BY <1>3, <2>4 DEF y, b
<1>4. CASE ~mark
  BY <1>1, <1>4 DEF b
<1>5. QED
  BY <1>3, <1>4

(* A replay is decoded as the link it repeats.                             *)
ReplayedAs(d, e, l, ls) ==
  /\ e.rep /\ e.back < Len(d.rec) /\ GetSerial(d.h, e.serial) = l.serial
  /\ d.rec[Len(d.rec) - e.back] = RecOf(ls[l.rep])

(* The decoder finds the link that the encoder meant, and its serial.      *)
LEMMA ReplayDecodes ==
  ASSUME NEW w \in Ws, NEW x, NEW l \in LinkType, NEW e, ReplayStep(w, x, l, e),
         NEW d, NEW in, NEW ls, DecIs(d, w, in, ls)
  PROVE  /\ ReplayedAs(d, e, l, ls)
         /\ DecIs([d EXCEPT !.h = SerialSeen(@, l.serial)], x, in, ls)
<1>1. PICK p \in 1 .. Len(w.recl) :
         /\ w.recl[p] = l.rep
         /\ e = [rep |-> TRUE, back |-> Len(w.recl) - p, serial |-> PutSerial(w.h, l.serial)]
  BY DEF ReplayStep
<1>2. w.h \in Hs /\ l.serial \in Int /\ Len(w.recl) \in Nat
  BY DEF Ws, LinkType
<1>3. d.h = w.h /\ Len(d.rec) = Len(w.recl) /\ d.rec[p] = RecOf(ls[w.recl[p]])
  BY DEF DecIs, RecsAre
<1>4. GetSerial(w.h, PutSerial(w.h, l.serial)) = l.serial
  BY <1>2, SerialComesBack
<1>5. ReplayedAs(d, e, l, ls)
  <2>1. e.rep /\ e.back = Len(w.recl) - p /\ e.serial = PutSerial(w.h, l.serial)
    BY <1>1
  <2>2. e.back < Len(d.rec) /\ Len(d.rec) - e.back = p
    BY <1>2, <1>3, <2>1
  <2>3. QED
    BY <1>1, <1>3, <1>4, <2>1, <2>2 DEF ReplayedAs
<1>6. DecIs([d EXCEPT !.h = SerialSeen(@, l.serial)], x, in, ls)
  <2> DEFINE f == [d EXCEPT !.h = SerialSeen(@, l.serial)]
  <2>1. d = [v |-> w.v, h |-> w.h, si |-> w.si, rec |-> d.rec, keep |-> d.keep]
    BY DEF DecIs
  <2>2. x = [v |-> w.v, h |-> SerialSeen(w.h, l.serial), recl |-> w.recl, keepl |-> w.keepl, si |-> w.si]
    BY DEF ReplayStep, Before
  <2>3. f = [v |-> w.v, h |-> SerialSeen(w.h, l.serial), si |-> w.si, rec |-> d.rec, keep |-> d.keep]
    BY <2>1
  <2> HIDE DEF f
  <2>4. DecIs(f, x, in, ls)
    <3>1. f.rec = d.rec /\ f.keep = d.keep /\ x.recl = w.recl /\ x.keepl = w.keepl
      BY <2>2, <2>3
    <3>2. x.v = w.v /\ x.h = SerialSeen(w.h, l.serial) /\ x.si = w.si
      BY <2>2
    <3>3. RecsAre(d.rec, w.recl, ls) /\ KeepsAre(d.keep, w.keepl, ls, in)
      BY DEF DecIs
    <3>4. QED
      BY <2>3, <3>1, <3>2, <3>3 DEF DecIs
  <2>5. QED
    BY <2>4 DEF f
<1>7. QED
  BY <1>5, <1>6

(* What the decoder puts behind the first page of a link.                  *)
KeptFor(in, ls, l) == IF l.hdup # 0 THEN KeepOf(in, ls[l.hdup]) ELSE NothingKept

KeptFits(kept, s, run, T) ==
  /\ T[0] = 0 /\ (\A k \in 0 .. s - 1 : T[k + 1] = T[k] + Len(run[k + 2].pkts))
  /\ kept.off \in Int /\ kept.len = s /\ kept.npk = T[s]

(* Runs that are the same have the same packets.                           *)
LEMMA SamePacketsIs ==
  ASSUME NEW x \in Seq(Pages), NEW y \in Seq(Pages), samerun(x, y)
  PROVE  SamePackets(x, y)
<1>1. Len(x) = Len(y) /\ \A k \in 1 .. Len(x) : SameUnder(x[k], y[k], 0)
  BY SameRunIs
<1>2. \A k \in 1 .. Len(x) : x[k].pkts = y[k].pkts
  <2> SUFFICES ASSUME NEW k \in 1 .. Len(x) PROVE x[k].pkts = y[k].pkts
    OBVIOUS
  <2> DEFINE p == x[k]
             q == y[k]
  <2>1. p \in Pages /\ q \in Pages /\ SameUnder(p, q, 0)
    BY <1>1
  <2> HIDE DEF p, q
  <2>2. [p EXCEPT !.serial = 0].pkts = p.pkts /\ [q EXCEPT !.serial = 0].pkts = q.pkts
    BY <2>1 DEF Pages
  <2>3. p.pkts = q.pkts
    BY <2>1, <2>2 DEF SameUnder
  <2>4. QED
    BY <2>3 DEF p, q
<1>3. QED
  BY <1>1, <1>2 DEF SamePackets

(* The headers kept of another link stand for those that were skipped: as  *)
(* many pages, with as many packets.                                       *)
LEMMA KeptIsFit ==
  ASSUME NEW in, NEW ls, Layout(ls, in), Refs(ls, in), NEW n \in 1 .. Len(ls), NEW l, l = ls[n]
  PROVE  \E T : KeptFits(KeptFor(in, ls, l), SkipsOf(in, l), RunOf(in, l), T)
<1>1. in \in Seq(Pages) /\ SpanIs(l, in) /\ Len(ls) \in Nat
  BY DEF Layout
<1>2. CASE l.hdup = 0
  <2> DEFINE T == [k \in {0} |-> 0]
  <2>1. KeptFor(in, ls, l) = NothingKept /\ SkipsOf(in, l) = 0
    BY <1>2 DEF KeptFor, SkipsOf
  <2>2. T[0] = 0
    OBVIOUS
  <2> HIDE DEF T
  <2>3. KeptFits(NothingKept, 0, RunOf(in, l), T)
    BY <2>2 DEF KeptFits, NothingKept
  <2>4. QED
    BY <2>1, <2>3
<1>3. CASE l.hdup # 0
  <2> DEFINE o == ls[l.hdup]
             x == HdrOf(in, l)
             y == HdrOf(in, o)
             s == Len(x)
  <2>1. l.hdup \in 1 .. n - 1 /\ samerun(x, y)
    BY <1>3 DEF Refs, RefIs
  <2>2. SpanIs(o, in)
    <3>1. l.hdup \in 1 .. Len(ls)
      BY <1>1, <2>1
    <3>2. \A i \in 1 .. Len(ls) : SpanIs(ls[i], in)
      BY DEF Layout
    <3>3. QED
      BY <3>1, <3>2
  <2> HIDE DEF o
  <2>3. /\ IsPart(RunOf(in, l), l.z - l.a + 1, in, l.a - 1) /\ s \in 0 .. l.z - l.a
        /\ IsPart(x, s, in, l.a)
    BY <1>1, LinkPages DEF SpanIs
  <2>4. IsPart(y, Len(y), in, o.a)
    BY <1>1, <2>2, LinkPages DEF SpanIs
  <2>5. x \in Seq(Pages) /\ y \in Seq(Pages)
    BY <2>3, <2>4 DEF IsPart
  <2>6. SamePackets(x, y)
    BY <2>1, <2>5, SamePacketsIs
  <2>7. PacketsOf(x) = PacketsOf(y) /\ Len(x) = Len(y)
    BY <2>5, <2>6, SameCount DEF SamePackets
  <2>8. PICK T : Counted(T, x)
    BY <2>5, CountedIs
  <2>9. \A k \in 0 .. s - 1 : x[k + 1] = RunOf(in, l)[k + 2]
    <3> DEFINE r == RunOf(in, l)
    <3> HIDE DEF x, r
    <3> SUFFICES ASSUME NEW k \in 0 .. Len(x) - 1 PROVE x[k + 1] = r[k + 2]
      BY DEF r
    <3>1. /\ l.a \in Nat /\ l.z \in Nat /\ Len(x) \in 0 .. l.z - l.a
          /\ IsPart(r, l.z - l.a + 1, in, l.a - 1) /\ IsPart(x, Len(x), in, l.a)
      BY <1>1, <2>3 DEF SpanIs, r
    <3>2. k + 1 \in 1 .. Len(x) /\ k + 2 \in 1 .. l.z - l.a + 1 /\ l.a + (k + 1) = (l.a - 1) + (k + 2)
      <4> DEFINE a == l.a
                 z == l.z
                 m == Len(x)
      <4>1. a \in Nat /\ z \in Nat /\ m \in 0 .. z - a /\ k \in 0 .. m - 1
        BY <3>1
      <4> HIDE DEF a, z, m
      <4>2. k + 1 \in 1 .. m /\ k + 2 \in 1 .. z - a + 1 /\ a + (k + 1) = (a - 1) + (k + 2)
        BY <4>1
      <4>3. QED
        BY <4>2 DEF a, z, m
    <3>3. x[k + 1] = in[l.a + (k + 1)] /\ r[k + 2] = in[(l.a - 1) + (k + 2)]
      BY <3>1, <3>2 DEF IsPart
    <3>4. QED
      BY <3>2, <3>3
  <2>10. KeptFor(in, ls, l) = KeepOf(in, o) /\ SkipsOf(in, l) = s
    BY <1>3 DEF KeptFor, SkipsOf, o
  <2>11. o.a \in Int
    BY <2>2 DEF SpanIs
  <2>12. T[0] = 0 /\ T[s] = PacketsOf(x) /\ \A k \in 0 .. s - 1 : T[k + 1] = T[k] + Len(x[k + 1].pkts)
    BY <2>8 DEF Counted
  <2> HIDE DEF x, y
  <2>13. \A k \in 0 .. s - 1 : T[k + 1] = T[k] + Len(RunOf(in, l)[k + 2].pkts)
    BY <2>9, <2>12
  <2>14. LET kp == KeepOf(in, o) IN kp.off = o.a /\ kp.len = Len(y) /\ kp.npk = PacketsOf(y)
    BY DEF KeepOf, y
  <2>15. KeptFits(KeepOf(in, o), s, RunOf(in, l), T)
    BY <2>7, <2>11, <2>12, <2>13, <2>14 DEF KeptFits
  <2>16. QED
    BY <2>10, <2>15
<1>4. QED
  BY <1>2, <1>3

(* A link comes back as it was coded, with the same models.                *)
CameBack(d, c, B) == d.v = c.v /\ d.h = c.h /\ d.out = B

(* So a link decodes to its pages and leaves the models of the coder.      *)
LEMMA LinkDecodes ==
  ASSUME Layout(links, input), Refs(links, input), NEW n \in 1 .. Len(links), NEW l, l = links[n],
         NEW w \in Ws, NEW x, NEW C, NEW e, NEW run, run = RunOf(input, l), NEW s, s = SkipsOf(input, l),
         CodedTo(C, w, x, n, l, SetupOf(links, l), run, s, e, streams[dec.si], opt.solid),
         dec.v = w.v, dec.h = w.h, dec.si > 1 <=> n > 1,
         NEW kept, kept = KeptFor(input, links, l)
  PROVE  CameBack(LinkDecoded(e, kept), C[Len(run)], Made(run, s, kept))
<1> DEFINE c == C[Len(run)]
           st == streams[dec.si]
           b == Coder(LinkModels([v |-> w.v, h |-> w.h], ~opt.solid /\ n > 1, SetupOf(links, l)), TRUE)
<1>1. C[0] = b /\ RunCoded(C, run, s) /\ st = [heads |-> c.heads, bulk |-> c.bulk] /\ e.pages = Len(run) - s
  BY DEF CodedTo
<1>2. b.heads = <<>> /\ b.bulk = <<>> /\ b.w = 0
  BY DEF Coder
<1>3. input \in Seq(Pages) /\ SpanIs(l, input)
  BY DEF Layout
<1>4. run \in Seq(Pages)
  BY <1>3, LinkPages DEF IsPart, SpanIs
<1>5. Len(run) \in Nat /\ s \in Nat /\ s < Len(run) /\ c \in Coders
  BY <1>1 DEF RunCoded
<1>6. PICK T : KeptFits(kept, s, run, T)
  BY KeptIsFit
<1>7. kept.setup = SetupOf(links, l)
  BY DEF KeptFor, SetupOf, KeepOf, NothingKept
<1> DEFINE m == LinkModels([v |-> dec.v, h |-> dec.h], ~opt.solid /\ dec.si > 1, kept.setup)
           d0 == Dec(m.v, m.h, 0, 0, 0, <<>>, <<>>)
           q == SubSeq(st.heads, 1, e.pages)
<1>8. b.v = m.v /\ b.h = m.h
  BY <1>7 DEF Coder
<1> HIDE DEF b, m
<1>9. c.heads \in Seq(Heads) /\ Len(c.heads) = HeadsAt(Len(run), s)
  <2>1. C[0].heads = <<>> /\ c = C[Len(run)]
    BY <1>1, <1>2
  <2> HIDE DEF c
  <2>2. Len(c.heads) = HeadsAt(Len(run), s)
    BY <1>1, <1>4, <2>1, RunHeads
  <2>3. QED
    BY <1>5, <2>2 DEF Coders
<1>10. HeadsAt(Len(run), s) = Len(run) - s
  BY <1>5 DEF HeadsAt
<1>11. st.heads = c.heads /\ st.bulk = c.bulk /\ q = c.heads
  <2>1. st.heads = c.heads /\ st.bulk = c.bulk
    BY <1>1
  <2>2. SubSeq(c.heads, 1, Len(c.heads)) = c.heads
    BY <1>9, FirstEnds
  <2>3. QED
    BY <1>1, <1>9, <1>10, <2>1, <2>2
<1>12. LinkDecoded(e, kept) = FoldLeft(LAMBDA d, head : DecodedPage(d, head, st.bulk, kept), d0, q)
  BY DEF LinkDecoded, Dec, m
<1> HIDE DEF q, st, d0
<1>13. Len(run) - s \in Nat /\ DOMAIN q = 1 .. Len(run) - s
  BY <1>5, <1>9, <1>10, <1>11
<1>14. PICK D : DecodesPages(D, d0, q, Len(run) - s, st.bulk, kept)
  BY <1>13, DecodesPagesIt
<1>15. D[Len(run) - s] = LinkDecoded(e, kept)
  BY <1>12, <1>14 DEF DecodesPages
<1>16. \A j \in 0 .. Len(run) - s - 1 : D[j + 1] = DecodedPage(D[j], C[Len(run)].heads[j + 1], C[Len(run)].bulk, kept)
  <2>1. \A k \in 0 .. Len(run) - s - 1 : D[k + 1] = DecodedPage(D[k], q[k + 1], st.bulk, kept)
    BY <1>14 DEF DecodesPages
  <2>2. QED
    BY <1>11, <2>1
<1>17. D[0] = Dec(C[0].v, C[0].h, 0, 0, 0, <<>>, <<>>)
  BY <1>1, <1>8, <1>14 DEF DecodesPages, d0
<1>18. InStepAt(D[Len(run) - s], C[Len(run)], Len(run) - s, Made(run, s, kept), Len(run))
  <2>1. T[0] = 0 /\ \A k \in 0 .. s - 1 : T[k + 1] = T[k] + Len(run[k + 2].pkts)
    BY <1>6 DEF KeptFits
  <2>2. kept.off \in Int /\ kept.len = s /\ kept.npk = T[s]
    BY <1>6 DEF KeptFits
  <2>3. C[0].heads = <<>> /\ C[0].bulk = <<>> /\ C[0].w = 0
    BY <1>1, <1>2
  <2>4. QED
    BY <1>1, <1>4, <1>16, <1>17, <2>1, <2>2, <2>3, RunDecodes
<1>19. PICK pk, out : /\ IsDec(LinkDecoded(e, kept), c.v, c.h, c.w, Len(run) - s, Len(c.bulk), pk, out)
                      /\ IsUpto(out, Made(run, s, kept), Len(run))
  BY <1>15, <1>18 DEF InStepAt
<1>20. Upto(Made(run, s, kept), Len(run)) = Made(run, s, kept)
  BY DEF Upto, Made
<1>21. CameBack(LinkDecoded(e, kept), c, Made(run, s, kept))
  <2> DEFINE y == LinkDecoded(e, kept)
  <2> HIDE DEF y
  <2>1. IsDec(y, c.v, c.h, c.w, Len(run) - s, Len(c.bulk), pk, out) /\ out = Made(run, s, kept)
    BY <1>19, <1>20 DEF IsUpto, y
  <2>2. y.v = c.v /\ y.h = c.h /\ y.out = out
    BY <2>1 DEF IsDec, Dec
  <2>3. CameBack(y, c, Made(run, s, kept))
    BY <2>1, <2>2 DEF CameBack
  <2>4. QED
    BY <2>3 DEF y
<1>22. QED
  BY <1>21

(* The head of a page that is not the last of its link does not end it.    *)
LEMMA NoneEndsEarly ==
  ASSUME Layout(links, input), NEW n \in 1 .. Len(links), NEW l, l = links[n],
         NEW w, NEW x, NEW C, NEW e, NEW run, run = RunOf(input, l), NEW s, NEW setup, NEW solid,
         CodedTo(C, w, x, n, l, setup, run, s, e, streams[dec.si], solid)
  PROVE  ~e.rep /\ e.pages > 0 /\ ~EndsEarly(e)
<1> DEFINE c == C[Len(run)]
<1>1. /\ C[0].heads = <<>> /\ RunCoded(C, run, s) /\ streams[dec.si] = [heads |-> c.heads, bulk |-> c.bulk]
      /\ e.pages = Len(run) - s /\ ~e.rep
  BY DEF CodedTo, Coder
<1>2. input \in Seq(Pages) /\ SpanIs(l, input)
  BY DEF Layout
<1>3. IsPart(run, l.z - l.a + 1, input, l.a - 1)
  BY <1>2, LinkPages DEF SpanIs
<1>4. Len(run) \in Nat /\ s \in Nat /\ s < Len(run)
  BY <1>1 DEF RunCoded
<1>5. \A m \in 1 .. e.pages - 1 : ~c.heads[m].eos
  <2> SUFFICES ASSUME NEW m \in 1 .. e.pages - 1 PROVE ~c.heads[m].eos
    OBVIOUS
  <2> DEFINE k == PageAt(m - 1, s)
             r == Len(run)
  <2>1. r \in Nat /\ s \in Nat /\ s < r /\ m \in 1 .. r - s - 1
    BY <1>1, <1>4
  <2>2. k \in 0 .. r - 1 /\ k + 1 \in 1 .. r - 1 /\ k \notin 1 .. s /\ HeadsAt(k, s) + 1 = m
    <3>1. CASE m = 1
      <4>1. k = 0
        BY <3>1 DEF PageAt
      <4>2. QED
        BY <2>1, <3>1, <4>1 DEF HeadsAt
    <3>2. CASE m # 1
      <4>1. k = s + m - 1
        BY <2>1, <3>2 DEF PageAt
      <4>2. QED
        BY <2>1, <3>2, <4>1 DEF HeadsAt
    <3>3. QED
      BY <3>1, <3>2
  <2> HIDE DEF k
  <2>3. c.heads[HeadsAt(k, s) + 1] = HeadOf(C[k], run[k + 1])
    BY <1>1, <1>3, <2>2, PageStays DEF IsPart
  <2>4. c.heads[m].eos = run[k + 1].eos
    BY <2>2, <2>3 DEF HeadOf
  <2>5. run[k + 1] = input[l.a + k] /\ l.a + k \in l.a .. l.z - 1
    <3> DEFINE a == l.a
               z == l.z
    <3>1. a \in Nat /\ z \in Nat /\ a <= z /\ IsPart(run, z - a + 1, input, a - 1)
      BY <1>2, <1>3 DEF SpanIs
    <3> HIDE DEF a, z
    <3>2. r = z - a + 1
      BY <3>1 DEF IsPart
    <3>3. k + 1 \in 1 .. z - a + 1 /\ (a - 1) + (k + 1) = a + k /\ a + k \in a .. z - 1
      BY <2>2, <3>1, <3>2
    <3>4. run[k + 1] = input[(a - 1) + (k + 1)]
      BY <3>1, <3>3 DEF IsPart
    <3>5. run[k + 1] = input[a + k]
      BY <3>3, <3>4
    <3>6. QED
      BY <3>3, <3>5 DEF a, z
  <2>6. ~input[l.a + k].eos
    BY <2>5 DEF Layout
  <2>7. QED
    BY <2>4, <2>5, <2>6
<1>6. e.pages > 0
  BY <1>1, <1>4
<1>7. streams[dec.si].heads = c.heads
  BY <1>1
<1>8. ~EndsEarly(e)
  BY <1>5, <1>7 DEF EndsEarly
<1>9. QED
  BY <1>1, <1>6, <1>8

(* What the decoder keeps of the headers in its output is what is there in *)
(* the input.                                                              *)
KeepIs(k, in, l) == k = KeepOf(in, l)

(* A page with another serial has the same packets.                        *)
LEMMA RestampedPackets ==
  ASSUME NEW o, NEW p \in Pages, NEW s, Restamped(o, p, s)
  PROVE  o.pkts = p.pkts
BY DEF Restamped, Pages

(* The headers found in the output are those of the input.                 *)
LEMMA KeptAgain ==
  ASSUME NEW in \in Seq(Pages), NEW l, SpanIs(l, in),
         NEW x \in Seq(Pages), Len(x) = l.z - l.a + 1,
         \A i \in 1 .. Len(x) : Restamped(x[i], in[l.a - 1 + i], l.serial)
  PROVE  KeepIs(Kept(l.a - 1, x, l.setup), in, l)
<1> DEFINE run == RunOf(in, l)
           y == Tail(x)
           q == Tail(run)
<1>1. l.a \in Nat /\ l.z \in Nat /\ l.a >= 1 /\ l.a <= l.z /\ l.z <= Len(in)
  BY DEF SpanIs
<1>2. IsPart(q, l.z - l.a, in, l.a)
  BY <1>1, LinkPages
<1>3. q \in Seq(Pages) /\ Len(q) = l.z - l.a
  BY <1>2 DEF IsPart
<1>4. y \in Seq(Pages) /\ Len(y) = l.z - l.a /\ \A i \in 1 .. l.z - l.a : y[i] = x[i + 1]
  <2>1. x # <<>>
    BY <1>1
  <2>2. y \in Seq(Pages) /\ Len(y) = Len(x) - 1 /\ \A i \in 1 .. Len(x) - 1 : y[i] = x[i + 1]
    BY <2>1, HeadTailProperties
  <2>3. QED
    BY <1>1, <2>2
<1> HIDE DEF y, q
<1>5. SamePackets(y, q)
  <2>1. \A i \in 1 .. Len(y) : y[i].pkts = q[i].pkts
    <3> SUFFICES ASSUME NEW i \in 1 .. Len(y) PROVE y[i].pkts = q[i].pkts
      OBVIOUS
    <3> DEFINE a == l.a
               z == l.z
    <3>1. a \in Nat /\ z \in Nat /\ a >= 1 /\ a <= z /\ z <= Len(in) /\ i \in 1 .. z - a /\ Len(x) = z - a + 1
      BY <1>1, <1>4
    <3> HIDE DEF a, z
    <3>2. i + 1 \in 1 .. Len(x) /\ a - 1 + (i + 1) = a + i /\ a + i \in 1 .. Len(in)
      BY <3>1
    <3>3. Restamped(x[i + 1], in[a - 1 + (i + 1)], l.serial)
      BY <3>2 DEF a
    <3>4. Restamped(y[i], in[a + i], l.serial)
      BY <1>4, <3>1, <3>2, <3>3 DEF a, z
    <3>5. in[a + i] \in Pages
      BY <3>2
    <3>6. y[i].pkts = in[a + i].pkts
      BY <3>4, <3>5, RestampedPackets
    <3>7. q[i] = in[a + i]
      BY <1>2, <3>1 DEF IsPart, a, z
    <3>8. QED
      BY <3>6, <3>7
  <2>2. QED
    BY <1>3, <1>4, <2>1 DEF SamePackets
<1>6. SamePackets(HeaderPages(y), HeaderPages(q))
  BY <1>3, <1>4, <1>5, SameHeads
<1>7. HeaderPages(y) \in Seq(Pages) /\ HeaderPages(q) \in Seq(Pages)
  BY <1>3, <1>4, HeaderPagesAre DEF IsPart
<1>8. Len(HeaderPages(y)) = Len(HeaderPages(q)) /\ PacketsOf(HeaderPages(y)) = PacketsOf(HeaderPages(q))
  BY <1>6, <1>7, SameCount DEF SamePackets
<1>9. (l.a - 1) + 1 = l.a
  BY <1>1
<1>10. Kept(l.a - 1, x, l.setup) = [off |-> l.a, len |-> Len(HeaderPages(y)), setup |-> l.setup,
                                   npk |-> PacketsOf(HeaderPages(y))]
  BY <1>9 DEF Kept, y
<1>11. KeepOf(in, l) = [off |-> l.a, len |-> Len(HeaderPages(q)), setup |-> l.setup,
                       npk |-> PacketsOf(HeaderPages(q))]
  BY DEF KeepOf, HdrOf, q
<1>12. QED
  BY <1>8, <1>10, <1>11 DEF KeepIs

(* The entry that the decoder takes from its list is that of the link that *)
(* the encoder had in mind.                                                *)
KeptOf(e) == IF e.dup THEN dec.keep[Len(dec.keep) - e.back] ELSE NothingKept

(* The entry is found, however many were added since.                      *)
LEMMA KeptIsFound ==
  ASSUME NEW w \in Ws, NEW x, NEW n, NEW l, l.hdup \in Nat, NEW C, NEW e, NEW run, NEW s, NEW y, NEW setup, NEW solid,
         CodedTo(C, w, x, n, l, setup, run, s, e, y, solid),
         DecIs(dec, w, input, links)
  PROVE  /\ KeptOf(e) = KeptFor(input, links, l)
         /\ e.dup => e.back < Len(dec.keep)
         /\ e.rec = l.rec /\ e.keep = l.keep
<1>1. PICK p \in Nat :
         /\ l.hdup # 0 => p \in 1 .. Len(w.keepl) /\ w.keepl[p] = l.hdup
         /\ e = [rep |-> FALSE, rec |-> l.rec, dup |-> l.hdup # 0,
                 back |-> IF l.hdup # 0 THEN Len(w.keepl) - p ELSE 0, keep |-> l.keep,
                 pages |-> Len(run) - s]
  BY DEF CodedTo
<1>2. e.rec = l.rec /\ e.keep = l.keep /\ e.dup = (l.hdup # 0)
  BY <1>1
<1>3. Len(w.keepl) \in Nat
  BY DEF Ws
<1>4. Len(dec.keep) = Len(w.keepl) /\ \A i \in 1 .. Len(w.keepl) : dec.keep[i] = KeepOf(input, links[w.keepl[i]])
  BY DEF DecIs, KeepsAre
<1>5. CASE l.hdup # 0
  <2>1. e.dup /\ e.back = Len(w.keepl) - p /\ p \in 1 .. Len(w.keepl) /\ w.keepl[p] = l.hdup
    BY <1>1, <1>5
  <2>2. e.back < Len(dec.keep) /\ Len(dec.keep) - e.back = p
    BY <1>3, <1>4, <2>1
  <2>3. dec.keep[p] = KeepOf(input, links[l.hdup])
    BY <1>4, <2>1
  <2>4. QED
    BY <1>2, <1>5, <2>1, <2>2, <2>3 DEF KeptOf, KeptFor
<1>6. CASE l.hdup = 0
  BY <1>2, <1>6 DEF KeptOf, KeptFor
<1>7. QED
  BY <1>2, <1>5, <1>6

(* What the decoder is left with by a link.                                *)
AfterLink(e, kept, d) ==
  LET setup == IF Len(d.v.su) > Len(dec.v.su) THEN Len(d.v.su) ELSE kept.setup
  IN  [v |-> d.v, h |-> d.h, si |-> dec.si + 1,
       rec |-> IF e.rec THEN Append(dec.rec, [off |-> Len(output), len |-> Len(d.out)]) ELSE dec.rec,
       keep |-> IF e.keep THEN Append(dec.keep, Kept(Len(output), d.out, setup)) ELSE dec.keep]

(* What a link does to the decoder: the guards of DecodeLink hold, its     *)
(* lists and models are those of the encoder behind the link, and the      *)
(* output grows by its pages.                                              *)
LEMMA LinkReturns ==
  ASSUME Layout(links, input), Refs(links, input), NEW n \in 1 .. Len(links), NEW l, l = links[n],
         NEW w \in Ws, NEW x, NEW e,
         LinkStep(w, x, n, l, SetupOf(links, l), input, e, streams[dec.si], opt.solid),
         DecIs(dec, w, input, links), dec.si > 1 <=> n > 1, WrittenIs(output, input, links, n)
  PROVE  /\ ~e.rep /\ (e.dup => e.back < Len(dec.keep)) /\ e.pages > 0 /\ ~EndsEarly(e)
         /\ DecIs(AfterLink(e, KeptOf(e), LinkDecoded(e, KeptOf(e))), x, input, links)
         /\ WrittenIs(output \o LinkDecoded(e, KeptOf(e)).out, input, links, n + 1)
<1> DEFINE run == RunOf(input, l)
           s == SkipsOf(input, l)
           setup == SetupOf(links, l)
           kept == KeptOf(e)
           d == LinkDecoded(e, kept)
<1>1. PICK C : CodedTo(C, w, x, n, l, setup, run, s, e, streams[dec.si], opt.solid)
  BY DEF LinkStep
<1> DEFINE c == C[Len(run)]
<1>2. input \in Seq(Pages) /\ SpanIs(l, input) /\ l \in LinkType /\ n \in Nat
  BY DEF Layout
<1>3. l.hdup \in Nat /\ l.rec \in BOOLEAN /\ l.keep \in BOOLEAN
  BY <1>2 DEF LinkType
<1>4. /\ kept = KeptFor(input, links, l)
      /\ e.dup => e.back < Len(dec.keep)
      /\ e.rec = l.rec /\ e.keep = l.keep
  <2> HIDE DEF run, s, setup
  <2>1. QED
    BY <1>1, <1>3, KeptIsFound
<1>5. ~e.rep /\ e.pages > 0 /\ ~EndsEarly(e)
  BY <1>1, NoneEndsEarly
<1>6. dec.v = w.v /\ dec.h = w.h /\ dec.si = w.si
  BY DEF DecIs
<1>7. CameBack(d, c, Made(run, s, kept))
  BY <1>1, <1>4, <1>6, LinkDecodes
<1>8. kept.setup = setup /\ (l.hdup # 0 => kept.off = links[l.hdup].a)
  BY <1>4 DEF KeptFor, SetupOf, KeepOf, NothingKept
<1> HIDE DEF d, kept, setup
<1>9. /\ d.out \in Seq(Pages) /\ Len(d.out) = l.z - l.a + 1
      /\ \A i \in 1 .. Len(d.out) : Restamped(d.out[i], input[l.a - 1 + i], l.serial)
  <2>1. d.out = Made(RunOf(input, links[n]), SkipsOf(input, links[n]), kept)
    BY <1>7 DEF CameBack
  <2> HIDE DEF run, s
  <2>2. QED
    BY <1>8, <2>1, LinkWrites
<1>10. WrittenIs(output \o d.out, input, links, n + 1)
  BY <1>9, WritesMore
<1>11. Len(output) = l.a - 1
  BY <1>2 DEF WrittenIs
<1>12. (IF Len(d.v.su) > Len(dec.v.su) THEN Len(d.v.su) ELSE kept.setup) = l.setup
  <2>1. l.setup = IF Len(c.v.su) > Len(w.v.su) THEN Len(c.v.su) ELSE setup
    BY <1>1 DEF CodedTo
  <2>2. d.v = c.v
    BY <1>7 DEF CameBack
  <2>3. QED
    BY <1>6, <1>8, <2>1, <2>2
<1>13. KeepIs(Kept(Len(output), d.out, l.setup), input, l)
  <2>1. KeepIs(Kept(l.a - 1, d.out, l.setup), input, l)
    BY <1>2, <1>9, KeptAgain
  <2>2. QED
    BY <1>11, <2>1
<1> DEFINE r == [off |-> Len(output), len |-> Len(d.out)]
           k == Kept(Len(output), d.out, l.setup)
           f == [v |-> d.v, h |-> d.h, si |-> dec.si + 1,
                 rec |-> IF e.rec THEN Append(dec.rec, r) ELSE dec.rec,
                 keep |-> IF e.keep THEN Append(dec.keep, k) ELSE dec.keep]
<1>14. r = RecOf(links[n]) /\ k = KeepOf(input, links[n])
  BY <1>9, <1>11, <1>13 DEF RecOf, KeepIs
<1>15. AfterLink(e, kept, d) = f
  BY <1>12 DEF AfterLink
<1> HIDE DEF r, k
<1>16. w.recl \in Seq(Nat) /\ w.keepl \in Seq(Nat)
  BY DEF Ws
<1>17. RecsAre(f.rec, Listed(w.recl, l.rec, n), links)
  <2>1. RecsAre(dec.rec, w.recl, links)
    BY DEF DecIs
  <2>2. RecsAre(IF l.rec THEN Append(dec.rec, r) ELSE dec.rec, Listed(w.recl, l.rec, n), links)
    BY <1>2, <1>3, <1>14, <1>16, <2>1, RecsMore
  <2>3. f.rec = IF l.rec THEN Append(dec.rec, r) ELSE dec.rec
    BY <1>4
  <2>4. QED
    BY <2>2, <2>3
<1>18. KeepsAre(f.keep, Listed(w.keepl, l.keep, n), links, input)
  <2>1. KeepsAre(dec.keep, w.keepl, links, input)
    BY DEF DecIs
  <2>2. KeepsAre(IF l.keep THEN Append(dec.keep, k) ELSE dec.keep, Listed(w.keepl, l.keep, n), links, input)
    BY <1>2, <1>3, <1>14, <1>16, <2>1, KeepsMore
  <2>3. f.keep = IF l.keep THEN Append(dec.keep, k) ELSE dec.keep
    BY <1>4
  <2>4. QED
    BY <2>2, <2>3
<1>19. /\ x.v = d.v /\ x.h = d.h /\ x.si = dec.si + 1
       /\ x.recl = Listed(w.recl, l.rec, n) /\ x.keepl = Listed(w.keepl, l.keep, n)
  <2>1. Before(x, c.v, c.h, Listed(w.recl, l.rec, n), Listed(w.keepl, l.keep, n), w.si + 1)
    BY <1>1 DEF CodedTo
  <2>2. d.v = c.v /\ d.h = c.h
    BY <1>7 DEF CameBack
  <2>3. QED
    BY <1>6, <2>1, <2>2 DEF Before
<1>20. f = [v |-> x.v, h |-> x.h, si |-> x.si, rec |-> f.rec, keep |-> f.keep]
  BY <1>19
<1> HIDE DEF f
<1>21. DecIs(f, x, input, links)
  BY <1>17, <1>18, <1>19, <1>20 DEF DecIs
<1>22. QED
  BY <1>4, <1>5, <1>10, <1>15, <1>21 DEF d, kept

-----------------------------------------------------------------------------
(* The inductive invariant, phase by phase.                                *)

(* The encoder has the models and the lists of w.                          *)
EncIs(w) == enc = [v |-> w.v, h |-> w.h, recl |-> w.recl, keepl |-> w.keepl]

First == [v |-> Models.v, h |-> Models.h, recl |-> <<>>, keepl |-> <<>>, si |-> 1]

(* Neither side has coded or decoded anything.                             *)
Untouched ==
  /\ ctl = <<>> /\ streams = <<>> /\ output = <<>> /\ EncIs(First)
  /\ dec = [v |-> Models.v, h |-> Models.h, si |-> 1, rec |-> <<>>, keep |-> <<>>]

Scanning == links = <<>> /\ at = 1 /\ Untouched

(* What the links refer to, up to the one at hand.                         *)
Comparing ==
  /\ Layout(links, input) /\ Refs(links, input) /\ FreshFrom(links, at)
  /\ at \in 1 .. Len(links) /\ Untouched /\ \A i \in 1 .. Len(links) : links[i].setup = 0

(* The steps so far are those of a history that ends where the encoder is. *)
Encoding ==
  /\ Layout(links, input) /\ Refs(links, input) /\ at \in 1 .. Len(links) /\ output = <<>>
  /\ dec = [v |-> Models.v, h |-> Models.h, si |-> 1, rec |-> <<>>, keep |-> <<>>]
  /\ \E W : History(W, at, input, links, ctl, streams, opt.solid) /\ EncIs(W[at])

(* The decoder is at a link, the encoder's history is complete, the decoder *)
(* has what the encoder had before that link, and has written the input.    *)
Decoding ==
  /\ Layout(links, input) /\ Refs(links, input) /\ at \in 1 .. Len(links) + 1
  /\ \E W : /\ History(W, Len(links) + 1, input, links, ctl, streams, opt.solid)
            /\ EncIs(W[Len(links) + 1]) /\ DecIs(dec, W[at], input, links)
  /\ WrittenIs(output, input, links, at)

(* The inductive invariant.                                                *)
Held ==
  /\ input \in Files /\ opt \in Options
  /\ \/ phase = "scan" /\ Scanning
     \/ phase = "compare" /\ Comparing
     \/ phase = "encode" /\ Encoding
     \/ phase = "decode" /\ Decoding
     \/ phase = "done" /\ Decoding /\ at = Len(links) + 1
     \/ phase = "refused" /\ (Scanning \/ Encoding)

(* The constants are as assumed.                                           *)
LEMMA InputIs ==
  ASSUME Held
  PROVE  input \in Seq(Pages) /\ opt.solid \in BOOLEAN
BY FileAssumption, OptionAssumption DEF Held

(* The invariant holds at first.                                           *)
LEMMA Starts0 == Init => Held
BY DEF Init, Held, Scanning, Untouched, EncIs, First

(* Links that are new refer to nothing.                                    *)
LEMMA FreshRefs ==
  ASSUME NEW ls, NEW in, \A i \in 1 .. Len(ls) : IsFresh(ls[i])
  PROVE  Refs(ls, in) /\ FreshFrom(ls, 1) /\ \A i \in 1 .. Len(ls) : ls[i].setup = 0
BY DEF Refs, RefIs, FreshFrom, IsFresh

(* Scan keeps the invariant.                                               *)
LEMMA ScanHolds == Held /\ Scan => Held'
<1> SUFFICES ASSUME Held, Scan PROVE Held'
  OBVIOUS
<1>1. /\ input' = input /\ opt' = opt /\ at' = at /\ enc' = enc /\ dec' = dec /\ ctl' = ctl
      /\ streams' = streams /\ output' = output /\ phase = "scan"
  BY DEF Scan
<1>2. input \in Files /\ opt \in Options /\ Scanning
  BY <1>1 DEF Held
<1>3. Untouched'
  BY <1>1, <1>2 DEF Scanning, Untouched, EncIs
<1>4. input \in Seq(Pages)
  BY InputIs
<1>5. CASE input # <<>> /\ \A k \in DOMAIN input : ~Stray(input, k)
  <2>1. links' = LinksOf(input) /\ phase' = "compare"
    BY <1>5 DEF Scan
  <2>2. Layout(links', input) /\ \A i \in 1 .. Len(links') : IsFresh(links'[i])
    BY <1>4, <1>5, <2>1, LinksAreLaid
  <2>3. Refs(links', input) /\ FreshFrom(links', 1) /\ \A i \in 1 .. Len(links') : links'[i].setup = 0
    BY <2>2, FreshRefs
  <2>4. at' = 1 /\ at' \in 1 .. Len(links')
    BY <1>1, <1>2, <2>2 DEF Scanning, Layout
  <2>5. Comparing'
    BY <1>1, <1>3, <2>2, <2>3, <2>4 DEF Comparing
  <2>6. QED
    BY <1>1, <1>2, <2>1, <2>5 DEF Held
<1>6. CASE ~(input # <<>> /\ \A k \in DOMAIN input : ~Stray(input, k))
  <2>1. links' = links /\ phase' = "refused"
    BY <1>6 DEF Scan
  <2>2. Scanning'
    BY <1>1, <1>2, <1>3, <2>1 DEF Scanning
  <2>3. QED
    BY <1>1, <1>2, <2>1, <2>2 DEF Held
<1>7. QED
  BY <1>5, <1>6

(* Comparing a link leaves it where it is and refers it back.              *)
Referred(r, i) ==
  /\ SameSpans(r, links) /\ Refs(r, input) /\ FreshFrom(r, i + 1)
  /\ \A k \in 1 .. Len(links) : r[k].setup = links[k].setup

(* Links have the pages they have.                                         *)
LEMMA SameSpansSelf ==
  ASSUME NEW ls \in Seq(LinkType)
  PROVE  SameSpans(ls, ls)
BY DEF SameSpans

(* The first of the links that were found is one of them.                  *)
LEMMA FoundBefore ==
  ASSUME NEW i \in Nat, NEW S \in SUBSET (1 .. i - 1), S # {}
  PROVE  Min(S) \in S /\ Min(S) \in 1 .. i - 1
<1>1. S \in SUBSET Nat
  OBVIOUS
<1>2. Min(S) \in S
  BY <1>1, LeastIs
<1>3. QED
  BY <1>2

(* A link that repeats an earlier one refers to it.                        *)
LEMMA WholeRefers ==
  ASSUME Layout(links, input), Refs(links, input), NEW i \in 1 .. Len(links), FreshFrom(links, i),
         NEW r, r = WholeRepeated(links, i)
  PROVE  Referred(r, i) /\ (r[i].rep = 0 => r = links)
<1>1. links \in Seq(LinkType) /\ Len(links) \in Nat /\ i \in Nat
  BY DEF Layout
<1>2. FreshFrom(links, i + 1)
  BY DEF FreshFrom
<1>3. SameSpans(links, links)
  BY <1>1, SameSpansSelf
<1> DEFINE found == IF opt.dd THEN {} ELSE Repeats(i)
<1>4. found \in SUBSET (1 .. i - 1)
  BY DEF Repeats
<1>5. CASE found = {}
  <2>1. r = links
    BY <1>5 DEF WholeRepeated
  <2>2. QED
    BY <1>2, <1>3, <2>1 DEF Referred
<1>6. CASE found # {}
  <2> DEFINE m == Min(found)
  <2>1. r = [links EXCEPT ![i].rep = m, ![m].rec = TRUE]
    BY <1>6 DEF WholeRepeated
  <2>2. m \in found /\ m \in 1 .. i - 1 /\ found = Repeats(i)
    <3>1. found = Repeats(i)
      BY <1>6
    <3> HIDE DEF found
    <3>2. QED
      BY <1>1, <1>4, <1>6, <3>1, FoundBefore
  <2> HIDE DEF m, found
  <2>3. links[m].rep = 0 /\ samerun(RunOf(input, links[i]), RunOf(input, links[m]))
    BY <2>2 DEF Repeats, runof, RunOf
  <2>4. m \in 1 .. Len(links) /\ m # i
    BY <1>1, <2>2
  <2>5. WholeMarked(r, links, i, m)
    BY <1>1, <2>1, <2>4, WholeIsMarked
  <2>6. Refs(r, input) /\ FreshFrom(r, i + 1)
    BY <1>1, <2>2, <2>3, <2>5, RefsAfterWhole
  <2>7. r[i].rep # 0
    <3>1. r[i].rep = m
      BY <2>5 DEF WholeMarked
    <3>2. m # 0
      BY <1>1, <2>2
    <3>3. QED
      BY <3>1, <3>2
  <2>8. QED
    BY <2>5, <2>6, <2>7 DEF Referred, WholeMarked
<1>7. QED
  BY <1>5, <1>6

(* A link whose headers do refers to the one that has them.                *)
LEMMA HeadersRefer ==
  ASSUME Layout(links, input), Refs(links, input), NEW i \in 1 .. Len(links), FreshFrom(links, i),
         NEW o, Referred(o, i), o[i].rep = 0 => o = links,
         NEW r, r = HeaderRepeated(o, i)
  PROVE  Referred(r, i)
<1>1. links \in Seq(LinkType) /\ Len(links) \in Nat /\ i \in Nat
  BY DEF Layout
<1> DEFINE found == IF opt.df \/ hdrrun(o[i]) = <<>> THEN {} ELSE HeaderRepeats(i)
<1>2. found \in SUBSET (1 .. i - 1)
  BY DEF HeaderRepeats
<1>3. CASE o[i].rep # 0 \/ found = {}
  <2>1. r = o
    BY <1>3 DEF HeaderRepeated
  <2>2. QED
    BY <2>1
<1>4. CASE o[i].rep = 0 /\ found # {}
  <2> DEFINE m == Min(found)
  <2>1. r = [links EXCEPT ![i].hdup = m, ![m].keep = TRUE]
    <3>1. r = [o EXCEPT ![i].hdup = m, ![m].keep = TRUE]
      BY <1>4 DEF HeaderRepeated
    <3>2. o = links
      BY <1>4
    <3> HIDE DEF m
    <3>3. QED
      BY <3>1, <3>2
  <2>2. m \in found /\ m \in 1 .. i - 1 /\ found = HeaderRepeats(i)
    <3>1. found = HeaderRepeats(i)
      BY <1>4
    <3> HIDE DEF found
    <3>2. QED
      BY <1>1, <1>2, <1>4, <3>1, FoundBefore
  <2> HIDE DEF m, found
  <2>3. /\ links[m].rep = 0 /\ links[m].hdup = 0
        /\ samerun(HdrOf(input, links[i]), HdrOf(input, links[m]))
    BY <2>2 DEF HeaderRepeats, hdrrun, runof, RunOf, HdrOf
  <2>4. m \in 1 .. Len(links) /\ m # i
    BY <1>1, <2>2
  <2>5. HeadersMarked(r, links, i, m)
    BY <1>1, <2>1, <2>4, HeadersAreMarked
  <2>6. Refs(r, input) /\ FreshFrom(r, i + 1)
    BY <1>1, <2>2, <2>3, <2>5, RefsAfterHeaders
  <2>7. QED
    BY <2>5, <2>6 DEF Referred, HeadersMarked
<1>5. QED
  BY <1>3, <1>4

(* The state before the first link.                                        *)
LEMMA FirstIs ==
  /\ First \in Ws /\ Grown(First.recl, First.recl, 1) /\ Grown(First.keepl, First.keepl, 1)
  /\ First.si = 1 /\ Before(First, Models.v, Models.h, <<>>, <<>>, 1)
<1>1. Models.v = [su |-> <<>>, cur |-> 0, age |-> 0] /\ Models.h = [last |-> 0, age |-> 0]
  BY DEF Models
<1>2. <<>> \in Seq(Setups) /\ Len(<<>>) = 0 /\ <<>> \in Seq(Nat)
  OBVIOUS
<1>3. Models.v \in Vs /\ Models.h \in Hs
  BY <1>1, <1>2 DEF Vs, Hs
<1>4. First \in Ws
  BY <1>2, <1>3 DEF First, Ws
<1>5. Grown(<<>>, <<>>, 1)
  BY <1>2 DEF Grown, Starts
<1>6. First.recl = <<>> /\ First.keepl = <<>> /\ First.si = 1
  BY DEF First
<1>7. QED
  BY <1>4, <1>5, <1>6 DEF First, Before

(* A history starts with nothing coded.                                    *)
LEMMA HistoryStarts ==
  ASSUME NEW in, NEW ls, Len(ls) \in Nat, Len(ls) >= 1, NEW solid,
         \A i \in 1 .. Len(ls) : ls[i].setup = 0
  PROVE  \E W : W[1] = First /\ History(W, 1, in, ls, <<>>, <<>>, solid)
<1> DEFINE W == [j \in {1} |-> First]
<1>1. W[1] = First
  OBVIOUS
<1> HIDE DEF W
<1>2. Reached(W[1], W[1], 1)
  BY <1>1, FirstIs DEF Reached
<1>3. First.v.su = <<>>
  BY DEF First, Models
<1>4. SetupsIn(W[1], ls, 1)
  BY <1>1, <1>3 DEF SetupsIn
<1>5. Lists(W[1], ls, 1)
  BY DEF Lists
<1>6. IsSeq(<< >>) /\ Len(<< >>) = 0
  <2>1. << >> \in Seq(Nat)
    OBVIOUS
  <2>2. IsSeq(<< >>)
    BY <2>1 DEF IsSeq
  <2>3. QED
    BY <2>2
<1>7. 1 \in 1 .. Len(ls) + 1
  OBVIOUS
<1>8. Before(W[1], Models.v, Models.h, <<>>, <<>>, 1) /\ W[1].si = 1
  BY <1>1, FirstIs
<1>9. History(W, 1, in, ls, <<>>, <<>>, solid)
  <2>1. \A j \in 1 .. 1 : Reached(W[j], W[1], j)
    BY <1>2
  <2>2. \A j \in 1 .. 1 - 1 : Stepped(W, W[1], j, in, ls, <<>>, <<>>, solid)
    OBVIOUS
  <2>3. Len(<< >>) = 1 - 1 /\ Len(<< >>) = W[1].si - 1
    BY <1>6, <1>8
  <2>4. QED
    BY <1>4, <1>5, <1>6, <1>7, <1>8, <2>1, <2>2, <2>3 DEF History
<1>10. QED
  BY <1>1, <1>9

(* Compare keeps the invariant.                                            *)
LEMMA CompareHolds == Held /\ Compare => Held'
<1> SUFFICES ASSUME Held, Compare PROVE Held'
  OBVIOUS
<1>1. /\ input' = input /\ opt' = opt /\ enc' = enc /\ dec' = dec /\ ctl' = ctl
      /\ streams' = streams /\ output' = output /\ phase = "compare"
      /\ links' = HeaderRepeated(WholeRepeated(links, at), at)
  BY DEF Compare
<1>2. input \in Files /\ opt \in Options /\ Comparing
  BY <1>1 DEF Held
<1>3. Untouched'
  BY <1>1, <1>2 DEF Comparing, Untouched, EncIs
<1>4. /\ Layout(links, input) /\ Refs(links, input) /\ FreshFrom(links, at)
      /\ at \in 1 .. Len(links) /\ \A i \in 1 .. Len(links) : links[i].setup = 0
  BY <1>2 DEF Comparing
<1> DEFINE o == WholeRepeated(links, at)
<1>5. Referred(o, at) /\ (o[at].rep = 0 => o = links)
  BY <1>4, WholeRefers
<1> HIDE DEF o
<1>6. Referred(links', at)
  <2>1. links' = HeaderRepeated(o, at)
    BY <1>1 DEF o
  <2>2. QED
    BY <1>4, <1>5, <2>1, HeadersRefer
<1>7. Layout(links', input) /\ Len(links') = Len(links) /\ Len(links) \in Nat
  <2>1. SameSpans(links', links)
    BY <1>6 DEF Referred
  <2>2. Layout(links', input)
    BY <1>4, <2>1, LaidStill
  <2>3. Len(links') = Len(links)
    BY <2>1 DEF SameSpans
  <2>4. Len(links) \in Nat
    BY <1>4 DEF Layout
  <2>5. QED
    BY <2>2, <2>3, <2>4
<1>8. Refs(links', input) /\ FreshFrom(links', at + 1) /\ \A i \in 1 .. Len(links') : links'[i].setup = 0
  BY <1>4, <1>6, <1>7 DEF Referred
<1>9. CASE at < Len(links)
  <2>1. at' = at + 1 /\ phase' = "compare"
    BY <1>1, <1>9 DEF Compare
  <2>2. at' \in 1 .. Len(links')
    BY <1>4, <1>7, <1>9, <2>1
  <2>3. Comparing'
    BY <1>1, <1>3, <1>7, <1>8, <2>1, <2>2 DEF Comparing
  <2>4. QED
    BY <1>1, <1>2, <2>1, <2>3 DEF Held
<1>10. CASE ~(at < Len(links))
  <2>1. at' = 1 /\ phase' = "encode"
    BY <1>1, <1>10 DEF Compare
  <2>2. at' \in 1 .. Len(links') /\ Len(links') >= 1
    BY <1>4, <1>7, <2>1
  <2>3. PICK W : W[1] = First /\ History(W, 1, input, links', <<>>, <<>>, opt.solid)
    BY <1>7, <1>8, <2>2, HistoryStarts
  <2>4. ctl' = <<>> /\ streams' = <<>> /\ output' = <<>> /\ EncIs(First)'
        /\ dec' = [v |-> Models.v, h |-> Models.h, si |-> 1, rec |-> <<>>, keep |-> <<>>]
    BY <1>3 DEF Untouched
  <2>5. History(W, at', input', links', ctl', streams', opt'.solid) /\ EncIs(W[at])'
    <3>1. EncIs(W[at])' <=> enc' = [v |-> W[at'].v, h |-> W[at'].h, recl |-> W[at'].recl, keepl |-> W[at'].keepl]
      BY DEF EncIs
    <3>2. enc' = [v |-> First.v, h |-> First.h, recl |-> First.recl, keepl |-> First.keepl]
      BY <2>4 DEF EncIs
    <3>3. QED
      BY <1>1, <2>1, <2>3, <2>4, <3>1, <3>2
  <2>6. (\E X : History(X, at, input, links, ctl, streams, opt.solid) /\ EncIs(X[at]))'
    BY <2>5
  <2>7. Encoding'
    BY <1>1, <1>7, <1>8, <2>2, <2>4, <2>6 DEF Encoding
  <2>8. QED
    BY <1>1, <1>2, <2>1, <2>7 DEF Held
<1>11. QED
  BY <1>9, <1>10

(* Once a link is coded, the next one is, or decoding begins.              *)
LEMMA StepsOn ==
  ASSUME input \in Files, opt \in Options, input' = input, opt' = opt, dec' = dec, output' = output,
         output = <<>>, dec = [v |-> Models.v, h |-> Models.h, si |-> 1, rec |-> << >>, keep |-> << >>],
         at \in 1 .. Len(links), Layout(links', input), Refs(links', input), Len(links') = Len(links),
         phase = "encode", Step, NEW X, NEW w, w = X[at + 1],
         History(X, at + 1, input, links', ctl', streams', opt.solid),
         enc' = [v |-> w.v, h |-> w.h, recl |-> w.recl, keepl |-> w.keepl]
  PROVE  Held'
<1>1. Len(links) \in Nat
  BY DEF Layout
<1>2. CASE at < Len(links)
  <2>1. at' = at + 1 /\ phase' = "encode" /\ at' \in 1 .. Len(links')
    BY <1>1, <1>2 DEF Step
  <2>2. History(X, at', input', links', ctl', streams', opt'.solid)
    BY <2>1
  <2>3. enc' = [v |-> X[at'].v, h |-> X[at'].h, recl |-> X[at'].recl, keepl |-> X[at'].keepl]
    BY <2>1
  <2>4. (\E W : History(W, at, input, links, ctl, streams, opt.solid) /\ EncIs(W[at]))'
    BY <2>2, <2>3 DEF EncIs
  <2>5. Encoding'
    BY <2>1, <2>4 DEF Encoding
  <2>6. QED
    BY <2>1, <2>5 DEF Held
<1>3. CASE ~(at < Len(links))
  <2>1. at' = 1 /\ phase' = "decode" /\ at = Len(links')
    BY <1>1, <1>3 DEF Step
  <2>2. History(X, Len(links') + 1, input, links', ctl', streams', opt.solid)
    BY <2>1
  <2>3. enc' = [v |-> X[Len(links') + 1].v, h |-> X[Len(links') + 1].h,
                recl |-> X[Len(links') + 1].recl, keepl |-> X[Len(links') + 1].keepl]
    BY <2>1
  <2>4. X[1] = [v |-> Models.v, h |-> Models.h, recl |-> <<>>, keepl |-> <<>>, si |-> 1]
    BY <2>2 DEF History, Before
  <2>5. DecIs(dec', X[1], input, links')
    <3>1. <<>> \in Seq(Nat) /\ Len(<<>>) = 0
      OBVIOUS
    <3>2. RecsAre(<<>>, <<>>, links') /\ KeepsAre(<<>>, <<>>, links', input)
      BY <3>1 DEF RecsAre, KeepsAre, IsSeq
    <3>3. X[1].recl = <<>> /\ X[1].keepl = <<>> /\ X[1].v = Models.v /\ X[1].h = Models.h /\ X[1].si = 1
      BY <2>4
    <3>4. dec'.rec = <<>> /\ dec'.keep = <<>>
      OBVIOUS
    <3>5. QED
      BY <3>2, <3>3, <3>4 DEF DecIs
  <2>6. WrittenIs(output', input, links', 1)
    <3>1. output' = <<>> /\ <<>> \in Seq(Pages) /\ Len(<<>>) = 0
      OBVIOUS
    <3>2. links'[1].a = 1 /\ 1 <= Len(links')
      BY <1>1 DEF Layout
    <3>3. QED
      BY <3>1, <3>2 DEF WrittenIs
  <2>7. at' \in 1 .. Len(links') + 1
    BY <1>1, <2>1
  <2>8. (\E W : /\ History(W, Len(links) + 1, input, links, ctl, streams, opt.solid)
                /\ EncIs(W[Len(links) + 1]) /\ DecIs(dec, W[at], input, links))'
    <3> DEFINE Y == X
    <3> HIDE DEF Y
    <3>1. /\ History(Y, Len(links') + 1, input', links', ctl', streams', opt'.solid)
          /\ enc' = [v |-> Y[Len(links') + 1].v, h |-> Y[Len(links') + 1].h,
                     recl |-> Y[Len(links') + 1].recl, keepl |-> Y[Len(links') + 1].keepl]
          /\ DecIs(dec', Y[at'], input', links')
      BY <2>1, <2>2, <2>3, <2>5 DEF Y
    <3>2. QED
      BY <3>1 DEF EncIs
  <2>9. Decoding'
    BY <2>1, <2>6, <2>7, <2>8 DEF Decoding
  <2>10. QED
    BY <2>1, <2>9 DEF Held
<1>4. QED
  BY <1>2, <1>3

(* EncodeReplay keeps the invariant: the link it refers to is on the list. *)
LEMMA EncodeReplayHolds == Held /\ EncodeReplay => Held'
<1> SUFFICES ASSUME Held, EncodeReplay PROVE Held'
  OBVIOUS
<1> DEFINE l == links[at]
<1>1. phase = "encode" /\ l.rep # 0
  BY DEF EncodeReplay
<1>2. input \in Files /\ opt \in Options /\ Encoding
  BY <1>1 DEF Held
<1>3. /\ Layout(links, input) /\ Refs(links, input) /\ at \in 1 .. Len(links) /\ output = <<>>
      /\ dec = [v |-> Models.v, h |-> Models.h, si |-> 1, rec |-> <<>>, keep |-> <<>>]
  BY <1>2 DEF Encoding
<1>4. PICK W : History(W, at, input, links, ctl, streams, opt.solid) /\ EncIs(W[at])
  BY <1>2 DEF Encoding
<1> DEFINE w == W[at]
<1>5. Len(links) \in Nat /\ links \in Seq(LinkType) /\ l \in LinkType
  BY <1>3 DEF Layout
<1>6. w \in Ws /\ Lists(w, links, at) /\ SetupsIn(w, links, at)
  BY <1>3, <1>4, <1>5 DEF History, Reached
<1>7. l.rep \in 1 .. at - 1 /\ links[l.rep].rep = 0 /\ links[l.rep].rec
  BY <1>1, <1>3 DEF Refs, RefIs
<1>8. OnList(w.recl, l.rep)
  BY <1>6, <1>7 DEF Lists
<1>9. enc.recl = w.recl /\ enc.h = w.h /\ enc.v = w.v /\ enc.keepl = w.keepl
  BY <1>4 DEF EncIs
<1>10. w.recl \in Seq(Nat) /\ Len(w.recl) \in Nat
  BY <1>6 DEF Ws
<1>11. Contains(enc.recl, l.rep)
  BY <1>8, <1>9 DEF OnList, Contains
<1> DEFINE p == Position(enc.recl, l.rep)
           e == [rep |-> TRUE, back |-> Len(w.recl) - p, serial |-> PutSerial(w.h, l.serial)]
<1>12. p \in 1 .. Len(w.recl) /\ w.recl[p] = l.rep
  <2>1. DOMAIN w.recl = 1 .. Len(w.recl)
    BY <1>10
  <2>2. \E j \in DOMAIN w.recl : w.recl[j] = l.rep
    BY <1>8, <2>1 DEF OnList
  <2>3. p \in DOMAIN w.recl /\ w.recl[p] = l.rep
    BY <1>9, <2>2 DEF Position
  <2>4. QED
    BY <2>1, <2>3
<1>13. ctl' = Append(ctl, e) /\ enc' = [enc EXCEPT !.h = SerialSeen(@, l.serial)] /\ Step
  <2>1. /\ ctl' = Append(ctl, [rep |-> TRUE, back |-> Back(enc.recl, l.rep),
                               serial |-> PutSerial(enc.h, l.serial)])
        /\ enc' = [enc EXCEPT !.h = SerialSeen(@, l.serial)] /\ Step
    BY <1>11 DEF EncodeReplay
  <2>2. QED
    BY <1>9, <2>1 DEF Back
<1>14. /\ input' = input /\ opt' = opt /\ links' = links /\ dec' = dec /\ streams' = streams
       /\ output' = output
  BY DEF EncodeReplay
<1> HIDE DEF p, e
<1> DEFINE x == [v |-> w.v, h |-> SerialSeen(w.h, l.serial), recl |-> w.recl, keepl |-> w.keepl, si |-> w.si]
<1>15. ReplayStep(w, x, l, e)
  BY <1>12 DEF ReplayStep, Before, e
<1>16. x \in Ws
  <2>1. w.v \in Vs /\ w.h \in Hs /\ w.recl \in Seq(Nat) /\ w.keepl \in Seq(Nat) /\ w.si \in Nat
    BY <1>6 DEF Ws
  <2> DEFINE g == SerialSeen(w.h, l.serial)
  <2>2. g \in Hs
    <3>1. w.h.age \in Nat /\ l.serial \in Int
      BY <1>5, <2>1 DEF Hs, LinkType
    <3>2. g = [last |-> l.serial, age |-> w.h.age + 1]
      BY DEF SerialSeen
    <3>3. QED
      BY <3>1, <3>2 DEF Hs
  <2> HIDE DEF g
  <2>3. x = [v |-> w.v, h |-> g, recl |-> w.recl, keepl |-> w.keepl, si |-> w.si]
    BY DEF g
  <2>4. QED
    BY <2>1, <2>2, <2>3 DEF Ws
<1>17. IsSeq(ctl) /\ Len(ctl) = at - 1 /\ IsSeq(streams) /\ Len(streams) = w.si - 1
  BY <1>4 DEF History
<1>18. IsSeq(ctl') /\ IsLonger(ctl', ctl, e)
  BY <1>13, <1>17, AppendedAny
<1>19. Advances(w, x, at, input, links, links, ctl, ctl', streams, streams, opt.solid)
  <2> DEFINE c2 == ctl'
  <2>1. Len(c2) = at /\ c2[at] = e /\ \A j \in 1 .. at - 1 : c2[j] = ctl[j]
    BY <1>3, <1>5, <1>17, <1>18 DEF IsLonger
  <2>2. IsSeq(c2)
    BY <1>18
  <2> HIDE DEF c2
  <2>3. EncStep(w, x, at, input, links, c2, streams, opt.solid)
    BY <1>1, <1>15, <2>1 DEF EncStep
  <2>4. x.recl = w.recl /\ x.keepl = w.keepl /\ x.si = w.si /\ x.v = w.v
    OBVIOUS
  <2>5. links[at].setup <= Len(w.v.su)
    BY <1>3, <1>6 DEF SetupsIn
  <2>6. ~(links[at].rep = 0)
    BY <1>1
  <2>7. Len(w.v.su) <= Len(x.v.su)
    BY <1>6 DEF Ws, Vs
  <2> HIDE DEF x, w, l
  <2>8. Advances(w, x, at, input, links, links, ctl, c2, streams, streams, opt.solid)
    BY <1>16, <1>17, <2>1, <2>2, <2>3, <2>4, <2>5, <2>6, <2>7 DEF Advances, Listed
  <2>9. QED
    BY <2>8 DEF c2
<1> HIDE DEF x
<1>20. PICK X : X[at + 1] = x /\ History(X, at + 1, input, links, ctl', streams, opt.solid)
  <2>1. at <= Len(links)
    BY <1>3
  <2>2. at = 1 => links[1].rep = 0
    BY <1>5, <1>7
  <2>3. History(W, at, input, links, ctl, streams, opt.solid) /\ Refs(links, input)
    BY <1>3, <1>4
  <2>4. Advances(W[at], x, at, input, links, links, ctl, ctl', streams, streams, opt.solid)
    BY <1>19
  <2>5. links \in Seq(LinkType)
    BY <1>5
  <2> HIDE DEF l, w
  <2>6. Goes(x, at, input, links, ctl', streams, opt.solid)
    BY <2>1, <2>2, <2>3, <2>4, <2>5, HistoryGrows
  <2>7. QED
    BY <2>6 DEF Goes
<1>21. enc' = [v |-> x.v, h |-> x.h, recl |-> x.recl, keepl |-> x.keepl]
  <2>1. enc = [v |-> w.v, h |-> w.h, recl |-> w.recl, keepl |-> w.keepl]
    BY <1>4 DEF EncIs
  <2>2. QED
    BY <1>13, <2>1 DEF x
<1>22. QED
  BY <1>1, <1>2, <1>3, <1>13, <1>14, <1>20, <1>21, StepsOn

(* A link's setup does not count for what refers to it.                    *)
SameMarks(r, ls) ==
  \A k \in 1 .. Len(ls) : /\ r[k].rep = ls[k].rep /\ r[k].hdup = ls[k].hdup
                          /\ (r[k].rec <=> ls[k].rec) /\ (r[k].keep <=> ls[k].keep)

(* Links that refer alike refer to the same pages.                         *)
LEMMA RefsStill ==
  ASSUME NEW in, NEW ls, Len(ls) \in Nat, Refs(ls, in), NEW r, SameSpans(r, ls), SameMarks(r, ls)
  PROVE  Refs(r, in)
<1>1. ASSUME NEW i \in 1 .. Len(ls) PROVE RefIs(r, in, i)
  <2> DEFINE l == ls[i]
             q == r[i]
  <2>1. /\ q.rep = l.rep /\ q.hdup = l.hdup /\ (q.keep <=> l.keep) /\ q.a = l.a /\ q.z = l.z
    BY <1>1 DEF SameSpans, SameMarks
  <2>2. RefIs(ls, in, i)
    BY <1>1 DEF Refs
  <2>3. RunOf(in, q) = RunOf(in, l) /\ HdrOf(in, q) = HdrOf(in, l)
    BY <2>1 DEF RunOf, HdrOf
  <2>4. CASE q.rep # 0
    <3>1. /\ l.rep \in 1 .. i - 1 /\ l.hdup = 0 /\ ls[l.rep].rep = 0 /\ ls[l.rep].rec
          /\ samerun(RunOf(in, l), RunOf(in, ls[l.rep]))
      BY <2>1, <2>2, <2>4 DEF RefIs
    <3>2. l.rep \in 1 .. Len(ls)
      BY <1>1, <3>1
    <3>3. /\ r[l.rep].rep = 0 /\ r[l.rep].rec /\ r[l.rep].a = ls[l.rep].a /\ r[l.rep].z = ls[l.rep].z
      BY <3>1, <3>2 DEF SameSpans, SameMarks
    <3>4. RunOf(in, r[l.rep]) = RunOf(in, ls[l.rep])
      BY <3>3 DEF RunOf
    <3> HIDE DEF l, q
    <3>5. RefIs(r, in, i)
      BY <2>1, <2>3, <3>1, <3>3, <3>4 DEF RefIs, q
    <3>6. QED
      BY <3>5
  <2>5. CASE q.rep = 0 /\ q.hdup # 0
    <3>1. /\ l.hdup \in 1 .. i - 1 /\ ls[l.hdup].rep = 0 /\ ls[l.hdup].hdup = 0
          /\ ls[l.hdup].keep /\ ~l.keep
          /\ samerun(HdrOf(in, l), HdrOf(in, ls[l.hdup]))
      BY <2>1, <2>2, <2>5 DEF RefIs
    <3>2. l.hdup \in 1 .. Len(ls)
      BY <1>1, <3>1
    <3>3. /\ r[l.hdup].rep = 0 /\ r[l.hdup].hdup = 0 /\ r[l.hdup].keep
          /\ r[l.hdup].a = ls[l.hdup].a /\ r[l.hdup].z = ls[l.hdup].z
      BY <3>1, <3>2 DEF SameSpans, SameMarks
    <3>4. HdrOf(in, r[l.hdup]) = HdrOf(in, ls[l.hdup])
      BY <3>3 DEF RunOf, HdrOf
    <3> HIDE DEF l, q
    <3>5. RefIs(r, in, i)
      BY <2>1, <2>3, <2>5, <3>1, <3>3, <3>4 DEF RefIs, q
    <3>6. QED
      BY <3>5
  <2>6. CASE q.rep = 0 /\ q.hdup = 0
    BY <2>6 DEF RefIs
  <2>7. QED
    BY <2>4, <2>5, <2>6
<1>2. Len(r) = Len(ls)
  BY DEF SameSpans
<1>3. QED
  BY <1>1, <1>2 DEF Refs

(* What coding a link comes to.                                            *)
SetupAfter(c, v, setup) == IF Len(c.v.su) > Len(v.su) THEN Len(c.v.su) ELSE setup

EntryOf(l, keepl) ==
  [rep |-> FALSE, rec |-> l.rec, dup |-> l.hdup # 0,
   back |-> IF l.hdup # 0 THEN Back(keepl, l.hdup) ELSE 0, keep |-> l.keep, pages |-> PagesOf(l)]

CodedState(c, w, l, n) ==
  [v |-> c.v, h |-> c.h, recl |-> Listed(w.recl, l.rec, n), keepl |-> Listed(w.keepl, l.keep, n),
   si |-> w.si + 1]

(* A list stays one.                                                       *)
LEMMA ListedIs ==
  ASSUME NEW b \in Seq(Nat), NEW n \in Nat, NEW mark \in BOOLEAN
  PROVE  Listed(b, mark, n) \in Seq(Nat)
<1>1. Append(b, n) \in Seq(Nat)
  BY Appended
<1>2. QED
  BY <1>1 DEF Listed

CodedWell(c, w, x, n, q, setup, e, y, solid) ==
  /\ q \in LinkType /\ q.setup <= Len(c.v.su) /\ Len(w.v.su) <= Len(c.v.su)
  /\ x \in Ws /\ LinkStep(w, x, n, q, setup, input, e, y, solid)

(* What a link comes to that enc_link codes without a fault.               *)
LEMMA LinkIsCoded ==
  ASSUME input \in Seq(Pages), NEW n \in Nat, NEW l \in LinkType, SpanIs(l, input), NEW w \in Ws,
         NEW setup \in Nat, setup <= Len(w.v.su), NEW solid \in BOOLEAN,
         l.hdup # 0 => OnList(w.keepl, l.hdup),
         NEW c, c = enc_link([v |-> w.v, h |-> w.h], l, ~solid /\ n > 1, setup), c.ok,
         NEW q, q = [l EXCEPT !.setup = SetupAfter(c, w.v, setup)]
  PROVE  CodedWell(c, w, CodedState(c, w, l, n), n, q, setup, EntryOf(l, w.keepl),
                   [heads |-> c.heads, bulk |-> c.bulk], solid)
<1> DEFINE again == ~solid /\ n > 1
           run == RunOf(input, l)
           s == SkipsOf(input, l)
           b == Coder(LinkModels([v |-> w.v, h |-> w.h], again, setup), TRUE)
           x == CodedState(c, w, l, n)
           e == EntryOf(l, w.keepl)
           y == [heads |-> c.heads, bulk |-> c.bulk]
<1>1. /\ w.v \in Vs /\ w.h \in Hs /\ again \in BOOLEAN /\ w.recl \in Seq(Nat) /\ w.keepl \in Seq(Nat)
      /\ w.si \in Nat /\ Len(w.v.su) \in Nat
  BY DEF Ws, Vs
<1> HIDE DEF again
<1>2. PICK C : Coded(C, run, s, b, c)
  BY <1>1, LinkEncodes DEF again
<1>3. C[0] = b /\ C[Len(run)] = c /\ RunCoded(C, run, s)
  BY <1>2 DEF Coded
<1>4. b \in Coders /\ b.v.su = w.v.su
  <2>1. b = Coder(LinkModels([v |-> w.v, h |-> w.h], again, setup), TRUE)
    OBVIOUS
  <2> DEFINE v == w.v
             h == w.h
  <2>2. v \in Vs /\ h \in Hs /\ setup <= Len(v.su)
    BY <1>1
  <2>3. b = Coder(LinkModels([v |-> v, h |-> h], again, setup), TRUE)
    BY <2>1
  <2> HIDE DEF b, v, h
  <2>4. ModelsFit(b, v)
    BY <1>1, <2>2, <2>3, ModelsAre
  <2>5. QED
    BY <2>4 DEF ModelsFit, v
<1>5. b.heads = <<>>
  BY DEF Coder
<1> HIDE DEF b
<1>6. run \in Seq(Pages) /\ Len(run) \in Nat
  BY LinkPages DEF SpanIs, IsPart
<1> HIDE DEF run, s
<1>7. c \in Coders /\ Len(w.v.su) <= Len(c.v.su)
  <2>1. Len(run) \in 0 .. Len(run) /\ 0 \in 0 .. Len(run)
    BY <1>6
  <2>2. C[Len(run)] \in Coders
    BY <1>3, <2>1 DEF RunCoded
  <2>3. C[0].heads = <<>>
    BY <1>3, <1>5
  <2>4. \A i \in 0 .. Len(run) : PageGrown(C[i], C[Len(run)])
    BY <1>3, <1>6, <2>1, <2>3, RunGrows
  <2>5. PageGrown(C[0], C[Len(run)])
    BY <2>1, <2>4
  <2>6. Len(C[0].v.su) <= Len(C[Len(run)].v.su)
    BY <2>5 DEF PageGrown
  <2>7. QED
    BY <1>3, <1>4, <2>2, <2>6
<1>8. c.v \in Vs /\ c.h \in Hs /\ Len(c.v.su) \in Nat
  BY <1>7 DEF Coders, Vs
<1>9. SetupAfter(c, w.v, setup) \in Nat /\ SetupAfter(c, w.v, setup) <= Len(c.v.su)
  BY <1>1, <1>7, <1>8 DEF SetupAfter
<1> DEFINE ns == SetupAfter(c, w.v, setup)
<1> HIDE DEF ns
<1>10. /\ q \in LinkType /\ q.setup = ns /\ q.a = l.a /\ q.z = l.z /\ q.hdup = l.hdup
       /\ q.rec = l.rec /\ q.keep = l.keep
  BY <1>9 DEF LinkType, ns
<1>11. l.rec \in BOOLEAN /\ l.keep \in BOOLEAN /\ l.hdup \in Nat
  BY DEF LinkType
<1>12. x \in Ws
  <2> DEFINE f == Listed(w.recl, l.rec, n)
             g == Listed(w.keepl, l.keep, n)
  <2>1. f \in Seq(Nat) /\ g \in Seq(Nat)
    BY <1>1, <1>11, ListedIs
  <2>2. x = [v |-> c.v, h |-> c.h, recl |-> f, keepl |-> g, si |-> w.si + 1]
    BY DEF CodedState
  <2> HIDE DEF f, g, x
  <2>3. QED
    BY <1>1, <1>8, <2>1, <2>2 DEF Ws
<1>13. RunOf(input, q) = run /\ SkipsOf(input, q) = s
  <2>1. RunOf(input, q) = RunOf(input, l)
    BY <1>10 DEF RunOf
  <2>2. HdrOf(input, q) = HdrOf(input, l)
    BY <2>1 DEF HdrOf
  <2>3. SkipsOf(input, q) = SkipsOf(input, l)
    BY <1>10, <2>2 DEF SkipsOf
  <2>4. QED
    BY <2>1, <2>3 DEF run, s
<1>14. CodedTo(C, w, x, n, q, setup, run, s, e, y, solid)
  <2> DEFINE p == IF l.hdup # 0 THEN Position(w.keepl, l.hdup) ELSE 0
  <2>1. p \in Nat /\ (q.hdup # 0 => p \in 1 .. Len(w.keepl) /\ w.keepl[p] = q.hdup)
    <3>1. CASE l.hdup = 0
      BY <1>10, <3>1
    <3>2. CASE l.hdup # 0
      <4>1. DOMAIN w.keepl = 1 .. Len(w.keepl)
        BY <1>1
      <4>2. \E j \in DOMAIN w.keepl : w.keepl[j] = l.hdup
        BY <3>2, <4>1 DEF OnList
      <4>3. p \in DOMAIN w.keepl /\ w.keepl[p] = l.hdup
        BY <3>2, <4>2 DEF Position
      <4> HIDE DEF p
      <4>4. QED
        BY <1>10, <4>1, <4>3
    <3>3. QED
      BY <3>1, <3>2
  <2>2. PagesOf(l) = Len(run) - s
    BY PagesAre DEF run, s
  <2>3. e = [rep |-> FALSE, rec |-> q.rec, dup |-> q.hdup # 0,
             back |-> IF q.hdup # 0 THEN Len(w.keepl) - p ELSE 0, keep |-> q.keep,
             pages |-> Len(run) - s]
    BY <1>10, <2>2 DEF EntryOf, Back
  <2>4. Before(x, c.v, c.h, Listed(w.recl, q.rec, n), Listed(w.keepl, q.keep, n), w.si + 1)
    BY <1>10 DEF Before, CodedState
  <2>5. C[0] = Coder(LinkModels([v |-> w.v, h |-> w.h], ~solid /\ n > 1, setup), TRUE)
    BY <1>3 DEF b, again
  <2>6. q.setup = IF Len(c.v.su) > Len(w.v.su) THEN Len(c.v.su) ELSE setup
    BY <1>10 DEF ns, SetupAfter
  <2> HIDE DEF x, e, y, p
  <2>7. \E i \in Nat :
           /\ q.hdup # 0 => i \in 1 .. Len(w.keepl) /\ w.keepl[i] = q.hdup
           /\ e = [rep |-> FALSE, rec |-> q.rec, dup |-> q.hdup # 0,
                   back |-> IF q.hdup # 0 THEN Len(w.keepl) - i ELSE 0, keep |-> q.keep,
                   pages |-> Len(run) - s]
    BY <2>1, <2>3
  <2>8. y = [heads |-> c.heads, bulk |-> c.bulk]
    BY DEF y
  <2>9. QED
    BY <1>3, <2>4, <2>5, <2>6, <2>7, <2>8 DEF CodedTo
<1>15. LinkStep(w, x, n, q, setup, input, e, y, solid)
  BY <1>13, <1>14 DEF LinkStep
<1>16. q.setup <= Len(c.v.su)
  BY <1>9, <1>10 DEF ns
<1> HIDE DEF x, e, y
<1>17. CodedWell(c, w, x, n, q, setup, e, y, solid)
  BY <1>7, <1>10, <1>12, <1>15, <1>16 DEF CodedWell
<1>18. QED
  BY <1>17 DEF x, e, y

(* EncodeLink keeps the invariant, whether the link is coded or refused.   *)
LEMMA EncodeLinkHolds == Held /\ EncodeLink => Held'
<1> SUFFICES ASSUME Held, EncodeLink PROVE Held'
  OBVIOUS
<1> DEFINE l == links[at]
           setup == IF l.hdup # 0 THEN links[l.hdup].setup ELSE 0
           c == enc_link([v |-> enc.v, h |-> enc.h], l, ~opt.solid /\ at > 1, setup)
<1>1. phase = "encode" /\ l.rep = 0
  BY DEF EncodeLink
<1>2. input \in Files /\ opt \in Options /\ Encoding
  BY <1>1 DEF Held
<1>3. /\ Layout(links, input) /\ Refs(links, input) /\ at \in 1 .. Len(links) /\ output = <<>>
      /\ dec = [v |-> Models.v, h |-> Models.h, si |-> 1, rec |-> <<>>, keep |-> <<>>]
  BY <1>2 DEF Encoding
<1>4. PICK W : History(W, at, input, links, ctl, streams, opt.solid) /\ EncIs(W[at])
  BY <1>2 DEF Encoding
<1> DEFINE w == W[at]
<1>5. /\ Len(links) \in Nat /\ links \in Seq(LinkType) /\ l \in LinkType /\ SpanIs(l, input)
      /\ input \in Seq(Pages) /\ at \in Nat /\ opt.solid \in BOOLEAN
  BY <1>3, InputIs DEF Layout
<1>6. w \in Ws /\ Lists(w, links, at) /\ SetupsIn(w, links, at)
  BY <1>3, <1>4, <1>5 DEF History, Reached
<1>7. l.hdup # 0 => /\ l.hdup \in 1 .. at - 1 /\ links[l.hdup].rep = 0 /\ links[l.hdup].keep
  BY <1>3 DEF Refs, RefIs
<1>8. l.hdup # 0 => OnList(w.keepl, l.hdup)
  BY <1>6, <1>7 DEF Lists
<1>9. enc.recl = w.recl /\ enc.h = w.h /\ enc.v = w.v /\ enc.keepl = w.keepl
  BY <1>4 DEF EncIs
<1>10. l.hdup # 0 => Contains(enc.keepl, l.hdup)
  BY <1>8, <1>9 DEF OnList, Contains
<1>11. setup \in Nat /\ setup <= Len(w.v.su) /\ setup = SetupOf(links, l)
  <2>1. CASE l.hdup = 0
    <3>1. setup = 0
      BY <2>1
    <3>2. Len(w.v.su) \in Nat
      BY <1>6 DEF Ws, Vs
    <3>3. QED
      BY <2>1, <3>1, <3>2 DEF SetupOf
  <2>2. CASE l.hdup # 0
    <3>1. l.hdup \in 1 .. Len(links)
      BY <1>3, <1>5, <1>7, <2>2
    <3>2. links[l.hdup] \in LinkType
      BY <1>5, <3>1
    <3>3. setup = links[l.hdup].setup
      BY <2>2
    <3>4. links[l.hdup].setup <= Len(w.v.su)
      BY <1>6, <3>1 DEF SetupsIn
    <3>5. QED
      BY <2>2, <3>2, <3>3, <3>4 DEF SetupOf, LinkType
  <2>3. QED
    BY <2>1, <2>2
<1> HIDE DEF setup
<1>12. c = enc_link([v |-> w.v, h |-> w.h], l, ~opt.solid /\ at > 1, setup)
  BY <1>9
<1>13. /\ input' = input /\ opt' = opt /\ dec' = dec /\ output' = output
  BY DEF EncodeLink
<1>14. CASE ~c.ok
  <2>1. phase' = "refused" /\ UNCHANGED <<links, at, enc, ctl, streams>>
    BY <1>10, <1>14 DEF EncodeLink, setup
  <2>2. /\ input' = input /\ opt' = opt /\ dec' = dec /\ output' = output /\ links' = links /\ at' = at
        /\ enc' = enc /\ ctl' = ctl /\ streams' = streams
    BY <1>13, <2>1
  <2>3. Encoding'
    <3>1. (\E X : History(X, at, input, links, ctl, streams, opt.solid) /\ EncIs(X[at]))'
      <4>1. History(W, at', input', links', ctl', streams', opt'.solid)
        BY <1>4, <2>2
      <4>2. enc' = [v |-> W[at'].v, h |-> W[at'].h, recl |-> W[at'].recl, keepl |-> W[at'].keepl]
        BY <1>4, <2>2 DEF EncIs
      <4>3. QED
        BY <4>1, <4>2 DEF EncIs
    <3>2. QED
      BY <1>3, <2>2, <3>1 DEF Encoding
  <2>4. QED
    BY <1>2, <1>13, <2>1, <2>3 DEF Held
<1>15. CASE c.ok
  <2> DEFINE ns == SetupAfter(c, w.v, setup)
             q == [l EXCEPT !.setup = ns]
             x == CodedState(c, w, l, at)
             e == EntryOf(l, w.keepl)
             y == [heads |-> c.heads, bulk |-> c.bulk]
  <2>1. /\ ctl' = Append(ctl, e) /\ streams' = Append(streams, y)
        /\ links' = [links EXCEPT ![at].setup = ns]
        /\ enc' = [v |-> c.v, h |-> c.h, recl |-> Listed(w.recl, l.rec, at),
                   keepl |-> Listed(w.keepl, l.keep, at)]
        /\ Step
    <3>1. /\ ctl' = Append(ctl, [rep |-> FALSE, rec |-> l.rec, dup |-> l.hdup # 0,
                                  back |-> IF l.hdup # 0 THEN Back(enc.keepl, l.hdup) ELSE 0,
                                  keep |-> l.keep, pages |-> PagesOf(l)])
          /\ streams' = Append(streams, [heads |-> c.heads, bulk |-> c.bulk])
          /\ links' = [links EXCEPT ![at].setup =
                          IF Len(c.v.su) > Len(enc.v.su) THEN Len(c.v.su) ELSE setup]
          /\ enc' = [v |-> c.v, h |-> c.h,
                      recl |-> IF l.rec THEN Append(enc.recl, at) ELSE enc.recl,
                      keepl |-> IF l.keep THEN Append(enc.keepl, at) ELSE enc.keepl]
          /\ Step
      BY <1>10, <1>15 DEF EncodeLink, setup
    <3> HIDE DEF c
    <3>2. QED
      BY <1>9, <3>1 DEF Listed, EntryOf, SetupAfter
  <2> HIDE DEF l, c, ns
  <2>2. /\ q \in LinkType /\ q.setup <= Len(c.v.su) /\ Len(w.v.su) <= Len(c.v.su)
        /\ x \in Ws /\ LinkStep(w, x, at, q, setup, input, e, y, opt.solid)
    <3> HIDE DEF w
    <3>1. q = [l EXCEPT !.setup = SetupAfter(c, w.v, setup)]
      BY DEF ns
    <3> HIDE DEF q
    <3>2. CodedWell(c, w, CodedState(c, w, l, at), at, q, setup, EntryOf(l, w.keepl),
                    [heads |-> c.heads, bulk |-> c.bulk], opt.solid)
      BY <1>5, <1>6, <1>8, <1>11, <1>12, <1>15, <3>1, LinkIsCoded
    <3>3. QED
      BY <3>2 DEF CodedWell
  <2>3. links' = [links EXCEPT ![at] = q]
    BY <2>1, <1>5 DEF l
  <2>4. Replaced(links', links, at, q)
    BY <1>3, <1>5, <2>2, <2>3, ReplacedIs
  <2>5. /\ q.a = l.a /\ q.z = l.z /\ q.serial = l.serial /\ q.rep = l.rep /\ q.hdup = l.hdup
        /\ q.rec = l.rec /\ q.keep = l.keep /\ q.setup = ns
    BY <1>5 DEF LinkType
  <2> HIDE DEF q, x, e, y
  <2>6. SameSpans(links', links) /\ SameMarks(links', links)
    BY <2>4, <2>5 DEF SameSpans, SameMarks, Replaced, l
  <2>7. Layout(links', input) /\ Refs(links', input) /\ Len(links') = Len(links)
    <3>1. Layout(links', input)
      BY <1>3, <2>6, LaidStill
    <3>2. Refs(links', input)
      BY <1>3, <1>5, <2>6, RefsStill
    <3>3. QED
      BY <3>1, <3>2, <2>6 DEF SameSpans
  <2>8. links'[at] = q /\ \A k \in 1 .. Len(links) : k # at => links'[k] = links[k]
    BY <1>3, <2>4 DEF Replaced
  <2>9. IsSeq(ctl) /\ Len(ctl) = at - 1 /\ IsSeq(streams) /\ Len(streams) = w.si - 1
    BY <1>4 DEF History
  <2>10. IsSeq(ctl') /\ IsLonger(ctl', ctl, e) /\ IsSeq(streams') /\ IsLonger(streams', streams, y)
    BY <2>1, <2>9, AppendedAny
  <2>11. w.si \in Nat
    BY <1>6 DEF Ws
  <2>12. SetupOf(links', q) = setup
    <3>1. CASE l.hdup = 0
      BY <1>11, <2>5, <3>1 DEF SetupOf
    <3>2. CASE l.hdup # 0
      <4>1. l.hdup \in 1 .. Len(links) /\ l.hdup # at
        BY <1>3, <1>5, <1>7, <3>2
      <4>2. links'[l.hdup] = links[l.hdup]
        BY <2>8, <4>1
      <4>3. QED
        BY <1>11, <2>5, <3>2, <4>2 DEF SetupOf
    <3>3. QED
      BY <3>1, <3>2
  <2>13. /\ x.v = c.v /\ x.h = c.h /\ x.si = w.si + 1
         /\ x.recl = Listed(w.recl, l.rec, at) /\ x.keepl = Listed(w.keepl, l.keep, at)
    BY DEF x, CodedState
  <2>14. Advances(w, x, at, input, links, links', ctl, ctl', streams, streams', opt.solid)
    <3> DEFINE c2 == ctl'
               s2 == streams'
               r == links'
    <3>1. Len(c2) = at /\ c2[at] = e /\ \A j \in 1 .. at - 1 : c2[j] = ctl[j]
      BY <1>5, <2>9, <2>10 DEF IsLonger
    <3>2. Len(s2) = w.si /\ s2[w.si] = y /\ \A j \in 1 .. Len(streams) : s2[j] = streams[j]
      BY <2>9, <2>10, <2>11 DEF IsLonger
    <3>3. IsSeq(c2) /\ IsSeq(s2)
      BY <2>10
    <3>4. r[at] = q /\ Len(r) = Len(links) /\ \A k \in 1 .. Len(links) : k # at => r[k] = links[k]
      BY <2>7, <2>8
    <3>5. SetupOf(r, q) = setup
      BY <2>12
    <3> HIDE DEF c2, s2, r
    <3>6. q.rep = 0 /\ links[at].rep = 0
      BY <1>1, <2>5 DEF l
    <3>7. EncStep(w, x, at, input, r, c2, s2, opt.solid)
      <4> DEFINE i == w.si
      <4> HIDE DEF i, w
      <4>1. s2[w.si] = y
        BY <3>2 DEF i
      <4>2. QED
        BY <2>2, <3>1, <3>4, <3>5, <3>6, <4>1 DEF EncStep
    <3>8. (r[at].rep = 0 /\ r[at].rec) = l.rec /\ (r[at].rep = 0 /\ r[at].keep) = l.keep
      <4>1. l.rec \in BOOLEAN /\ l.keep \in BOOLEAN
        BY <1>5 DEF LinkType
      <4>2. r[at].rep = 0 /\ r[at].rec = l.rec /\ r[at].keep = l.keep
        BY <2>5, <3>4, <3>6
      <4>3. QED
        BY <4>1, <4>2
    <3>9. /\ x.recl = Listed(w.recl, r[at].rep = 0 /\ r[at].rec, at)
          /\ x.keepl = Listed(w.keepl, r[at].rep = 0 /\ r[at].keep, at)
      BY <2>13, <3>8
    <3>10. Len(s2) = x.si - 1 /\ x.si = IF r[at].rep = 0 THEN w.si + 1 ELSE w.si
      BY <2>11, <2>13, <3>2, <3>4, <3>6
    <3>11. Len(w.v.su) <= Len(x.v.su) /\ r[at].setup <= Len(x.v.su)
      BY <2>2, <2>13, <3>4
    <3>12. r[at].rep = links[at].rep /\ r[at].hdup = links[at].hdup
      BY <2>5, <3>4, <3>6 DEF l
    <3> HIDE DEF w
    <3>13. Advances(w, x, at, input, links, r, ctl, c2, streams, s2, opt.solid)
      BY <2>2, <3>1, <3>2, <3>3, <3>4, <3>7, <3>9, <3>10, <3>11, <3>12 DEF Advances
    <3>14. QED
      BY <3>13 DEF c2, s2, r
  <2>15. PICK X : X[at + 1] = x /\ History(X, at + 1, input, links', ctl', streams', opt.solid)
    <3>1. at <= Len(links)
      BY <1>3
    <3>2. at = 1 => links[1].rep = 0
      BY <1>1 DEF l
    <3>3. History(W, at, input, links, ctl, streams, opt.solid) /\ Refs(links, input)
      BY <1>3, <1>4
    <3>4. Advances(W[at], x, at, input, links, links', ctl, ctl', streams, streams', opt.solid)
      BY <2>14
    <3>5. links \in Seq(LinkType)
      BY <1>5
    <3> HIDE DEF w
    <3>6. Goes(x, at, input, links', ctl', streams', opt.solid)
      BY <3>1, <3>2, <3>3, <3>4, <3>5, HistoryGrows
    <3>7. QED
      BY <3>6 DEF Goes
  <2>16. enc' = [v |-> x.v, h |-> x.h, recl |-> x.recl, keepl |-> x.keepl]
    BY <2>1, <2>13
  <2>17. QED
    BY <1>1, <1>2, <1>3, <1>13, <2>1, <2>7, <2>15, <2>16, StepsOn
<1>16. QED
  BY <1>14, <1>15

(* What is known of the link that is decoded next.                         *)
NextLink(W) ==
  /\ at \in 1 .. Len(links) /\ at + 1 \in 1 .. Len(links) + 1
  /\ W[at] \in Ws /\ DecIs(dec, W[at], input, links)
  /\ EncStep(W[at], W[at + 1], at, input, links, ctl, streams, opt.solid)
  /\ dec.si = W[at].si /\ (dec.si > 1 <=> at > 1)
  /\ links[at].rep = 0 => dec.si <= Len(streams)

DecodesWith(W) ==
  /\ History(W, Len(links) + 1, input, links, ctl, streams, opt.solid)
  /\ EncIs(W[Len(links) + 1]) /\ DecIs(dec, W[at], input, links)

(* The history has the step that made what the decoder reads next.         *)
LEMMA NextLinkIs ==
  ASSUME Layout(links, input), NEW W, DecodesWith(W), at \in 1 .. Len(links) + 1, at <= Len(ctl)
  PROVE  NextLink(W)
<1> DEFINE N == Len(links)
           f == W[N + 1]
<1>1. N \in Nat
  BY DEF Layout
<1>2. /\ History(W, N + 1, input, links, ctl, streams, opt.solid) /\ DecIs(dec, W[at], input, links)
  BY DEF DecodesWith
<1>3. /\ Before(W[1], Models.v, Models.h, <<>>, <<>>, 1)
      /\ \A j \in 1 .. N + 1 : Reached(W[j], f, j)
      /\ \A j \in 1 .. (N + 1) - 1 : Stepped(W, f, j, input, links, ctl, streams, opt.solid)
      /\ Len(ctl) = (N + 1) - 1 /\ Len(streams) = f.si - 1
  BY <1>2 DEF History
<1> HIDE DEF N, f
<1>4. at \in 1 .. N + 1 /\ at \in 1 .. N /\ at + 1 \in 1 .. N + 1 /\ at \in 1 .. (N + 1) - 1
  <2>1. at \in 1 .. N + 1 /\ at <= N
    BY <1>1, <1>3 DEF N
  <2>2. QED
    BY <1>1, <2>1
<1>5. Reached(W[at], f, at) /\ Stepped(W, f, at, input, links, ctl, streams, opt.solid)
  BY <1>3, <1>4
<1>6. dec.si = W[at].si
  BY <1>2 DEF DecIs
<1>7. W[at] \in Ws /\ W[at].si \in Nat /\ (at > 1 => W[at].si > 1)
  BY <1>5 DEF Reached, Ws
<1>8. W[1].si = 1
  BY <1>3 DEF Before
<1>9. dec.si > 1 <=> at > 1
  <2>1. CASE at = 1
    BY <1>6, <1>8, <2>1
  <2>2. CASE at # 1
    BY <1>1, <1>4, <1>6, <1>7, <2>2
  <2>3. QED
    BY <2>1, <2>2
<1>10. EncStep(W[at], W[at + 1], at, input, links, ctl, streams, opt.solid)
  BY <1>5 DEF Stepped
<1>11. links[at].rep = 0 => dec.si <= Len(streams)
  <2> SUFFICES ASSUME links[at].rep = 0 PROVE dec.si <= Len(streams)
    OBVIOUS
  <2>1. W[at].si < f.si
    BY <1>5 DEF Stepped
  <2>2. f \in Ws
    <3>1. N + 1 \in 1 .. N + 1
      BY <1>1
    <3>2. Reached(W[N + 1], f, N + 1)
      BY <1>3, <3>1
    <3>3. QED
      BY <3>2 DEF Reached, f
  <2>3. f.si \in Nat
    BY <2>2 DEF Ws
  <2>4. QED
    BY <1>3, <1>6, <1>7, <2>1, <2>3
<1>12. QED
  BY <1>2, <1>4, <1>6, <1>7, <1>9, <1>10, <1>11 DEF NextLink, N

(* A link that is decoded leaves everything as it was but the decoder.     *)
LEMMA DecodedOn ==
  ASSUME input \in Files, opt \in Options, Layout(links, input), Refs(links, input),
         NEW W, DecodesWith(W), at + 1 \in 1 .. Len(links) + 1,
         input' = input, opt' = opt, links' = links, enc' = enc, ctl' = ctl, streams' = streams,
         phase = "decode", phase' = phase, at' = at + 1,
         DecIs(dec', W[at + 1], input, links), WrittenIs(output', input, links, at + 1)
  PROVE  Held'
<1>1. (\E X : DecodesWith(X))'
  <2>1. History(W, Len(links') + 1, input', links', ctl', streams', opt'.solid)
    BY DEF DecodesWith
  <2>2. enc' = [v |-> W[Len(links') + 1].v, h |-> W[Len(links') + 1].h,
                recl |-> W[Len(links') + 1].recl, keepl |-> W[Len(links') + 1].keepl]
    BY DEF DecodesWith, EncIs
  <2>3. DecIs(dec', W[at'], input', links')
    OBVIOUS
  <2>4. QED
    BY <2>1, <2>2, <2>3 DEF DecodesWith, EncIs
<1>2. (\E X : /\ History(X, Len(links) + 1, input, links, ctl, streams, opt.solid)
              /\ EncIs(X[Len(links) + 1]) /\ DecIs(dec, X[at], input, links))'
  BY <1>1 DEF DecodesWith
<1>3. WrittenIs(output', input', links', at') /\ at' \in 1 .. Len(links') + 1
  OBVIOUS
<1>4. Layout(links', input') /\ Refs(links', input')
  OBVIOUS
<1>5. Decoding'
  BY <1>2, <1>3, <1>4 DEF Decoding
<1>6. QED
  BY <1>5 DEF Held

(* DecodeReplay keeps the invariant.                                       *)
LEMMA DecodeReplayHolds == Held /\ DecodeReplay => Held'
<1> SUFFICES ASSUME Held, DecodeReplay PROVE Held'
  OBVIOUS
<1> DEFINE e == ctl[at]
           l == links[at]
<1>1. phase = "decode" /\ at <= Len(ctl) /\ e.rep
  BY DEF DecodeReplay
<1>2. input \in Files /\ opt \in Options /\ Decoding
  BY <1>1 DEF Held
<1>3. /\ Layout(links, input) /\ Refs(links, input) /\ at \in 1 .. Len(links) + 1
      /\ WrittenIs(output, input, links, at)
  BY <1>2 DEF Decoding
<1>4. PICK W : DecodesWith(W)
  BY <1>2 DEF Decoding, DecodesWith
<1>5. NextLink(W)
  BY <1>1, <1>3, <1>4, NextLinkIs
<1>6. /\ at \in 1 .. Len(links) /\ at + 1 \in 1 .. Len(links) + 1 /\ W[at] \in Ws
      /\ DecIs(dec, W[at], input, links)
      /\ EncStep(W[at], W[at + 1], at, input, links, ctl, streams, opt.solid)
  BY <1>5 DEF NextLink
<1>7. l \in LinkType /\ links \in Seq(LinkType) /\ Len(links) \in Nat
  BY <1>3, <1>6 DEF Layout
<1>8. l.rep # 0
  <2>1. SUFFICES ASSUME l.rep = 0 PROVE FALSE
    OBVIOUS
  <2>2. LinkStep(W[at], W[at + 1], at, l, SetupOf(links, l), input, e, streams[W[at].si], opt.solid)
    BY <1>6, <2>1 DEF EncStep
  <2>3. ~e.rep
    BY <2>2 DEF LinkStep, CodedTo
  <2>4. QED
    BY <1>1, <2>3
<1>9. ReplayStep(W[at], W[at + 1], l, e)
  BY <1>6, <1>8 DEF EncStep
<1> DEFINE w == W[at]
           x == W[at + 1]
<1>10. /\ ReplayedAs(dec, e, l, links)
       /\ DecIs([dec EXCEPT !.h = SerialSeen(@, l.serial)], x, input, links)
  BY <1>6, <1>7, <1>9, ReplayDecodes
<1>11. /\ e.back < Len(dec.rec) /\ GetSerial(dec.h, e.serial) = l.serial
       /\ dec.rec[Len(dec.rec) - e.back] = RecOf(links[l.rep])
  BY <1>10 DEF ReplayedAs
<1> HIDE DEF e, l
<1>12. /\ output' = output \o replay(links[l.rep].a - 1, links[l.rep].z - links[l.rep].a + 1, l.serial)
       /\ dec' = [dec EXCEPT !.h = SerialSeen(@, l.serial)]
       /\ at' = at + 1 /\ phase' = phase
       /\ input' = input /\ opt' = opt /\ links' = links /\ enc' = enc /\ ctl' = ctl /\ streams' = streams
  <2> DEFINE r == dec.rec[Len(dec.rec) - e.back]
             serial == GetSerial(dec.h, e.serial)
  <2>1. /\ output' = output \o replay(r.off, r.len, serial)
        /\ dec' = [dec EXCEPT !.h = SerialSeen(@, serial)]
        /\ at' = at + 1 /\ phase' = phase
        /\ input' = input /\ opt' = opt /\ links' = links /\ enc' = enc /\ ctl' = ctl /\ streams' = streams
    BY <1>11 DEF DecodeReplay, e
  <2>2. serial = l.serial
    BY <1>11
  <2>3. r.off = links[l.rep].a - 1 /\ r.len = links[l.rep].z - links[l.rep].a + 1
    BY <1>11 DEF RecOf
  <2> HIDE DEF r, serial
  <2>4. QED
    BY <2>1, <2>2, <2>3
<1>13. WrittenIs(output', input, links, at + 1)
  BY <1>3, <1>6, <1>8, <1>12, ReplayWrites DEF l
<1>14. DecIs(dec', W[at + 1], input, links)
  BY <1>10, <1>12
<1>15. QED
  BY <1>1, <1>2, <1>3, <1>4, <1>6, <1>12, <1>13, <1>14, DecodedOn

(* DecodeLink keeps the invariant.                                         *)
LEMMA DecodeLinkHolds == Held /\ DecodeLink => Held'
<1> SUFFICES ASSUME Held, DecodeLink PROVE Held'
  OBVIOUS
<1> DEFINE e == ctl[at]
           l == links[at]
<1>1. phase = "decode" /\ at <= Len(ctl) /\ ~e.rep
  BY DEF DecodeLink
<1>2. input \in Files /\ opt \in Options /\ Decoding
  BY <1>1 DEF Held
<1>3. /\ Layout(links, input) /\ Refs(links, input) /\ at \in 1 .. Len(links) + 1
      /\ WrittenIs(output, input, links, at)
  BY <1>2 DEF Decoding
<1>4. PICK W : DecodesWith(W)
  BY <1>2 DEF Decoding, DecodesWith
<1>5. NextLink(W)
  BY <1>1, <1>3, <1>4, NextLinkIs
<1>6. /\ at \in 1 .. Len(links) /\ at + 1 \in 1 .. Len(links) + 1 /\ W[at] \in Ws
      /\ DecIs(dec, W[at], input, links)
      /\ EncStep(W[at], W[at + 1], at, input, links, ctl, streams, opt.solid)
      /\ dec.si = W[at].si /\ (dec.si > 1 <=> at > 1)
      /\ links[at].rep = 0 => dec.si <= Len(streams)
  BY <1>5 DEF NextLink
<1>7. l.rep = 0
  <2>1. SUFFICES ASSUME l.rep # 0 PROVE FALSE
    OBVIOUS
  <2>2. ReplayStep(W[at], W[at + 1], l, e)
    BY <1>6, <2>1 DEF EncStep
  <2>3. e.rep
    BY <2>2 DEF ReplayStep
  <2>4. QED
    BY <1>1, <2>3
<1>8. LinkStep(W[at], W[at + 1], at, l, SetupOf(links, l), input, e, streams[dec.si], opt.solid)
  BY <1>6, <1>7 DEF EncStep
<1> DEFINE w == W[at]
           x == W[at + 1]
           kept == KeptOf(e)
           d == LinkDecoded(e, kept)
<1>9. /\ (e.dup => e.back < Len(dec.keep)) /\ e.pages > 0 /\ ~EndsEarly(e)
      /\ DecIs(AfterLink(e, kept, d), x, input, links)
      /\ WrittenIs(output \o d.out, input, links, at + 1)
  <2> HIDE DEF w, x, e
  <2>1. w \in Ws /\ LinkStep(w, x, at, l, SetupOf(links, l), input, e, streams[dec.si], opt.solid)
    BY <1>6, <1>8 DEF w, x, e
  <2>2. DecIs(dec, w, input, links)
    BY <1>6 DEF w
  <2>3. QED
    BY <1>3, <1>6, <2>1, <2>2, LinkReturns
<1>10. /\ output' = output \o d.out /\ dec' = AfterLink(e, kept, d) /\ at' = at + 1 /\ phase' = phase
  <2>1. dec.si <= Len(streams) /\ (e.dup => e.back < Len(dec.keep)) /\ e.pages > 0 /\ ~EndsEarly(e)
    BY <1>6, <1>7, <1>9
  <2>2. QED
    BY <2>1 DEF DecodeLink, AfterLink, KeptOf
<1>11. input' = input /\ opt' = opt /\ links' = links /\ enc' = enc /\ ctl' = ctl /\ streams' = streams
  BY DEF DecodeLink
<1> HIDE DEF d, kept, e
<1>12. WrittenIs(output', input, links, at + 1) /\ DecIs(dec', W[at + 1], input, links)
  BY <1>9, <1>10
<1>13. QED
  BY <1>1, <1>2, <1>3, <1>4, <1>6, <1>10, <1>11, <1>12, DecodedOn

(* DecodeEnd keeps the invariant: every stream has been used.              *)
LEMMA DecodeEndHolds == Held /\ DecodeEnd => Held'
<1> SUFFICES ASSUME Held, DecodeEnd PROVE Held'
  OBVIOUS
<1>1. /\ phase = "decode" /\ at > Len(ctl)
      /\ phase' = IF dec.si = Len(streams) + 1 THEN "done" ELSE "failed"
      /\ UNCHANGED <<input, opt, links, at, enc, dec, ctl, streams, output>>
  BY DEF DecodeEnd
<1>2. input \in Files /\ opt \in Options /\ Decoding
  BY <1>1 DEF Held
<1>3. Layout(links, input) /\ at \in 1 .. Len(links) + 1
  BY <1>2 DEF Decoding
<1>4. PICK W : DecodesWith(W)
  BY <1>2 DEF Decoding, DecodesWith
<1> DEFINE N == Len(links)
<1>5. /\ \A j \in 1 .. N + 1 : Reached(W[j], W[N + 1], j)
      /\ Len(ctl) = (N + 1) - 1 /\ Len(streams) = W[N + 1].si - 1 /\ DecIs(dec, W[at], input, links)
  BY <1>4 DEF DecodesWith, History
<1>6. N \in Nat
  BY <1>3 DEF Layout
<1>7. at = N + 1
  BY <1>1, <1>3, <1>5, <1>6
<1>8. dec.si = W[N + 1].si
  BY <1>5, <1>7 DEF DecIs
<1>9. W[N + 1].si \in Nat
  <2>1. N + 1 \in 1 .. N + 1
    BY <1>6
  <2>2. QED
    BY <1>5, <2>1 DEF Reached, Ws
<1>10. phase' = "done"
  BY <1>1, <1>5, <1>8, <1>9
<1>11. Decoding'
  BY <1>1, <1>2 DEF Decoding, EncIs
<1>12. QED
  BY <1>1, <1>2, <1>7, <1>10, <1>11 DEF Held

(* Every step keeps the invariant.                                         *)
LEMMA StepsHold == Held /\ [Next]_vars => Held'
<1> SUFFICES ASSUME Held, [Next]_vars PROVE Held'
  OBVIOUS
<1>1. CASE Scan
  BY <1>1, ScanHolds
<1>2. CASE Compare
  BY <1>2, CompareHolds
<1>3. CASE EncodeReplay
  BY <1>3, EncodeReplayHolds
<1>4. CASE EncodeLink
  BY <1>4, EncodeLinkHolds
<1>5. CASE DecodeReplay
  BY <1>5, DecodeReplayHolds
<1>6. CASE DecodeLink
  BY <1>6, DecodeLinkHolds
<1>7. CASE DecodeEnd
  BY <1>7, DecodeEndHolds
<1>8. CASE UNCHANGED vars
  <2>1. /\ input' = input /\ opt' = opt /\ links' = links /\ at' = at /\ enc' = enc /\ dec' = dec
        /\ ctl' = ctl /\ streams' = streams /\ output' = output /\ phase' = phase
    BY <1>8 DEF vars
  <2>2. Scanning => Scanning'
    BY <2>1 DEF Scanning, Untouched, EncIs
  <2>3. Comparing => Comparing'
    BY <2>1 DEF Comparing, Untouched, EncIs
  <2>4. Encoding => Encoding'
    BY <2>1 DEF Encoding, EncIs
  <2>5. Decoding => Decoding'
    BY <2>1 DEF Decoding, EncIs
  <2>6. QED
    BY <2>1, <2>2, <2>3, <2>4, <2>5 DEF Held
<1>9. QED
  BY <1>1, <1>2, <1>3, <1>4, <1>5, <1>6, <1>7, <1>8 DEF Next

-----------------------------------------------------------------------------
(* What follows from the invariant.                                        *)

(* The invariant holds throughout, for any files, options and links: the   *)
(* encoder and the decoder keep in step.                                   *)
THEOREM Holds == Spec => []Held
<1>1. Init => Held
  BY Starts0
<1>2. Held /\ [Next]_vars => Held'
  BY StepsHold
<1>3. QED
  BY <1>1, <1>2, PTL DEF Spec

(* The invariant has no failure.                                           *)
LEMMA HeldNeverFails == Held => NeverFails
BY DEF Held, NeverFails

(* A file that pack_once has coded is decoded: in no run does an internal  *)
(* check of the encoder fail (a link that repeats another finds it on the  *)
(* list), nor one of vb_unpack (a distance beyond a list, a link without   *)
(* pages, an end of stream before the last page, streams left over).       *)
THEOREM NothingFails == Spec => []NeverFails
<1>1. Held => NeverFails
  BY HeldNeverFails
<1>2. QED
  BY <1>1, Holds, PTL

(* The links are sound.                                                    *)
LEMMA LinksAreSound ==
  ASSUME Layout(links, input), Refs(links, input), at \in 1 .. Len(links) + 1,
         NEW su, Len(su) \in Nat, \A i \in 1 .. Len(links) : links[i].setup <= Len(su),
         enc.v.su = su,
         phase \in {"scan", "compare", "encode", "decode", "done", "refused", "failed"}
  PROVE  TypeOK
<1>1. links \in Seq(LinkType) /\ Len(links) \in Nat
  BY DEF Layout
<1>2. DOMAIN links = 1 .. Len(links)
  BY <1>1
<1>3. ASSUME NEW i \in DOMAIN links
      PROVE  LET l == links[i]
             IN  /\ l.a <= l.z /\ l.setup \in 0 .. Len(enc.v.su)
                 /\ l.rep # 0 => l.rep < i /\ l.hdup = 0 /\ links[l.rep].rep = 0 /\ links[l.rep].rec
                 /\ l.hdup # 0 => /\ l.hdup < i /\ ~l.keep
                                  /\ links[l.hdup].rep = 0 /\ links[l.hdup].keep
  <2> DEFINE l == links[i]
  <2>1. i \in 1 .. Len(links)
    BY <1>2, <1>3
  <2>2. l \in LinkType /\ SpanIs(l, input) /\ RefIs(links, input, i) /\ l.setup <= Len(su)
    BY <1>1, <2>1 DEF Layout, Refs
  <2>3. l.a <= l.z
    BY <2>2 DEF SpanIs
  <2>4. l.setup \in Nat
    BY <2>2 DEF LinkType
  <2>5. l.rep # 0 => l.rep < i /\ l.hdup = 0 /\ links[l.rep].rep = 0 /\ links[l.rep].rec
    <3>1. l.rep # 0 => l.rep \in 1 .. i - 1 /\ l.hdup = 0 /\ links[l.rep].rep = 0 /\ links[l.rep].rec
      BY <2>2 DEF RefIs
    <3> HIDE DEF l
    <3>2. QED
      BY <2>1, <3>1
  <2>6. l.hdup # 0 => l.hdup < i /\ ~l.keep /\ links[l.hdup].rep = 0 /\ links[l.hdup].keep
    <3>1. l.hdup # 0 => l.hdup \in 1 .. i - 1 /\ ~l.keep /\ links[l.hdup].rep = 0 /\ links[l.hdup].keep
      BY <2>2 DEF RefIs
    <3> HIDE DEF l
    <3>2. QED
      BY <2>1, <3>1
  <2>7. l.setup \in 0 .. Len(enc.v.su)
    <3> DEFINE u == l.setup
               m == Len(su)
    <3>1. u \in Nat /\ u <= m
      BY <2>2, <2>4
    <3>2. Len(enc.v.su) = m
      OBVIOUS
    <3>3. m \in Int => u \in 0 .. m
      <4> HIDE DEF u, m
      <4>1. QED
        BY <3>1
    <3>4. QED
      BY <3>2, <3>3
  <2>8. QED
    BY <2>3, <2>5, <2>6, <2>7
<1>4. QED
  BY <1>3 DEF TypeOK

(* The invariant has the types.                                            *)
LEMMA HeldIsTyped == Held => TypeOK
<1> SUFFICES ASSUME Held PROVE TypeOK
  OBVIOUS
<1>1. phase \in {"scan", "compare", "encode", "decode", "done", "refused", "failed"}
  BY DEF Held
<1> DEFINE su == enc.v.su
<1>2. CASE Scanning
  <2>1. links = <<>> /\ at = 1
    BY <1>2 DEF Scanning
  <2>2. DOMAIN links = {} /\ Len(links) = 0 /\ at \in 1 .. Len(links) + 1
    BY <2>1
  <2>3. QED
    BY <1>1, <2>2 DEF TypeOK
<1>3. CASE Comparing
  <2>1. /\ Layout(links, input) /\ Refs(links, input) /\ at \in 1 .. Len(links)
        /\ \A i \in 1 .. Len(links) : links[i].setup = 0
    BY <1>3 DEF Comparing
  <2>2. su = <<>>
    BY <1>3 DEF Comparing, Untouched, EncIs, First, Models
  <2>3. Len(su) = 0
    BY <2>2
  <2>4. at \in 1 .. Len(links) + 1
    BY <2>1 DEF Layout
  <2>5. \A i \in 1 .. Len(links) : links[i].setup <= Len(su)
    BY <2>1, <2>3
  <2>6. QED
    BY <1>1, <2>1, <2>3, <2>4, <2>5, LinksAreSound
<1>4. CASE Encoding
  <2>1. Layout(links, input) /\ Refs(links, input) /\ at \in 1 .. Len(links)
    BY <1>4 DEF Encoding
  <2>2. PICK W : History(W, at, input, links, ctl, streams, opt.solid) /\ EncIs(W[at])
    BY <1>4 DEF Encoding
  <2>3. at \in 1 .. Len(links) + 1 /\ at \in 1 .. at
    BY <2>1 DEF Layout
  <2>4. su = W[at].v.su
    BY <2>2 DEF EncIs
  <2>5. W[at] \in Ws /\ SetupsIn(W[at], links, at)
    BY <2>2, <2>3 DEF History, Reached
  <2>6. Len(su) \in Nat /\ \A i \in 1 .. Len(links) : links[i].setup <= Len(su)
    BY <2>4, <2>5 DEF SetupsIn, Ws, Vs
  <2> HIDE DEF su
  <2>7. enc.v.su = su
    BY DEF su
  <2>8. QED
    BY <1>1, <2>1, <2>3, <2>6, <2>7, LinksAreSound
<1>5. CASE Decoding
  <2>1. Layout(links, input) /\ Refs(links, input) /\ at \in 1 .. Len(links) + 1
    BY <1>5 DEF Decoding
  <2> DEFINE n == Len(links) + 1
  <2>2. PICK W : History(W, n, input, links, ctl, streams, opt.solid) /\ EncIs(W[n])
    BY <1>5 DEF Decoding
  <2>3. n \in 1 .. n
    BY <2>1 DEF Layout
  <2>4. su = W[n].v.su
    BY <2>2 DEF EncIs
  <2>5. W[n] \in Ws /\ SetupsIn(W[n], links, n)
    BY <2>2, <2>3 DEF History, Reached
  <2>6. Len(su) \in Nat /\ \A i \in 1 .. Len(links) : links[i].setup <= Len(su)
    BY <2>4, <2>5 DEF SetupsIn, Ws, Vs
  <2> HIDE DEF su
  <2>7. enc.v.su = su
    BY DEF su
  <2>8. QED
    BY <1>1, <2>1, <2>6, <2>7, LinksAreSound
<1>6. QED
  BY <1>2, <1>3, <1>4, <1>5 DEF Held

(* The bookkeeping of the links stays within its ranges: a link refers to  *)
(* an earlier one only, which is coded itself and marked, so that both     *)
(* sides put it on their lists.                                            *)
THEOREM LinksStaySound == Spec => []TypeOK
<1>1. Held => TypeOK
  BY HeldIsTyped
<1>2. QED
  BY <1>1, Holds, PTL

(* The entries of a list that are of earlier links are its first ones.     *)
Earlier(list, n) == SubSeq(list, 1, Cardinality({i \in DOMAIN list : list[i] < n}))

IsEarlier(list, n, a) == Earlier(list, n) = a

(* They are what the list was before link n.                               *)
LEMMA EarlierIs ==
  ASSUME NEW a \in Seq(Nat), NEW b \in Seq(Nat), NEW n \in Nat, Grown(a, b, n)
  PROVE  IsEarlier(b, n, a)
<1> DEFINE S == {i \in DOMAIN b : b[i] < n}
           la == Len(a)
           lb == Len(b)
<1>1. /\ la \in Nat /\ lb \in Nat /\ la <= lb /\ DOMAIN b = 1 .. lb
      /\ \A i \in 1 .. la : b[i] = a[i] /\ a[i] < n
      /\ \A i \in la + 1 .. lb : b[i] >= n
      /\ \A i \in 1 .. lb : b[i] \in Nat
  BY DEF Grown, Starts
<1> HIDE DEF la, lb
<1>2. S = 1 .. la
  <2>1. \A i \in 1 .. lb : i \in 1 .. la \/ i \in la + 1 .. lb
    BY <1>1
  <2>2. \A i \in 1 .. la : i \in 1 .. lb
    BY <1>1
  <2>3. \A i \in la + 1 .. lb : ~(b[i] < n)
    <3> SUFFICES ASSUME NEW i \in la + 1 .. lb PROVE ~(b[i] < n)
      OBVIOUS
    <3>1. i \in 1 .. lb
      BY <1>1
    <3>2. b[i] \in Nat /\ b[i] >= n
      BY <1>1, <3>1
    <3>3. QED
      BY <3>2
  <2>4. \A i \in 1 .. la : b[i] < n
    BY <1>1
  <2>5. QED
    BY <1>1, <2>1, <2>2, <2>3, <2>4
<1>3. Cardinality(S) = la
  <2> HIDE DEF S
  <2>1. Cardinality(1 .. la) = IF 1 > la THEN 0 ELSE la - 1 + 1
    BY <1>1, FS_Interval
  <2>2. Cardinality(1 .. la) = la
    BY <1>1, <2>1
  <2>3. QED
    BY <1>2, <2>2
<1> DEFINE r == SubSeq(b, 1, la)
<1>4. r = a
  <2>1. \A i \in 1 .. la : b[i] \in Nat
    BY <1>1
  <2>2. r \in Seq(Nat) /\ Len(r) = la /\ \A i \in 1 .. la : r[i] = b[i]
    <3>1. 1 \in 1 .. lb + 1 /\ la \in 1 - 1 .. lb
      BY <1>1
    <3>2. r \in Seq(Nat) /\ Len(r) = (IF 1 <= la THEN la - 1 + 1 ELSE 0) /\ \A i \in 1 .. la - 1 + 1 : r[i] = b[1 + i - 1]
      BY <1>1, <2>1, SubSeqProperties DEF lb
    <3>3. \A i \in 1 .. la : i \in 1 .. la - 1 + 1 /\ 1 + i - 1 = i
      BY <1>1
    <3> HIDE DEF r
    <3>4. QED
      BY <1>1, <3>2, <3>3
  <2> HIDE DEF r
  <2>3. \A i \in 1 .. la : r[i] = a[i]
    BY <1>1, <2>2
  <2>4. QED
    BY <1>1, <2>2, <2>3, SeqEqual DEF la
<1>5. QED
  BY <1>3, <1>4 DEF IsEarlier, Earlier

(* A sequence is the function of its elements.                             *)
LEMMA SequenceOf ==
  ASSUME NEW q, IsSeq(q)
  PROVE  q = [i \in 1 .. Len(q) |-> q[i]]
BY DEF IsSeq

(* With the invariant the lists agree.                                     *)
LEMMA HeldListsAgree == Held => ListsAgree
<1> SUFFICES ASSUME Held, phase = "decode" PROVE ListsAgree
  BY DEF ListsAgree
<1>1. Decoding
  BY DEF Held
<1>2. Layout(links, input) /\ at \in 1 .. Len(links) + 1
  BY <1>1 DEF Decoding
<1> DEFINE N == Len(links)
<1>3. PICK W : /\ History(W, N + 1, input, links, ctl, streams, opt.solid)
               /\ EncIs(W[N + 1]) /\ DecIs(dec, W[at], input, links)
  BY <1>1 DEF Decoding
<1>4. N \in Nat
  BY <1>2 DEF Layout
<1> DEFINE w == W[at]
           f == W[N + 1]
<1>5. Reached(w, f, at) /\ Reached(f, f, N + 1)
  <2>1. N + 1 \in 1 .. N + 1
    BY <1>4
  <2>2. QED
    BY <1>2, <1>3, <2>1 DEF History
<1>6. /\ w.recl \in Seq(Nat) /\ w.keepl \in Seq(Nat) /\ f.recl \in Seq(Nat) /\ f.keepl \in Seq(Nat)
      /\ Grown(w.recl, f.recl, at) /\ Grown(w.keepl, f.keepl, at) /\ at \in Nat
  BY <1>2, <1>5 DEF Reached, Ws
<1>7. enc.recl = f.recl /\ enc.keepl = f.keepl
  BY <1>3 DEF EncIs
<1> HIDE DEF f
<1>8. Earlier(enc.recl, at) = w.recl /\ Earlier(enc.keepl, at) = w.keepl
  BY <1>6, <1>7, EarlierIs DEF IsEarlier
<1>9. RecsAre(dec.rec, w.recl, links) /\ KeepsAre(dec.keep, w.keepl, links, input)
  BY <1>3 DEF DecIs
<1> HIDE DEF w
<1>10. dec.rec = [n \in DOMAIN w.recl |->
                    LET l == links[w.recl[n]] IN [off |-> l.a - 1, len |-> l.z - l.a + 1]]
  <2> DEFINE q == dec.rec
             a == w.recl
  <2>1. q = [i \in 1 .. Len(q) |-> q[i]] /\ Len(q) = Len(a) /\ \A i \in 1 .. Len(a) : q[i] = RecOf(links[a[i]])
    BY <1>9, SequenceOf DEF RecsAre
  <2>2. DOMAIN a = 1 .. Len(a)
    BY <1>6
  <2> HIDE DEF q, a
  <2>3. q = [i \in DOMAIN a |-> RecOf(links[a[i]])]
    BY <2>1, <2>2
  <2>4. QED
    BY <2>3 DEF RecOf, q, a
<1>11. dec.keep = [n \in DOMAIN w.keepl |->
                     LET l == links[w.keepl[n]]
                     IN  [off |-> l.a, len |-> Len(hdrrun(l)), setup |-> l.setup,
                          npk |-> PacketsOf(hdrrun(l))]]
  <2> DEFINE q == dec.keep
             a == w.keepl
  <2>1. q = [i \in 1 .. Len(q) |-> q[i]] /\ Len(q) = Len(a) /\ \A i \in 1 .. Len(a) : q[i] = KeepOf(input, links[a[i]])
    BY <1>9, SequenceOf DEF KeepsAre
  <2>2. DOMAIN a = 1 .. Len(a)
    BY <1>6
  <2> HIDE DEF q, a
  <2>3. q = [i \in DOMAIN a |-> KeepOf(input, links[a[i]])]
    BY <2>1, <2>2
  <2>4. \A l : HdrOf(input, l) = hdrrun(l)
    BY DEF HdrOf, RunOf, hdrrun, runof
  <2>5. QED
    BY <2>3, <2>4 DEF KeepOf, q, a
<1>12. QED
  <2> DEFINE recl == Earlier(enc.recl, at)
             keepl == Earlier(enc.keepl, at)
  <2>1. /\ dec.rec = [n \in DOMAIN recl |->
                        LET l == links[recl[n]] IN [off |-> l.a - 1, len |-> l.z - l.a + 1]]
        /\ dec.keep = [n \in DOMAIN keepl |->
                         LET l == links[keepl[n]]
                         IN  [off |-> l.a, len |-> Len(hdrrun(l)), setup |-> l.setup,
                              npk |-> PacketsOf(hdrrun(l))]]
    BY <1>8, <1>10, <1>11
  <2>2. QED
    BY <2>1 DEF ListsAgree, Earlier

(* The lists from which vb_unpack replays, of places in its own output,    *)
(* are at every link those that the encoder had before it, of places in    *)
(* the input: as many entries, with the same pages, setups and packets.    *)
THEOREM ListsAlwaysAgree == Spec => []ListsAgree
<1>1. Held => ListsAgree
  BY HeldListsAgree
<1>2. QED
  BY <1>1, Holds, PTL

(* Page k of the input lies in the stream that page j opens.               *)
InStreamOf(in, j, k) == j <= k /\ in[j].open /\ \A m \in j + 1 .. k : ~in[m].open

BackButSerials ==
  /\ Len(output) <= Len(input) /\ (phase = "done" => Len(output) = Len(input))
  /\ \A k \in 1 .. Len(output) :
       \E j \in 1 .. k : InStreamOf(input, j, k) /\ Restamped(output[k], input[k], input[j].serial)

(* What is written link by link is the file, but for serials.              *)
LEMMA WrittenBack ==
  ASSUME NEW in, NEW ls, Layout(ls, in), NEW n \in 1 .. Len(ls) + 1, NEW out, WrittenIs(out, in, ls, n)
  PROVE  /\ out \in Seq(Pages) /\ Len(out) <= Len(in) /\ (n = Len(ls) + 1 => Len(out) = Len(in))
         /\ \A k \in 1 .. Len(out) :
              \E j \in 1 .. k : InStreamOf(in, j, k) /\ Restamped(out[k], in[k], in[j].serial)
<1>1. Len(ls) \in Nat /\ Len(in) \in Nat
  BY DEF Layout
<1>2. /\ out \in Seq(Pages) /\ Len(out) = IF n <= Len(ls) THEN ls[n].a - 1 ELSE Len(in)
      /\ \A k \in 1 .. Len(out) :
           \E i \in 1 .. n - 1 : k \in ls[i].a .. ls[i].z /\ Restamped(out[k], in[k], ls[i].serial)
  BY DEF WrittenIs
<1>3. Len(out) <= Len(in) /\ (n = Len(ls) + 1 => Len(out) = Len(in))
  <2>1. CASE n <= Len(ls)
    <3>1. n \in 1 .. Len(ls)
      BY <2>1
    <3>2. SpanIs(ls[n], in)
      BY <3>1 DEF Layout
    <3>3. ls[n].a \in Nat /\ ls[n].z \in Nat /\ ls[n].a <= ls[n].z /\ ls[n].z <= Len(in)
      BY <3>2 DEF SpanIs
    <3> DEFINE a == ls[n].a
               z == ls[n].z
    <3> HIDE DEF a, z
    <3>4. a \in Nat /\ z \in Nat /\ a <= z /\ z <= Len(in) /\ Len(out) = a - 1
      BY <1>2, <2>1, <3>3 DEF a, z
    <3>5. QED
      BY <1>1, <2>1, <3>4
  <2>2. CASE ~(n <= Len(ls))
    BY <1>1, <1>2, <2>2
  <2>3. QED
    BY <2>1, <2>2
<1>4. ASSUME NEW k \in 1 .. Len(out)
      PROVE  \E j \in 1 .. k : InStreamOf(in, j, k) /\ Restamped(out[k], in[k], in[j].serial)
  <2>1. PICK i \in 1 .. n - 1 : k \in ls[i].a .. ls[i].z /\ Restamped(out[k], in[k], ls[i].serial)
    BY <1>2, <1>4
  <2>2. i \in 1 .. Len(ls)
    BY <1>1, <2>1
  <2>3. SpanIs(ls[i], in)
    BY <2>2 DEF Layout
  <2> DEFINE a == ls[i].a
             z == ls[i].z
  <2>4. /\ a \in Nat /\ z \in Nat /\ a >= 1 /\ in[a].open /\ ls[i].serial = in[a].serial
        /\ \A m \in a + 1 .. z : ~in[m].open
    BY <2>3 DEF SpanIs
  <2>5. k \in a .. z /\ Restamped(out[k], in[k], in[a].serial)
    BY <2>1, <2>4
  <2> HIDE DEF a, z
  <2>6. a \in 1 .. k /\ a <= k /\ \A m \in a + 1 .. k : m \in a + 1 .. z
    BY <2>4, <2>5
  <2>7. InStreamOf(in, a, k)
    BY <2>4, <2>6 DEF InStreamOf
  <2>8. QED
    BY <2>5, <2>6, <2>7
<1>5. QED
  BY <1>2, <1>3, <1>4

(* With the invariant the output is the input so far, but for serials.     *)
LEMMA HeldIsBack == Held => BackButSerials /\ output \in Seq(Pages)
<1> SUFFICES ASSUME Held PROVE BackButSerials /\ output \in Seq(Pages)
  OBVIOUS
<1>1. CASE Scanning \/ Comparing \/ Encoding
  <2>1. output = <<>>
    BY <1>1 DEF Scanning, Comparing, Encoding, Untouched
  <2>2. Len(output) = 0 /\ output \in Seq(Pages)
    BY <2>1
  <2>3. Len(input) \in Nat
    BY InputIs
  <2>4. CASE phase # "done"
    BY <2>2, <2>3, <2>4 DEF BackButSerials
  <2>5. CASE phase = "done"
    <3>1. Decoding /\ at = Len(links) + 1
      BY <2>5 DEF Held
    <3>2. /\ Layout(links, input) /\ at \in 1 .. Len(links) + 1 /\ WrittenIs(output, input, links, at)
      BY <3>1 DEF Decoding
    <3>3. Len(output) = Len(input)
      BY <3>1, <3>2, WrittenBack
    <3>4. QED
      BY <2>2, <2>3, <3>3 DEF BackButSerials
  <2>6. QED
    BY <2>2, <2>4, <2>5
<1>2. CASE Decoding
  <2>1. Layout(links, input) /\ at \in 1 .. Len(links) + 1 /\ WrittenIs(output, input, links, at)
    BY <1>2 DEF Decoding
  <2>2. /\ output \in Seq(Pages) /\ Len(output) <= Len(input)
        /\ (at = Len(links) + 1 => Len(output) = Len(input))
        /\ \A k \in 1 .. Len(output) :
             \E j \in 1 .. k : InStreamOf(input, j, k) /\ Restamped(output[k], input[k], input[j].serial)
    BY <2>1, WrittenBack
  <2>3. phase = "done" => at = Len(links) + 1
    BY DEF Held
  <2>4. QED
    BY <2>2, <2>3 DEF BackButSerials
<1>3. QED
  BY <1>1, <1>2 DEF Held

(* Whatever is written is the input up to there, page by page, except that *)
(* a page may have the serial of the page that opens its stream; and at    *)
(* the end there is all of it.                                             *)
THEOREM BackButForSerials == Spec => []BackButSerials
<1>1. Held => BackButSerials
  BY HeldIsBack
<1>2. QED
  BY <1>1, Holds, PTL

(* Every page has the serial of the page that opens its stream.           *)
OneSerial(f) ==
  \A j, k \in 1 .. Len(f) : InStreamOf(f, j, k) => f[j].serial = f[k].serial

(* A page stamped with its own serial is the page.                         *)
LEMMA SameStamp ==
  ASSUME NEW p \in Pages, NEW o, Restamped(o, p, p.serial)
  PROVE  o = p
BY DEF Restamped, Pages

(* Where a stream has one serial, the pages are the very same.             *)
LEMMA HeldIsLossless ==
  ASSUME Held, OneSerial(input)
  PROVE  Lossless
<1>1. input \in Files /\ input \in Seq(Pages) /\ output \in Seq(Pages) /\ BackButSerials
  BY InputIs, HeldIsBack DEF Held
<1>2. \A k \in 1 .. Len(output) : output[k] = input[k]
  <2> SUFFICES ASSUME NEW k \in 1 .. Len(output) PROVE output[k] = input[k]
    OBVIOUS
  <2>1. PICK j \in 1 .. k : InStreamOf(input, j, k) /\ Restamped(output[k], input[k], input[j].serial)
    BY <1>1 DEF BackButSerials
  <2>2. Len(output) \in Nat /\ Len(input) \in Nat /\ Len(output) <= Len(input)
    BY <1>1 DEF BackButSerials
  <2>3. j \in 1 .. Len(input) /\ k \in 1 .. Len(input)
    BY <2>2
  <2>4. input[j].serial = input[k].serial
    BY <1>1, <2>1, <2>3 DEF OneSerial
  <2>5. input[k] \in Pages
    BY <1>1, <2>3
  <2>6. QED
    BY <2>1, <2>4, <2>5, SameStamp
<1>3. Len(output) <= Len(input) /\ Len(input) \in Nat /\ Len(output) \in Nat /\ (phase = "done" => Len(output) = Len(input))
  BY <1>1 DEF BackButSerials
<1>4. IsPrefix(output, input)
  <2> DEFINE r == SubSeq(input, 1, Len(output))
             n == Len(output)
  <2>1. \A i \in 1 .. n : input[i] \in Pages
    BY <1>1, <1>3
  <2>2. r \in Seq(Pages) /\ Len(r) = (IF 1 <= n THEN n - 1 + 1 ELSE 0) /\ \A i \in 1 .. n - 1 + 1 : r[i] = input[1 + i - 1]
    BY <1>3, <2>1, SubSeqProperties
  <2>3. Len(r) = n /\ \A i \in 1 .. n : r[i] = input[i]
    <3>1. \A i \in 1 .. n : i \in 1 .. n - 1 + 1 /\ 1 + i - 1 = i
      BY <1>3
    <3> HIDE DEF r
    <3>2. QED
      BY <1>3, <2>2, <3>1
  <2> HIDE DEF r
  <2>4. \A i \in 1 .. n : r[i] = output[i]
    BY <1>2, <2>3
  <2>5. r = output
    BY <1>1, <2>2, <2>3, <2>4, SeqEqual
  <2>6. QED
    BY <1>3, <2>5 DEF IsPrefix, r
<1>5. phase = "done" => output = input
  <2> SUFFICES ASSUME phase = "done" PROVE output = input
    OBVIOUS
  <2>1. Len(output) = Len(input)
    BY <1>3
  <2>2. QED
    BY <1>1, <1>2, <2>1, SeqEqual
<1>6. QED
  BY <1>4, <1>5 DEF Lossless

(* So the codec is lossless for files in which all pages of a stream have  *)
(* the serial of its first page. Without that it is not: replay stamps one *)
(* serial on all the pages it copies.                                      *)
THEOREM ComesBack == Spec => [](OneSerial(input) => Lossless)
<1>1. Held => (OneSerial(input) => Lossless)
  BY HeldIsLossless
<1>2. QED
  BY <1>1, Holds, PTL
=============================================================================
