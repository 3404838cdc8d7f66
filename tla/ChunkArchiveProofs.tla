------------------------ MODULE ChunkArchiveProofs -------------------------
(***************************************************************************)
(* The archive container, for chunks, streams, bytes and files of any size *)
(* and number.                                                             *)
(*                                                                         *)
(* The cells of an image are accounted for by a map X from each stream to  *)
(* its extents that tiles the image: the extents cover it from the header  *)
(* to its end, none lies in another, each has its two fields before it,    *)
(* and all of a stream's but the last are full.  The writer's streams have *)
(* such a map for all they have flushed; so has a finished image; so have  *)
(* the chunks the reader has passed, which of a file written here are the  *)
(* first of those that were written, and of an archive in the sense of     *)
(* archive.h end at one of the offsets it can be cut at.  That is the      *)
(* inductive invariant IInv.  The parts: sequences and offsets; extents,   *)
(* tilings and sizes; the reader; the writer; streams in memory; files     *)
(* that are archives; the invariant, step by step; what follows from it;   *)
(* and that all this implements a plain list of streams.                   *)
(***************************************************************************)
EXTENDS ChunkArchive, NatFacts, SequenceTheorems

-----------------------------------------------------------------------------
(* Sequences made of sequences.                                            *)

(* A sequence with an element more.                                        *)
IsLonger(r, q, c, S) ==
  /\ r \in Seq(S) /\ r # <<>> /\ Len(q) \in Nat /\ Len(r) = Len(q) + 1
  /\ r[Len(q) + 1] = c /\ \A k \in 1 .. Len(q) : r[k] = q[k]

LEMMA Appended ==
  ASSUME NEW S, NEW q \in Seq(S), NEW c \in S, NEW r, r = Append(q, c)
  PROVE  IsLonger(r, q, c, S)
<1>1. /\ r \in Seq(S) /\ r # <<>> /\ Len(q) \in Nat /\ Len(r) = Len(q) + 1
      /\ r[Len(q) + 1] = c /\ \A k \in 1 .. Len(q) : r[k] = q[k]
  BY AppendProperties, LenProperties
<1>2. QED
  BY <1>1 DEF IsLonger

(* p has the concatenations of the first sequences of q.                   *)
Flat(p, q, S) ==
  /\ p \in [Nat -> Seq(S)] /\ p[0] = <<>>
  /\ \A n \in Nat : n < Len(q) => p[n + 1] = p[n] \o q[n + 1]

(* There is such a function, by recursion over the positions of q.         *)
LEMMA FlatExists ==
  ASSUME NEW S, NEW q \in Seq(Seq(S))
  PROVE  \E p : Flat(p, q, S)
<1> DEFINE T == Seq(S)
           b == <<>>
           next(t) == IF t[1] < Len(q) THEN t[2] \o q[t[1] + 1] ELSE t[2]
           G == [t \in Nat \X T |-> next(t)]
<1>1. b \in T /\ Len(q) \in Nat
  BY LenProperties
<1>2. \A t \in Nat \X T : next(t) \in T
  <2> SUFFICES ASSUME NEW n \in Nat, NEW s \in T PROVE next(<<n, s>>) \in T
    OBVIOUS
  <2>1. CASE n < Len(q)
    <3>1. q[n + 1] \in Seq(S)
      <4>1. n + 1 \in 1 .. Len(q)
        BY <1>1, <2>1
      <4>2. QED
        BY <4>1, ElementOfSeq
    <3>2. s \o q[n + 1] \in Seq(S)
      BY <3>1, ConcatProperties
    <3>3. QED
      BY <2>1, <3>2
  <2>2. CASE ~(n < Len(q))
    BY <2>2
  <2>3. QED
    BY <2>1, <2>2
<1>3. G \in Steps(T)
  <2> HIDE DEF next, T
  <2>1. QED
    BY <1>2 DEF Steps
<1>4. PICK p : Recurs(p, T, b, G)
  <2> HIDE DEF T, G, b
  <2>1. QED
    BY <1>1, <1>3, Recursion
<1>5. p \in [Nat -> T] /\ p[0] = b /\ \A n \in Nat : p[n + 1] = G[<<n, p[n]>>]
  <2> HIDE DEF T, G, b
  <2>1. QED
    BY <1>4 DEF Recurs
<1>6. \A n \in Nat : n < Len(q) => p[n + 1] = p[n] \o q[n + 1]
  <2> SUFFICES ASSUME NEW n \in Nat, n < Len(q) PROVE p[n + 1] = p[n] \o q[n + 1]
    OBVIOUS
  <2>1. p[n] \in T
    BY <1>5
  <2>2. G[<<n, p[n]>>] = p[n] \o q[n + 1]
    BY <2>1
  <2>3. QED
    BY <1>5, <2>2
<1>7. QED
  BY <1>5, <1>6 DEF Flat

(* FlattenSeq is the last of the concatenations.                           *)
LEMMA FlattenIs ==
  ASSUME NEW S, NEW q \in Seq(Seq(S)), NEW p, Flat(p, q, S)
  PROVE  FlattenSeq(q) = p[Len(q)]
<1>1. Len(q) \in Nat /\ p \in [Nat -> Seq(S)] /\ p[0] = <<>>
  BY LenProperties DEF Flat
<1>2. CASE Len(q) = 0
  <2>1. q = <<>>
    BY <1>2, EmptySeq
  <2>2. FlattenSeq(q) = q
    BY <1>2 DEF FlattenSeq
  <2>3. QED
    BY <1>1, <1>2, <2>1, <2>2
<1>3. CASE Len(q) # 0
  <2> DEFINE m == Len(q)
             D == 1 .. m
             Is(f) == f = [i \in D |-> IF i = 1 THEN q[i] ELSE f[i - 1] \o q[i]]
             fl == CHOOSE f : Is(f)
             f0 == [i \in D |-> p[i]]
  <2>1. FlattenSeq(q) = fl[Len(q)]
    BY <1>3 DEF FlattenSeq
  <2>2. \A i \in D : /\ i \in Nat /\ i - 1 \in Nat /\ i - 1 < m /\ (i - 1) + 1 = i
                     /\ i # 1 => i - 1 \in D
    <3>1. m \in Nat
      BY <1>1
    <3> HIDE DEF m
    <3>2. QED
      BY <3>1
  <2> HIDE DEF D
  <2>3. \A i \in D : p[i] = p[i - 1] \o q[i]
    <3> SUFFICES ASSUME NEW i \in D PROVE p[i] = p[i - 1] \o q[i]
      OBVIOUS
    <3>1. p[(i - 1) + 1] = p[i - 1] \o q[(i - 1) + 1]
      BY <2>2 DEF Flat
    <3>2. QED
      BY <2>2, <3>1
  <2>4. \A i \in D : i = 1 => p[i] = q[i]
    <3> SUFFICES ASSUME NEW i \in D, i = 1 PROVE p[i] = q[i]
      OBVIOUS
    <3>1. q[i] \in Seq(S)
      BY ElementOfSeq DEF D
    <3>2. p[i] = <<>> \o q[i]
      <4>1. p[i] = p[i - 1] \o q[i]
        BY <2>3
      <4>2. i - 1 = 0
        OBVIOUS
      <4>3. QED
        BY <1>1, <4>1, <4>2
    <3>3. QED
      BY <3>1, <3>2, ConcatEmptySeq
  <2>5. Is(f0)
    <3>1. \A i \in D : i # 1 => f0[i - 1] = p[i - 1]
      BY <2>2
    <3>2. \A i \in D : p[i] = IF i = 1 THEN q[i] ELSE f0[i - 1] \o q[i]
      <4> HIDE DEF f0
      <4>1. QED
        BY <2>3, <2>4, <3>1
    <3>3. QED
      BY <3>2
  <2> HIDE DEF f0
  <2>6. Is(fl)
    <3> HIDE DEF Is
    <3>1. QED
      BY <2>5
  <2> HIDE DEF fl
  <2>7. \A i \in D : fl[i] = IF i = 1 THEN q[i] ELSE fl[i - 1] \o q[i]
    BY <2>6
  <2> HIDE DEF Is
  <2> DEFINE B == {i \in Nat : i \in D => fl[i] = p[i]}
  <2>8. 0 \in B
    BY DEF D
  <2>9. ASSUME NEW n \in Nat, n \in B PROVE n + 1 \in B
    <3> SUFFICES ASSUME n + 1 \in D PROVE fl[n + 1] = p[n + 1]
      OBVIOUS
    <3>1. CASE n = 0
      BY <2>4, <2>7, <3>1
    <3>2. CASE n # 0
      <4>1. n \in D /\ (n + 1) - 1 = n /\ n + 1 # 1
        BY <2>2, <3>2
      <4>2. fl[n] = p[n]
        BY <2>9, <4>1
      <4>3. fl[n + 1] = fl[(n + 1) - 1] \o q[n + 1] /\ p[n + 1] = p[(n + 1) - 1] \o q[n + 1]
        BY <2>3, <2>7, <4>1
      <4>4. QED
        BY <4>1, <4>2, <4>3
    <3>3. QED
      BY <3>1, <3>2
  <2> HIDE DEF B
  <2>10. \A n \in Nat : n \in B
    BY <2>8, <2>9, Inducts
  <2>11. m \in D /\ m \in Nat
    BY <1>1, <1>3 DEF D
  <2>12. fl[m] = p[m]
    BY <2>10, <2>11 DEF B
  <2>13. QED
    BY <2>1, <2>12
<1>4. QED
  BY <1>2, <1>3

(* Nothing joined is nothing.                                              *)
LEMMA FlattenEmpty == FlattenSeq(<<>>) = <<>>
BY DEF FlattenSeq

(* A sequence more is joined to the end.                                   *)
LEMMA FlattenAppend ==
  ASSUME NEW S, NEW q \in Seq(Seq(S)), NEW x \in Seq(S)
  PROVE  /\ FlattenSeq(q) \in Seq(S)
         /\ FlattenSeq(Append(q, x)) = FlattenSeq(q) \o x
<1> DEFINE r == Append(q, x)
<1>1. /\ r \in Seq(Seq(S)) /\ Len(r) = Len(q) + 1 /\ r[Len(q) + 1] = x /\ Len(q) \in Nat
      /\ \A i \in 1 .. Len(q) : r[i] = q[i]
  BY AppendProperties, LenProperties
<1> HIDE DEF r
<1>2. PICK p : Flat(p, r, S)
  BY <1>1, FlatExists
<1>3. \A n \in Nat : n < Len(q) => n < Len(r) /\ r[n + 1] = q[n + 1]
  <2> DEFINE m == Len(q)
  <2>1. m \in Nat /\ Len(r) = m + 1 /\ \A i \in 1 .. m : r[i] = q[i]
    BY <1>1
  <2> HIDE DEF m
  <2>2. \A n \in Nat : n < m => n < m + 1 /\ n + 1 \in 1 .. m
    BY <2>1
  <2>3. \A n \in Nat : n < m => n < Len(r) /\ r[n + 1] = q[n + 1]
    BY <2>1, <2>2
  <2>4. QED
    BY <2>3 DEF m
<1>4. Flat(p, q, S)
  BY <1>2, <1>3 DEF Flat
<1>5. FlattenSeq(q) = p[Len(q)] /\ FlattenSeq(r) = p[Len(r)]
  BY <1>1, <1>2, <1>4, FlattenIs
<1>6. p[Len(r)] = p[Len(q)] \o x
  <2>1. Len(q) < Len(r)
    BY <1>1
  <2>2. p[Len(q) + 1] = p[Len(q)] \o r[Len(q) + 1]
    BY <1>1, <1>2, <2>1 DEF Flat
  <2>3. QED
    BY <1>1, <2>2
<1>7. p[Len(q)] \in Seq(S)
  BY <1>1, <1>2 DEF Flat
<1>8. QED
  BY <1>5, <1>6, <1>7 DEF r

-----------------------------------------------------------------------------
(* Offsets, in whole chunks and a rest.                                    *)

(* What a whole number of chunks and a rest divide into.                   *)
LEMMA Divided ==
  ASSUME NEW a \in Nat, NEW r \in 0 .. Chunk - 1
  PROVE  /\ Chunk * a + r \in Nat
         /\ (Chunk * a + r) \div Chunk = a /\ (Chunk * a + r) % Chunk = r
<1> DEFINE x == Chunk * a + r
           d == x \div Chunk
           s == x % Chunk
<1>1. Chunk \in Nat \ {0} /\ Chunk * a \in Nat
  BY ChunkAssumption
<1>2. x \in Nat
  BY <1>1
<1>3. d \in Int /\ s \in 0 .. Chunk - 1 /\ x = Chunk * d + s
  <2> HIDE DEF x
  <2>1. QED
    BY <1>1, <1>2
<1> HIDE DEF d, s
<1>4. Chunk * (d - a) = r - s
  <2>1. Chunk * (d - a) = Chunk * d - Chunk * a /\ Chunk * d \in Int
    BY <1>1, <1>3
  <2> DEFINE y == Chunk * d
             z == Chunk * a
  <2>2. z + r = y + s /\ Chunk * (d - a) = y - z /\ y \in Int /\ z \in Int
    BY <1>1, <1>3, <2>1
  <2> HIDE DEF y, z
  <2>3. QED
    BY <1>3, <2>2
<1>5. \A t \in Int : -Chunk < Chunk * t /\ Chunk * t < Chunk => t = 0
  <2>1. \A t \in Int : t >= 1 => Chunk * t >= Chunk
    BY <1>1
  <2>2. \A t \in Int : t <= -1 => Chunk * t <= -Chunk
    BY <1>1
  <2> DEFINE m(t) == Chunk * t
  <2>3. \A t \in Int : m(t) \in Int /\ (t >= 1 => m(t) >= Chunk) /\ (t <= -1 => m(t) <= -Chunk)
    BY <1>1, <2>1, <2>2
  <2> HIDE DEF m
  <2>4. \A t \in Int : -Chunk < m(t) /\ m(t) < Chunk => t = 0
    BY <1>1, <2>3
  <2>5. QED
    BY <2>4 DEF m
<1>6. d - a \in Int /\ -Chunk < r - s /\ r - s < Chunk
  BY <1>1, <1>3
<1>7. d - a = 0
  BY <1>4, <1>5, <1>6
<1>8. d = a
  BY <1>3, <1>7
<1>9. s = r
  <2>1. r - s = 0
    BY <1>1, <1>4, <1>7
  <2>2. QED
    BY <1>1, <1>3, <2>1
<1>10. QED
  BY <1>2, <1>8, <1>9 DEF d, s

(* Every offset is so.                                                     *)
LEMMA Divides ==
  ASSUME NEW x \in Nat
  PROVE  /\ x \div Chunk \in Nat /\ x % Chunk \in 0 .. Chunk - 1
         /\ x = Chunk * (x \div Chunk) + (x % Chunk)
<1>1. Chunk \in Nat \ {0}
  BY ChunkAssumption
<1>2. x \div Chunk \in Int /\ x % Chunk \in 0 .. Chunk - 1
      /\ x = Chunk * (x \div Chunk) + (x % Chunk)
  BY <1>1
<1>3. x \div Chunk \in Nat
  BY <1>1
<1>4. QED
  BY <1>2, <1>3

-----------------------------------------------------------------------------
(* The extents of a stream: all but the last are of full chunks.           *)

Extents == [off : Nat, len : 1 .. Chunk]

Packed(x) == x \in Seq(Extents) /\ \A k \in 1 .. Len(x) : k < Len(x) => x[k].len = Chunk

LastFull(x) == x # <<>> => x[Len(x)].len = Chunk

(* The bytes in them.                                                      *)
LenOf(x) == IF x = <<>> THEN 0 ELSE Chunk * (Len(x) - 1) + x[Len(x)].len

(* The members of a sequence of extents, by their fields.                  *)
LEMMA ExtentFacts ==
  ASSUME NEW x \in Seq(Extents)
  PROVE  /\ Len(x) \in Nat /\ DOMAIN x = 1 .. Len(x) /\ (x = <<>> <=> Len(x) = 0)
         /\ \A k \in 1 .. Len(x) : /\ x[k] \in Extents /\ x[k].off \in Nat
                                   /\ x[k].len \in 1 .. Chunk /\ x[k].len \in Nat
<1>1. Len(x) \in Nat /\ DOMAIN x = 1 .. Len(x) /\ (x = <<>> <=> Len(x) = 0)
  BY LenProperties, EmptySeq
<1>2. \A k \in 1 .. Len(x) : x[k] \in Extents
  BY ElementOfSeq
<1>3. \A y \in Extents : y.off \in Nat /\ y.len \in 1 .. Chunk /\ y.len \in Nat
  BY ChunkAssumption DEF Extents
<1>4. QED
  BY <1>1, <1>2, <1>3

(* The length tells how many there are, and whether the last is full.      *)
LEMMA LenOfFacts ==
  ASSUME NEW x, Packed(x)
  PROVE  /\ LenOf(x) \in Nat /\ (LenOf(x) = 0 <=> x = <<>>)
         /\ Len(x) = 1 + (LenOf(x) - 1) \div Chunk
         /\ LenOf(x) % Chunk = 0 <=> LastFull(x)
         /\ LastFull(x) => LenOf(x) = Chunk * Len(x)
<1>1. Chunk \in Nat \ {0}
  BY ChunkAssumption
<1>2. /\ Len(x) \in Nat /\ (x = <<>> <=> Len(x) = 0)
      /\ \A k \in 1 .. Len(x) : x[k].len \in 1 .. Chunk
  BY ExtentFacts DEF Packed
<1>3. CASE x = <<>>
  <2>1. LenOf(x) = 0 /\ Len(x) = 0 /\ LastFull(x)
    BY <1>2, <1>3 DEF LenOf, LastFull
  <2>2. 0 % Chunk = 0 /\ Chunk * 0 = 0
    BY <1>1
  <2>3. (0 - 1) \div Chunk = -1
    <3> DEFINE d == (0 - 1) \div Chunk
               r == (0 - 1) % Chunk
    <3>1. d \in Int /\ r \in 0 .. Chunk - 1 /\ -1 = Chunk * d + r
      BY <1>1
    <3> HIDE DEF d, r
    <3>2. d < 0
      <4>1. \A t \in Nat : Chunk * t \in Nat
        BY <1>1
      <4>2. QED
        BY <1>1, <3>1, <4>1
    <3>3. d >= -1
      <4>1. \A t \in Int : t <= -2 => Chunk * t <= -2 * Chunk /\ Chunk * t \in Int
        BY <1>1
      <4>2. QED
        BY <1>1, <3>1, <4>1
    <3>4. d = -1
      BY <3>1, <3>2, <3>3
    <3>5. QED
      BY <3>4 DEF d
  <2>4. QED
    BY <1>3, <2>1, <2>2, <2>3
<1>4. CASE x # <<>>
  <2> DEFINE n == Len(x) - 1
             l == x[Len(x)].len
  <2>1. n \in Nat /\ l \in 1 .. Chunk /\ LenOf(x) = Chunk * n + l /\ Len(x) = n + 1
        /\ (LastFull(x) <=> l = Chunk)
    BY <1>2, <1>4 DEF LenOf, LastFull
  <2> HIDE DEF n, l
  <2>2. Chunk * n \in Nat
    BY <1>1, <2>1
  <2>3. LenOf(x) - 1 = Chunk * n + (l - 1) /\ LenOf(x) \in Nat /\ LenOf(x) # 0
    BY <1>1, <2>1, <2>2
  <2>4. (LenOf(x) - 1) \div Chunk = n
    <3>1. l - 1 \in 0 .. Chunk - 1
      BY <1>1, <2>1
    <3>2. QED
      BY <2>1, <2>3, <3>1, Divided
  <2>5. CASE l = Chunk
    <3>1. LenOf(x) = Chunk * (n + 1) + 0 /\ LenOf(x) = Chunk * (n + 1)
      BY <1>1, <2>1, <2>5
    <3>2. LenOf(x) % Chunk = 0
      <4>1. n + 1 \in Nat /\ 0 \in 0 .. Chunk - 1
        BY <1>1, <2>1
      <4>2. QED
        BY <3>1, <4>1, Divided
    <3>3. QED
      BY <1>4, <2>1, <2>3, <2>4, <2>5, <3>1, <3>2
  <2>6. CASE l # Chunk
    <3>1. l \in 0 .. Chunk - 1
      BY <1>1, <2>1, <2>6
    <3>2. LenOf(x) % Chunk = l
      BY <2>1, <3>1, Divided
    <3>3. QED
      BY <1>4, <2>1, <2>3, <2>4, <2>6, <3>2
  <2>7. QED
    BY <2>5, <2>6
<1>5. QED
  BY <1>3, <1>4

(* An offset into the stream falls into one of them.                       *)
LEMMA OffsetFalls ==
  ASSUME NEW x, Packed(x), NEW at \in Nat, at < LenOf(x)
  PROVE  /\ at \div Chunk + 1 \in 1 .. Len(x)
         /\ at % Chunk \in 0 .. x[at \div Chunk + 1].len - 1
<1>1. Chunk \in Nat \ {0}
  BY ChunkAssumption
<1>2. /\ Len(x) \in Nat /\ (x = <<>> <=> Len(x) = 0)
      /\ \A k \in 1 .. Len(x) : x[k].len \in 1 .. Chunk
      /\ \A k \in 1 .. Len(x) : k < Len(x) => x[k].len = Chunk
  BY ExtentFacts DEF Packed
<1> DEFINE n == Len(x) - 1
           l == x[Len(x)].len
           d == at \div Chunk
           r == at % Chunk
<1>3. x # <<>>
  BY DEF LenOf
<1>4. n \in Nat /\ l \in 1 .. Chunk /\ LenOf(x) = Chunk * n + l /\ Len(x) = n + 1
  BY <1>2, <1>3 DEF LenOf
<1>5. d \in Nat /\ r \in 0 .. Chunk - 1 /\ at = Chunk * d + r
  BY Divides
<1> HIDE DEF n, l, d, r
<1>6. d <= n
  <2> SUFFICES ASSUME d >= n + 1 PROVE FALSE
    BY <1>4, <1>5
  <2>1. Chunk * d >= Chunk * (n + 1)
    BY <1>1, <1>4, <1>5
  <2>2. Chunk * (n + 1) = Chunk * n + Chunk /\ Chunk * n \in Nat /\ Chunk * d \in Nat
    BY <1>1, <1>4, <1>5
  <2>3. QED
    BY <1>1, <1>4, <1>5, <2>1, <2>2
<1>7. CASE d = n
  <2>1. r < l
    <3>1. Chunk * n + r < Chunk * n + l /\ Chunk * n \in Nat
      BY <1>1, <1>4, <1>5, <1>7
    <3>2. QED
      BY <1>1, <1>4, <1>5, <3>1
  <2>2. l = x[d + 1].len
    BY <1>4, <1>7 DEF l
  <2>3. QED
    BY <1>1, <1>4, <1>5, <1>7, <2>1, <2>2 DEF d, r
<1>8. CASE d # n
  <2>1. d + 1 \in 1 .. Len(x) /\ d + 1 < Len(x)
    BY <1>4, <1>5, <1>6, <1>8
  <2>2. x[d + 1].len = Chunk
    BY <1>2, <2>1
  <2>3. QED
    BY <1>5, <2>1, <2>2 DEF d, r
<1>9. QED
  BY <1>7, <1>8

(* One more chunk, when the last is full.                                  *)
LEMMA PackedAppend ==
  ASSUME NEW x, Packed(x), LastFull(x), NEW y \in Extents
  PROVE  /\ Packed(Append(x, y)) /\ LenOf(Append(x, y)) = LenOf(x) + y.len
         /\ Len(Append(x, y)) = Len(x) + 1 /\ Append(x, y)[Len(x) + 1] = y
         /\ \A k \in 1 .. Len(x) : Append(x, y)[k] = x[k]
         /\ LenOf(x) = Chunk * Len(x)
<1> DEFINE z == Append(x, y)
<1>1. /\ x \in Seq(Extents) /\ z \in Seq(Extents) /\ Len(z) = Len(x) + 1 /\ z[Len(x) + 1] = y
      /\ \A k \in 1 .. Len(x) : z[k] = x[k]
  BY AppendProperties DEF Packed
<1>2. Len(x) \in Nat /\ (x = <<>> <=> Len(x) = 0)
  BY <1>1, ExtentFacts
<1>3. LenOf(x) = Chunk * Len(x)
  BY LenOfFacts
<1> HIDE DEF z
<1>4. LenOf(z) = Chunk * Len(x) + y.len
  <2>1. z # <<>> /\ Len(z) - 1 = Len(x) /\ z[Len(z)] = y
    BY <1>1, <1>2, ExtentFacts
  <2>2. QED
    BY <2>1 DEF LenOf
<1>5. \A k \in 1 .. Len(x) : x[k].len = Chunk
  <2>1. \A k \in 1 .. Len(x) : k < Len(x) \/ k = Len(x)
    BY <1>2
  <2>2. QED
    BY <1>2, <2>1 DEF Packed, LastFull
<1>6. Packed(z)
  <2> SUFFICES ASSUME NEW k \in 1 .. Len(z), k < Len(z) PROVE z[k].len = Chunk
    BY <1>1 DEF Packed
  <2>1. k \in 1 .. Len(x)
    BY <1>1, <1>2
  <2>2. QED
    BY <1>1, <1>5, <2>1
<1>7. QED
  BY <1>1, <1>3, <1>4, <1>6 DEF z

-----------------------------------------------------------------------------
(* The chunks of an image: X has the extents of each stream.               *)

Pos == Nat \ {0}
Maps == {X \in [Pos -> Seq(Extents)] : \A i \in Pos : Packed(X[i])}

(* Each extent lies between a and n, behind the fields that tell of it.    *)
FieldsTell(X, o, a, n) ==
  \A i \in Pos : \A k \in 1 .. Len(X[i]) :
    /\ a + 2 <= X[i][k].off /\ X[i][k].off + X[i][k].len <= n
    /\ o[X[i][k].off - 1] = i /\ o[X[i][k].off] = X[i][k].len

(* A stream's extents follow each other.                                   *)
Follow(X) ==
  \A i \in Pos : \A k, l \in 1 .. Len(X[i]) :
    k < l => X[i][k].off + X[i][k].len <= X[i][l].off - 2

Covers(X, a, n) ==
  \A x \in a .. n - 1 : \E i \in Pos : \E k \in 1 .. Len(X[i]) : x \in Takes(X[i][k])

Apart(X) ==
  \A x \in Nat : \A i, j \in Pos : \A k \in 1 .. Len(X[i]), l \in 1 .. Len(X[j]) :
    x \in Takes(X[i][k]) /\ x \in Takes(X[j][l]) => i = j /\ k = l

Tiles(X, o, a, n) ==
  X \in Maps /\ FieldsTell(X, o, a, n) /\ Follow(X) /\ Covers(X, a, n) /\ Apart(X)

(* Two images with the same first n cells.                                 *)
Agree(o, t, n) == \A z \in 1 .. n : t[z] = o[z]

Added(X, i, y) == [X EXCEPT ![i] = Append(@, y)]

(* The extents that a map has of a stream.                                 *)
LEMMA MapFacts ==
  ASSUME NEW X \in Maps, NEW i \in Pos
  PROVE  /\ Packed(X[i]) /\ X[i] \in Seq(Extents) /\ Len(X[i]) \in Nat
         /\ \A k \in 1 .. Len(X[i]) :
              /\ X[i][k].off \in Nat /\ X[i][k].len \in 1 .. Chunk /\ X[i][k].len \in Nat
              /\ Takes(X[i][k]) = X[i][k].off - 2 .. X[i][k].off + X[i][k].len - 1
BY ExtentFacts DEF Maps, Packed, Takes

(* No chunks tile an image that has none.                                  *)
LEMMA TilesNone ==
  ASSUME NEW X, X = [i \in Pos |-> <<>>], NEW o, NEW a \in Nat
  PROVE  Tiles(X, o, a, a)
<1>1. \A i \in Pos : X[i] = <<>> /\ Len(X[i]) = 0 /\ X[i] \in Seq(Extents)
  BY EmptySeq
<1>2. X \in Maps
  <2>1. \A i \in Pos : Packed(X[i])
    BY <1>1 DEF Packed
  <2>2. X \in [Pos -> Seq(Extents)]
    BY <1>1
  <2>3. QED
    BY <2>1, <2>2 DEF Maps
<1>3. 1 .. 0 = {} /\ a .. a - 1 = {}
  OBVIOUS
<1>4. QED
  BY <1>1, <1>2, <1>3 DEF Tiles, FieldsTell, Follow, Covers, Apart

(* The extents that are added, and those that stay.                        *)
LEMMA AddedFacts ==
  ASSUME NEW X \in Maps, NEW i \in Pos, LastFull(X[i]), NEW y \in Extents
  PROVE  /\ Added(X, i, y) \in Maps /\ Added(X, i, y)[i] = Append(X[i], y)
         /\ Len(Added(X, i, y)[i]) = Len(X[i]) + 1 /\ Added(X, i, y)[i][Len(X[i]) + 1] = y
         /\ \A j \in Pos : \A k \in 1 .. Len(X[j]) :
              k \in 1 .. Len(Added(X, i, y)[j]) /\ Added(X, i, y)[j][k] = X[j][k]
         /\ \A j \in Pos : \A k \in 1 .. Len(Added(X, i, y)[j]) :
              \/ j = i /\ k = Len(X[i]) + 1
              \/ k \in 1 .. Len(X[j])
         /\ \A j \in Pos : j # i => Added(X, i, y)[j] = X[j]
<1> DEFINE Z == Added(X, i, y)
           z == Append(X[i], y)
<1>1. X \in [Pos -> Seq(Extents)] /\ \A j \in Pos : Packed(X[j])
  BY DEF Maps
<1>2. /\ Packed(z) /\ Len(z) = Len(X[i]) + 1 /\ z[Len(X[i]) + 1] = y
      /\ \A k \in 1 .. Len(X[i]) : z[k] = X[i][k]
  BY <1>1, PackedAppend
<1>3. Z = [j \in Pos |-> IF j = i THEN z ELSE X[j]]
  BY <1>1 DEF Added
<1> HIDE DEF z, Z
<1>4. Z[i] = z /\ \A j \in Pos : j # i => Z[j] = X[j]
  BY <1>3
<1>5. Z \in Maps
  <2>1. \A j \in Pos : Packed(Z[j])
    BY <1>1, <1>2, <1>4
  <2>2. Z \in [Pos -> Seq(Extents)]
    BY <1>3, <2>1 DEF Packed
  <2>3. QED
    BY <2>1, <2>2 DEF Maps
<1>6. \A j \in Pos : Len(X[j]) \in Nat
  BY MapFacts
<1>7. \A j \in Pos : \A k \in 1 .. Len(X[j]) : k \in 1 .. Len(Z[j]) /\ Z[j][k] = X[j][k]
  <2> SUFFICES ASSUME NEW j \in Pos, NEW k \in 1 .. Len(X[j])
               PROVE  k \in 1 .. Len(Z[j]) /\ Z[j][k] = X[j][k]
    OBVIOUS
  <2>1. CASE j = i
    BY <1>2, <1>4, <1>6, <2>1
  <2>2. CASE j # i
    BY <1>4, <2>2
  <2>3. QED
    BY <2>1, <2>2
<1>8. \A j \in Pos : \A k \in 1 .. Len(Z[j]) : (j = i /\ k = Len(X[i]) + 1) \/ k \in 1 .. Len(X[j])
  <2> SUFFICES ASSUME NEW j \in Pos, NEW k \in 1 .. Len(Z[j])
               PROVE  (j = i /\ k = Len(X[i]) + 1) \/ k \in 1 .. Len(X[j])
    OBVIOUS
  <2>1. CASE j = i
    BY <1>2, <1>4, <1>6, <2>1
  <2>2. CASE j # i
    BY <1>4, <2>2
  <2>3. QED
    BY <2>1, <2>2
<1>9. QED
  BY <1>2, <1>4, <1>5, <1>7, <1>8 DEF Z, z

(* The same, in one piece.                                                 *)
HasAdded(X, i, y, Z) ==
  /\ Z[i] = Append(X[i], y) /\ Len(Z[i]) = Len(X[i]) + 1 /\ Z[i][Len(X[i]) + 1] = y
  /\ \A j \in Pos : \A k \in 1 .. Len(X[j]) : k \in 1 .. Len(Z[j]) /\ Z[j][k] = X[j][k]
  /\ \A j \in Pos : j # i => Z[j] = X[j]

LEMMA AddedHas ==
  ASSUME NEW X \in Maps, NEW i \in Pos, LastFull(X[i]), NEW y \in Extents,
         NEW Z, Z = Added(X, i, y)
  PROVE  HasAdded(X, i, y, Z)
BY AddedFacts DEF HasAdded

(* A chunk of n + 2 cells more, at the end.                                *)
LEMMA TilesGrow ==
  ASSUME NEW X, NEW o, NEW a \in Nat, NEW n \in Nat, a <= n, Tiles(X, o, a, n),
         NEW i \in Pos, LastFull(X[i]), NEW l \in 1 .. Chunk,
         NEW t, Agree(o, t, n), t[n + 1] = i, t[n + 2] = l
  PROVE  Tiles(Added(X, i, Extent(n + 2, l)), t, a, n + 2 + l)
<1> DEFINE y == Extent(n + 2, l)
           Z == Added(X, i, y)
           v == Len(X[i]) + 1
<1>1. y \in Extents /\ y.off = n + 2 /\ y.len = l /\ l \in Nat /\ l >= 1
  BY ChunkAssumption DEF Extents, Extent
<1>2. Takes(y) = n .. n + 1 + l
  BY <1>1 DEF Takes
<1> HIDE DEF y
<1>3. X \in Maps /\ FieldsTell(X, o, a, n) /\ Follow(X) /\ Covers(X, a, n) /\ Apart(X)
  BY DEF Tiles
<1>4. /\ Z \in Maps /\ Len(Z[i]) = v /\ Z[i][v] = y
      /\ \A j \in Pos : \A k \in 1 .. Len(X[j]) : k \in 1 .. Len(Z[j]) /\ Z[j][k] = X[j][k]
      /\ \A j \in Pos : \A k \in 1 .. Len(Z[j]) : (j = i /\ k = v) \/ k \in 1 .. Len(X[j])
  BY <1>1, <1>3, AddedFacts
<1>5. \A j \in Pos : Len(X[j]) \in Nat
  BY <1>3, MapFacts
<1>6. v \in Nat /\ v >= 1 /\ v \in 1 .. Len(Z[i])
  BY <1>4, <1>5
<1> HIDE DEF Z
<1>7. \A j \in Pos : \A k \in 1 .. Len(X[j]) :
        /\ X[j][k].off \in Nat /\ X[j][k].len \in Nat /\ X[j][k].len >= 1
        /\ a + 2 <= X[j][k].off /\ X[j][k].off + X[j][k].len <= n
        /\ Takes(X[j][k]) = X[j][k].off - 2 .. X[j][k].off + X[j][k].len - 1
  BY <1>3, MapFacts DEF FieldsTell
<1>8. FieldsTell(Z, t, a, n + 2 + l)
  <2> SUFFICES ASSUME NEW j \in Pos, NEW k \in 1 .. Len(Z[j])
               PROVE  /\ a + 2 <= Z[j][k].off /\ Z[j][k].off + Z[j][k].len <= n + 2 + l
                      /\ t[Z[j][k].off - 1] = j /\ t[Z[j][k].off] = Z[j][k].len
    BY DEF FieldsTell
  <2>1. CASE j = i /\ k = v
    <3>1. Z[j][k].off = n + 2 /\ Z[j][k].len = l
      BY <1>1, <1>4, <2>1
    <3>2. n + 2 - 1 = n + 1
      OBVIOUS
    <3>3. QED
      BY <1>1, <2>1, <3>1, <3>2
  <2>2. CASE k \in 1 .. Len(X[j])
    <3>1. Z[j][k] = X[j][k]
      BY <1>4, <2>2
    <3> DEFINE f == X[j][k].off
               g == X[j][k].len
    <3>2. f \in Nat /\ g \in Nat /\ g >= 1 /\ a + 2 <= f /\ f + g <= n
      BY <1>7, <2>2
    <3>3. o[f - 1] = j /\ o[f] = g
      BY <1>3, <2>2 DEF FieldsTell
    <3> HIDE DEF f, g
    <3>4. f - 1 \in 1 .. n /\ f \in 1 .. n /\ f + g <= n + 2 + l
      BY <1>1, <3>2
    <3>5. QED
      BY <3>1, <3>2, <3>3, <3>4 DEF Agree, f, g
  <2>3. QED
    BY <1>4, <2>1, <2>2
<1>9. Follow(Z)
  <2> SUFFICES ASSUME NEW j \in Pos, NEW k \in 1 .. Len(Z[j]), NEW m \in 1 .. Len(Z[j]), k < m
               PROVE  Z[j][k].off + Z[j][k].len <= Z[j][m].off - 2
    BY DEF Follow
  <2>1. CASE m \in 1 .. Len(X[j])
    <3>1. k \in 1 .. Len(X[j])
      BY <1>5, <2>1
    <3>2. QED
      BY <1>3, <1>4, <2>1, <3>1 DEF Follow
  <2>2. CASE j = i /\ m = v
    <3>1. k \in 1 .. Len(X[j])
      BY <1>4, <1>5, <1>6, <2>2
    <3>2. Z[j][k] = X[j][k] /\ Z[j][m].off = n + 2
      BY <1>1, <1>4, <2>2, <3>1
    <3>3. X[j][k].off + X[j][k].len <= n /\ X[j][k].off \in Nat /\ X[j][k].len \in Nat
      BY <1>7, <3>1
    <3>4. QED
      BY <3>2, <3>3
  <2>3. QED
    BY <1>4, <2>1, <2>2
<1>10. Covers(Z, a, n + 2 + l)
  <2> SUFFICES ASSUME NEW x \in a .. n + 2 + l - 1
               PROVE  \E j \in Pos : \E k \in 1 .. Len(Z[j]) : x \in Takes(Z[j][k])
    BY DEF Covers
  <2>1. CASE x < n
    <3>1. x \in a .. n - 1
      BY <1>1, <2>1
    <3>2. PICK j \in Pos : \E k \in 1 .. Len(X[j]) : x \in Takes(X[j][k])
      BY <1>3, <3>1 DEF Covers
    <3>3. PICK k \in 1 .. Len(X[j]) : x \in Takes(X[j][k])
      BY <3>2
    <3>4. k \in 1 .. Len(Z[j]) /\ Z[j][k] = X[j][k]
      BY <1>4
    <3>5. QED
      BY <3>3, <3>4
  <2>2. CASE x >= n
    <3>1. x \in Takes(Z[i][v])
      BY <1>1, <1>2, <1>4, <2>2
    <3>2. QED
      BY <1>6, <3>1
  <2>3. QED
    BY <1>1, <2>1, <2>2
<1>11. Apart(Z)
  <2> SUFFICES ASSUME NEW x \in Nat, NEW j \in Pos, NEW q \in Pos,
                      NEW k \in 1 .. Len(Z[j]), NEW m \in 1 .. Len(Z[q]),
                      x \in Takes(Z[j][k]), x \in Takes(Z[q][m])
               PROVE  j = q /\ k = m
    BY DEF Apart
  <2>1. \A p \in Pos : \A h \in 1 .. Len(Z[p]) :
          x \in Takes(Z[p][h]) =>
            \/ p = i /\ h = v /\ x >= n
            \/ h \in 1 .. Len(X[p]) /\ x \in Takes(X[p][h]) /\ x < n
    <3> SUFFICES ASSUME NEW p \in Pos, NEW h \in 1 .. Len(Z[p]), x \in Takes(Z[p][h])
                 PROVE  \/ p = i /\ h = v /\ x >= n
                        \/ h \in 1 .. Len(X[p]) /\ x \in Takes(X[p][h]) /\ x < n
      OBVIOUS
    <3>1. CASE p = i /\ h = v
      BY <1>1, <1>2, <1>4, <3>1
    <3>2. CASE h \in 1 .. Len(X[p])
      <4>1. x \in Takes(X[p][h])
        BY <1>4, <3>2
      <4>2. x < n
        <5> DEFINE f == X[p][h].off
                   g == X[p][h].len
        <5>1. f \in Nat /\ g \in Nat /\ f + g <= n /\ x \in f - 2 .. f + g - 1
          BY <1>7, <3>2, <4>1
        <5> HIDE DEF f, g
        <5>2. QED
          BY <5>1
      <4>3. QED
        BY <3>2, <4>1, <4>2
    <3>3. QED
      BY <1>4, <3>1, <3>2
  <2>2. \/ j = i /\ k = v /\ x >= n
        \/ k \in 1 .. Len(X[j]) /\ x \in Takes(X[j][k]) /\ x < n
    BY <2>1
  <2>3. \/ q = i /\ m = v /\ x >= n
        \/ m \in 1 .. Len(X[q]) /\ x \in Takes(X[q][m]) /\ x < n
    BY <2>1
  <2>4. CASE x >= n
    BY <2>2, <2>3, <2>4
  <2>5. CASE x < n
    BY <1>3, <2>2, <2>3, <2>5 DEF Apart
  <2>6. QED
    BY <2>4, <2>5
<1>12. QED
  BY <1>4, <1>8, <1>9, <1>10, <1>11 DEF Tiles, Z, y

(* What X says of the image is below n.                                    *)
LEMMA TilesStay ==
  ASSUME NEW X, NEW o, NEW a \in Nat, NEW n \in Nat, Tiles(X, o, a, n),
         NEW t, Agree(o, t, n)
  PROVE  Tiles(X, t, a, n)
<1>1. X \in Maps /\ FieldsTell(X, o, a, n)
  BY DEF Tiles
<1>2. FieldsTell(X, t, a, n)
  <2> SUFFICES ASSUME NEW j \in Pos, NEW k \in 1 .. Len(X[j])
               PROVE  /\ a + 2 <= X[j][k].off /\ X[j][k].off + X[j][k].len <= n
                      /\ t[X[j][k].off - 1] = j /\ t[X[j][k].off] = X[j][k].len
    BY DEF FieldsTell
  <2> DEFINE f == X[j][k].off
             g == X[j][k].len
  <2>1. f \in Nat /\ g \in 1 .. Chunk /\ Chunk \in Nat
    BY <1>1, MapFacts, ChunkAssumption
  <2>2. a + 2 <= f /\ f + g <= n /\ o[f - 1] = j /\ o[f] = g
    BY <1>1 DEF FieldsTell
  <2> HIDE DEF f, g
  <2>3. f - 1 \in 1 .. n /\ f \in 1 .. n
    BY <2>1, <2>2
  <2>4. QED
    BY <2>2, <2>3 DEF Agree, f, g
<1>3. QED
  BY <1>2 DEF Tiles

-----------------------------------------------------------------------------
(* The size of an archive, stream by stream: p has the sums of the first.  *)

Cost(len) == len + 2 * (1 + (len - 1) \div Chunk)

(* What a stream costs is a number.                                        *)
LEMMA CostFacts ==
  ASSUME NEW len \in Nat
  PROVE  Cost(len) \in Int
<1>1. Chunk \in Nat \ {0}
  BY ChunkAssumption
<1>2. (len - 1) \div Chunk \in Int
  BY <1>1
<1>3. QED
  BY <1>2 DEF Cost

(* arc_size is the last of the sums of the streams' costs.                 *)
LEMMA SizeIsSum ==
  ASSUME NEW a, NEW n \in Nat, DOMAIN a.s = 1 .. n, \A i \in 1 .. n : a.s[i].len \in Nat,
         Len(a.tune) \in Nat,
         NEW p \in [Nat -> Int], p[0] = 3 + Len(a.tune),
         \A k \in Nat : k < n => p[k + 1] = p[k] + Cost(a.s[k + 1].len)
  PROVE  arc_size(a) = p[n]
<1> DEFINE s == a.s
           b == 3 + Len(a.tune)
           D == 1 .. n
           C(x) == 2 * (1 + (s[x].len - 1) \div Chunk)
           H == [t \in D \X Int |-> t[2] + s[t[1]].len + C(t[1])]
           Is(f) == f = [S \in SUBSET D |-> IF S = {} THEN b
                          ELSE f[S \ {Greatest(S)}] + s[Greatest(S)].len + C(Greatest(S))]
           it == CHOOSE f : Is(f)
<1>1. b \in Int /\ Chunk \in Nat \ {0}
  BY ChunkAssumption
<1>2. arc_size(a) = it[D]
  BY DEF arc_size, FoldLeft, MapThenFoldSet, Max, Greatest
<1>3. \A x \in D : s[x].len \in Nat /\ C(x) \in Int /\ Cost(s[x].len) = s[x].len + C(x)
  <2> SUFFICES ASSUME NEW x \in D
               PROVE  s[x].len \in Nat /\ C(x) \in Int /\ Cost(s[x].len) = s[x].len + C(x)
    OBVIOUS
  <2>1. s[x].len \in Nat
    OBVIOUS
  <2>2. (s[x].len - 1) \div Chunk \in Int
    BY <1>1, <2>1
  <2>3. QED
    BY <2>1, <2>2 DEF Cost
<1> HIDE DEF C, s, b
<1>4. H \in [D \X Int -> Int]
  <2>1. \A t \in D \X Int : t[2] + s[t[1]].len + C(t[1]) \in Int
    <3> SUFFICES ASSUME NEW x \in D, NEW y \in Int PROVE y + s[x].len + C(x) \in Int
      OBVIOUS
    <3>1. QED
      BY <1>3
  <2>2. QED
    BY <2>1
<1>5. PICK f \in [SUBSET D -> Int] : Folds(f, n, b, H)
  <2> HIDE DEF H
  <2>1. QED
    BY <1>1, <1>4, FoldsExist
<1>6. Is(f)
  <2>1. \A S \in SUBSET D : S # {} =>
          H[<<Greatest(S), f[S \ {Greatest(S)}]>>]
            = f[S \ {Greatest(S)}] + s[Greatest(S)].len + C(Greatest(S))
    <3> SUFFICES ASSUME NEW S \in SUBSET D, S # {}
                 PROVE  H[<<Greatest(S), f[S \ {Greatest(S)}]>>]
                          = f[S \ {Greatest(S)}] + s[Greatest(S)].len + C(Greatest(S))
      OBVIOUS
    <3>1. Greatest(S) \in D
      BY GreatestIs
    <3>2. f[S \ {Greatest(S)}] \in Int
      OBVIOUS
    <3>3. QED
      BY <3>1, <3>2
  <2> HIDE DEF H
  <2>2. f = [S \in SUBSET D |-> IF S = {} THEN b ELSE H[<<Greatest(S), f[S \ {Greatest(S)}]>>]]
    BY <1>5 DEF Folds
  <2>3. QED
    BY <2>1, <2>2
<1>7. Is(it)
  <2> HIDE DEF Is
  <2>1. QED
    BY <1>6
<1> HIDE DEF it
<1>8. /\ it[{}] = b
      /\ \A S \in SUBSET D : S # {} =>
           it[S] = it[S \ {Greatest(S)}] + s[Greatest(S)].len + C(Greatest(S))
  BY <1>7
<1> HIDE DEF Is, H
<1> DEFINE B == {k \in Nat : k <= n => it[1 .. k] = p[k]}
<1>9. 0 \in B
  <2>1. 1 .. 0 = {}
    OBVIOUS
  <2>2. QED
    BY <1>8, <2>1 DEF b
<1>10. ASSUME NEW k \in Nat, k \in B PROVE k + 1 \in B
  <2> SUFFICES ASSUME k + 1 <= n PROVE it[1 .. k + 1] = p[k + 1]
    OBVIOUS
  <2>1. Greatest(1 .. k + 1) = k + 1 /\ (1 .. k + 1) \ {k + 1} = 1 .. k
    BY GreatestOfFirst
  <2>2. 1 .. k + 1 \in SUBSET D /\ 1 .. k + 1 # {} /\ k + 1 \in D /\ k < n /\ k <= n
    <3>1. k + 1 \in 1 .. k + 1 /\ k + 1 \in D /\ k < n /\ k <= n
      OBVIOUS
    <3>2. \A x \in 1 .. k + 1 : x \in D
      OBVIOUS
    <3>3. QED
      BY <3>1, <3>2
  <2>3. it[1 .. k + 1] = it[1 .. k] + s[k + 1].len + C(k + 1)
    BY <1>8, <2>1, <2>2
  <2>4. it[1 .. k] = p[k] /\ p[k] \in Int
    BY <1>10, <2>2
  <2>5. p[k + 1] = p[k] + Cost(s[k + 1].len)
    BY <2>2 DEF s
  <2>6. s[k + 1].len \in Nat /\ C(k + 1) \in Int /\ Cost(s[k + 1].len) = s[k + 1].len + C(k + 1)
    BY <1>3, <2>2
  <2> HIDE DEF D
  <2>7. QED
    BY <2>3, <2>4, <2>5, <2>6
<1> HIDE DEF B
<1>11. \A k \in Nat : k \in B
  BY <1>9, <1>10, Inducts
<1>12. n \in B
  BY <1>11
<1>13. it[D] = p[n]
  BY <1>12 DEF B
<1>14. QED
  BY <1>2, <1>13

(* The cells of the chunks of all streams of X lie between a and n: p sums *)
(* them up, and comes to a rest.                                           *)
Reckons(p, X, a, n) ==
  /\ p \in [Nat -> Int] /\ p[0] = a
  /\ \A m \in Nat : p[m + 1] = p[m] + Cost(LenOf(X[m + 1]))
  /\ \E h \in Nat : \A m \in Nat : m >= h => p[m] = n

Sized(X, a, n) == \E p : Reckons(p, X, a, n)

(* A stream costs its bytes and two cells for each chunk.                  *)
LEMMA CostOf ==
  ASSUME NEW x, Packed(x)
  PROVE  Cost(LenOf(x)) = LenOf(x) + 2 * Len(x) /\ LenOf(x) \in Nat /\ Len(x) \in Nat
BY LenOfFacts, ExtentFacts DEF Cost, Packed

(* A stream without bytes costs nothing.                                   *)
LEMMA CostNone == Cost(LenOf(<<>>)) = 0
<1>1. Packed(<<>>)
  BY EmptySeq DEF Packed
<1>2. LenOf(<<>>) = 0 /\ Len(<<>>) = 0
  BY EmptySeq DEF LenOf
<1>3. QED
  BY <1>1, <1>2, CostOf

(* No chunks take no cells.                                                *)
LEMMA SizedNone ==
  ASSUME NEW X, X = [i \in Pos |-> <<>>], NEW a \in Nat
  PROVE  Sized(X, a, a)
<1> DEFINE p == [m \in Nat |-> a]
<1>1. \A m \in Nat : X[m + 1] = <<>>
  BY DEF Pos
<1>2. \A m \in Nat : p[m + 1] = p[m] + Cost(LenOf(X[m + 1]))
  BY <1>1, CostNone
<1>3. Reckons(p, X, a, a)
  BY <1>2 DEF Reckons
<1>4. QED
  BY <1>3 DEF Sized

(* A chunk more costs its bytes and two cells.                             *)
LEMMA SizedGrow ==
  ASSUME NEW X \in Maps, NEW a, NEW n \in Nat, Sized(X, a, n),
         NEW i \in Pos, LastFull(X[i]), NEW y \in Extents
  PROVE  Sized(Added(X, i, y), a, n + 2 + y.len)
<1> DEFINE Z == Added(X, i, y)
           l == y.len + 2
           c(m) == Cost(LenOf(X[m + 1]))
           d(m) == Cost(LenOf(Z[m + 1]))
<1>1. PICK p : Reckons(p, X, a, n)
  BY DEF Sized
<1>2. /\ p \in [Nat -> Int] /\ p[0] = a /\ \A m \in Nat : p[m + 1] = p[m] + c(m)
  BY <1>1 DEF Reckons
<1>3. PICK h \in Nat : \A m \in Nat : m >= h => p[m] = n
  BY <1>1 DEF Reckons
<1>4. y.len \in Nat /\ l \in Nat /\ i \in Nat /\ i >= 1
  BY ChunkAssumption DEF Extents, Pos
<1>5. \A m \in Nat : m + 1 \in Pos
  BY DEF Pos
<1>6. \A m \in Nat : c(m) \in Int
  <2> SUFFICES ASSUME NEW m \in Nat PROVE c(m) \in Int
    OBVIOUS
  <2>1. Packed(X[m + 1])
    BY <1>5, MapFacts
  <2>2. QED
    BY <2>1, CostOf
<1>7. \A m \in Nat : m + 1 # i => d(m) = c(m)
  BY <1>5, AddedFacts
<1>8. \A m \in Nat : m + 1 = i => d(m) = c(m) + l
  <2> SUFFICES ASSUME NEW m \in Nat, m + 1 = i PROVE d(m) = c(m) + l
    OBVIOUS
  <2>1. Packed(X[i]) /\ Z[i] = Append(X[i], y)
    BY MapFacts, AddedFacts
  <2>2. Packed(Z[i]) /\ LenOf(Z[i]) = LenOf(X[i]) + y.len /\ Len(Z[i]) = Len(X[i]) + 1
    BY <2>1, PackedAppend
  <2> HIDE DEF Z
  <2>3. Cost(LenOf(Z[i])) = Cost(LenOf(X[i])) + l
    <3> DEFINE g == LenOf(X[i])
               k == Len(X[i])
               g2 == LenOf(Z[i])
               k2 == Len(Z[i])
    <3>1. g \in Nat /\ k \in Nat /\ Cost(g) = g + 2 * k /\ Cost(g2) = g2 + 2 * k2
      BY <2>1, <2>2, CostOf
    <3>2. g2 = g + y.len /\ k2 = k + 1
      BY <2>2
    <3> HIDE DEF g, k, g2, k2
    <3>3. Cost(g2) = Cost(g) + l
      BY <1>4, <3>1, <3>2
    <3>4. QED
      BY <3>3 DEF g, g2
  <2>4. QED
    BY <2>3
<1> HIDE DEF c, d, l, Z
<1> DEFINE q == [m \in Nat |-> IF m < i THEN p[m] ELSE p[m] + l]
<1>9. q \in [Nat -> Int] /\ q[0] = a
  BY <1>2, <1>4
<1>10. \A m \in Nat : q[m + 1] = q[m] + d(m)
  <2> SUFFICES ASSUME NEW m \in Nat PROVE q[m + 1] = q[m] + d(m)
    OBVIOUS
  <2>0. p[m] \in Int /\ p[m + 1] \in Int /\ p[m + 1] = p[m] + c(m) /\ c(m) \in Int
    BY <1>2, <1>6
  <2>1. CASE m + 1 = i
    <3>1. q[m + 1] = p[m + 1] + l /\ q[m] = p[m]
      BY <1>4, <2>1
    <3>2. QED
      BY <1>4, <1>8, <2>0, <2>1, <3>1
  <2>2. CASE m + 1 < i
    <3>1. q[m + 1] = p[m + 1] /\ q[m] = p[m] /\ d(m) = c(m)
      BY <1>4, <1>7, <2>2
    <3>2. QED
      BY <2>0, <3>1
  <2>3. CASE m + 1 > i
    <3>1. q[m + 1] = p[m + 1] + l /\ q[m] = p[m] + l /\ d(m) = c(m)
      BY <1>4, <1>7, <2>3
    <3>2. QED
      BY <1>4, <2>0, <3>1
  <2>4. QED
    BY <1>4, <2>1, <2>2, <2>3
<1>11. \E g \in Nat : \A m \in Nat : m >= g => q[m] = n + 2 + y.len
  <2> DEFINE g == h + i
  <2>1. g \in Nat /\ \A m \in Nat : m >= g => m >= h /\ ~(m < i)
    BY <1>4
  <2>2. \A m \in Nat : m >= g => q[m] = n + l
    BY <1>3, <2>1
  <2>3. n + l = n + 2 + y.len
    BY <1>4 DEF l
  <2> HIDE DEF q
  <2>4. QED
    BY <2>1, <2>2, <2>3
<1>12. Reckons(q, Z, a, n + 2 + y.len)
  <2> HIDE DEF q
  <2>1. QED
    BY <1>9, <1>10, <1>11 DEF Reckons, d
<1>13. QED
  BY <1>12 DEF Sized, Z

(* The sum is the archive's size, but for the end marker.                  *)
LEMMA SizedSize ==
  ASSUME NEW X \in Maps, NEW a, NEW m \in Nat, DOMAIN a.s = 1 .. m,
         \A i \in 1 .. m : a.s[i].len = LenOf(X[i]),
         \A i \in Pos : i > m => X[i] = <<>>,
         Len(a.tune) \in Nat, NEW n \in Nat, Sized(X, 2 + Len(a.tune), n)
  PROVE  arc_size(a) = n + 1
<1>1. PICK p : Reckons(p, X, 2 + Len(a.tune), n)
  BY DEF Sized
<1>2. /\ p \in [Nat -> Int] /\ p[0] = 2 + Len(a.tune)
      /\ \A k \in Nat : p[k + 1] = p[k] + Cost(LenOf(X[k + 1]))
  BY <1>1 DEF Reckons
<1>3. PICK h \in Nat : \A k \in Nat : k >= h => p[k] = n
  BY <1>1 DEF Reckons
<1>4. \A i \in 1 .. m : i \in Pos /\ a.s[i].len \in Nat
  <2> SUFFICES ASSUME NEW i \in 1 .. m PROVE i \in Pos /\ LenOf(X[i]) \in Nat
    OBVIOUS
  <2>1. i \in Pos
    BY DEF Pos
  <2>2. QED
    BY <2>1, MapFacts, CostOf
<1> DEFINE B == {k \in Nat : p[m + k] = p[m]}
<1>5. 0 \in B
  OBVIOUS
<1>6. ASSUME NEW k \in Nat, k \in B PROVE k + 1 \in B
  <2>1. m + k \in Nat /\ m + (k + 1) = (m + k) + 1 /\ m + k + 1 \in Pos /\ m + k + 1 > m
    BY DEF Pos
  <2>2. X[m + k + 1] = <<>>
    BY <2>1
  <2>3. p[m + (k + 1)] = p[m + k] + 0
    BY <1>2, <2>1, <2>2, CostNone
  <2>4. p[m] \in Int
    BY <1>2
  <2>5. QED
    BY <1>6, <2>3, <2>4
<1> HIDE DEF B
<1>7. \A k \in Nat : k \in B
  BY <1>5, <1>6, Inducts
<1>8. p[m] = n
  <2>1. p[m + h] = p[m]
    BY <1>7 DEF B
  <2>2. QED
    BY <1>3, <2>1
<1> DEFINE q == [k \in Nat |-> p[k] + 1]
<1>9. q \in [Nat -> Int] /\ q[0] = 3 + Len(a.tune) /\ q[m] = n + 1
  <2> DEFINE u == Len(a.tune)
  <2>1. u \in Nat /\ p[0] = 2 + u
    BY <1>2
  <2> HIDE DEF u
  <2>2. q[0] = 3 + u
    BY <2>1
  <2>3. q \in [Nat -> Int] /\ q[m] = n + 1
    BY <1>2, <1>8
  <2>4. QED
    BY <2>2, <2>3 DEF u
<1>10. \A k \in Nat : k < m => q[k + 1] = q[k] + Cost(a.s[k + 1].len)
  <2> SUFFICES ASSUME NEW k \in Nat, k < m PROVE q[k + 1] = q[k] + Cost(a.s[k + 1].len)
    OBVIOUS
  <2>1. k + 1 \in 1 .. m
    OBVIOUS
  <2>2. a.s[k + 1].len = LenOf(X[k + 1]) /\ a.s[k + 1].len \in Nat
    BY <1>4, <2>1
  <2>3. p[k + 1] = p[k] + Cost(a.s[k + 1].len) /\ p[k] \in Int /\ Cost(a.s[k + 1].len) \in Int
    BY <1>2, <2>2, CostFacts
  <2>4. q[k + 1] = p[k + 1] + 1 /\ q[k] = p[k] + 1
    OBVIOUS
  <2>5. QED
    BY <2>3, <2>4
<1> HIDE DEF q
<1>11. arc_size(a) = q[m]
  BY <1>4, <1>9, <1>10, SizeIsSum
<1>12. QED
  BY <1>9, <1>11

-----------------------------------------------------------------------------
(* Streams whose bytes are all on file.                                    *)

StreamOf(data, ext, len, at, buf, live, dirty, done) ==
  [data |-> data, ext |-> ext, len |-> len, at |-> at, buf |-> buf,
   live |-> live, dirty |-> dirty, done |-> done]

OnFile(x) == StreamOf(<<>>, x, LenOf(x), 0, <<>>, FALSE, FALSE, FALSE)

(* The fields of a stream.                                                 *)
LEMMA FieldsOf ==
  ASSUME NEW data, NEW ext, NEW len, NEW at, NEW buf, NEW live, NEW dirty, NEW done,
         NEW st, st = StreamOf(data, ext, len, at, buf, live, dirty, done)
  PROVE  /\ st.data = data /\ st.ext = ext /\ st.len = len /\ st.at = at /\ st.buf = buf
         /\ st.live = live /\ st.dirty = dirty /\ st.done = done
BY DEF StreamOf

(* What the assignments of bf_extent_add make of a stream.                 *)
LEMMA ExtentAdded ==
  ASSUME NEW data, NEW ext, NEW len, NEW at, NEW buf, NEW live, NEW dirty, NEW done,
         NEW st, st = StreamOf(data, ext, len, at, buf, live, dirty, done), NEW off, NEW l
  PROVE  bf_extent_add(st, off, l)
           = StreamOf(data, Append(ext, Extent(off, l)), len + l, at, buf, live, dirty, done)
<1> DEFINE z == Append(ext, Extent(off, l))
           n == len + l
<1>1. st.ext = ext /\ st.len = len
  BY FieldsOf
<1>2. bf_extent_add(st, off, l) = [st EXCEPT !.ext = z, !.len = n]
  BY <1>1 DEF bf_extent_add
<1> HIDE DEF z, n
<1>3. [st EXCEPT !.ext = z] = StreamOf(data, z, len, at, buf, live, dirty, done)
  BY SMT DEF StreamOf
<1>4. [StreamOf(data, z, len, at, buf, live, dirty, done) EXCEPT !.len = n]
        = StreamOf(data, z, n, at, buf, live, dirty, done)
  BY SMT DEF StreamOf
<1>5. [st EXCEPT !.ext = z, !.len = n] = [[st EXCEPT !.ext = z] EXCEPT !.len = n]
  OBVIOUS
<1>6. QED
  BY <1>2, <1>3, <1>4, <1>5 DEF z, n

Packs == {x \in Seq(Extents) : Packed(x)}
ReadStreams == {OnFile(x) : x \in Packs}

(* The extents of each of the streams s, and none for those that are not.  *)
Exts(s) == [i \in Pos |-> IF i \in DOMAIN s THEN s[i].ext ELSE <<>>]

(* A stream without extents has no bytes.                                  *)
LEMMA EmptyPacked == <<>> \in Packs /\ Packed(<<>>) /\ LastFull(<<>>) /\ LenOf(<<>>) = 0
BY EmptySeq DEF Packs, Packed, LastFull, LenOf

(* The streams the reader has, and their extents.                          *)
LEMMA ReadFacts ==
  ASSUME NEW s \in Seq(ReadStreams)
  PROVE  /\ Len(s) \in Nat /\ DOMAIN s = 1 .. Len(s)
         /\ \A i \in 1 .. Len(s) :
              /\ i \in Pos /\ s[i].ext \in Packs /\ s[i] = OnFile(s[i].ext)
              /\ s[i].data = <<>> /\ s[i].dirty = FALSE
              /\ s[i].len = LenOf(s[i].ext) /\ s[i].len \in Nat
              /\ Exts(s)[i] = s[i].ext
         /\ \A i \in Pos : i > Len(s) => Exts(s)[i] = <<>>
         /\ Exts(s) \in Maps
<1>1. Len(s) \in Nat /\ DOMAIN s = 1 .. Len(s)
  BY LenProperties
<1>2. \A st \in ReadStreams : st.ext \in Packs /\ st = OnFile(st.ext)
  BY DEF ReadStreams, OnFile, StreamOf
<1>3. ASSUME NEW i \in 1 .. Len(s)
      PROVE  /\ i \in Pos /\ s[i].ext \in Packs /\ s[i] = OnFile(s[i].ext)
             /\ s[i].data = <<>> /\ s[i].dirty = FALSE
             /\ s[i].len = LenOf(s[i].ext) /\ s[i].len \in Nat
             /\ Exts(s)[i] = s[i].ext
  <2>1. s[i] \in ReadStreams
    BY ElementOfSeq
  <2>2. s[i].ext \in Packs /\ s[i] = OnFile(s[i].ext) /\ i \in Pos
    BY <1>1, <1>2, <2>1 DEF Pos
  <2>3. s[i].data = <<>> /\ s[i].dirty = FALSE /\ s[i].len = LenOf(s[i].ext)
    <3> DEFINE x == s[i].ext
    <3>1. s[i] = OnFile(x)
      BY <2>2
    <3> HIDE DEF x
    <3>2. s[i].data = <<>> /\ s[i].dirty = FALSE /\ s[i].len = LenOf(x)
      BY <3>1 DEF OnFile, StreamOf
    <3>3. QED
      BY <3>2 DEF x
  <2>4. LenOf(s[i].ext) \in Nat
    BY <2>2, LenOfFacts DEF Packs
  <2>5. QED
    BY <1>1, <2>2, <2>3, <2>4 DEF Exts
<1>4. \A i \in Pos : i > Len(s) => Exts(s)[i] = <<>>
  BY <1>1 DEF Exts, Pos
<1>5. Exts(s) \in Maps
  <2>1. \A i \in Pos : Exts(s)[i] \in Packs
    BY <1>1, <1>3, EmptyPacked DEF Exts
  <2>2. Exts(s) \in [Pos -> Seq(Extents)]
    BY <2>1 DEF Exts, Packs
  <2>3. QED
    BY <2>1, <2>2 DEF Maps, Packs
<1>6. QED
  BY <1>1, <1>3, <1>4, <1>5

(* A chunk more on file.                                                   *)
LEMMA OnFileAdds ==
  ASSUME NEW x \in Packs, LastFull(x), NEW off \in Nat, NEW l \in 1 .. Chunk
  PROVE  /\ bf_extent_add(OnFile(x), off, l) = OnFile(Append(x, Extent(off, l)))
         /\ Append(x, Extent(off, l)) \in Packs
<1>1. Extent(off, l) \in Extents /\ Extent(off, l).len = l
  BY DEF Extent, Extents
<1>2. /\ Packed(Append(x, Extent(off, l)))
      /\ LenOf(Append(x, Extent(off, l))) = LenOf(x) + l
  BY <1>1, PackedAppend DEF Packs
<1>3. Append(x, Extent(off, l)) \in Packs
  BY <1>2 DEF Packs, Packed
<1>4. bf_extent_add(OnFile(x), off, l) = OnFile(Append(x, Extent(off, l)))
  <2> DEFINE st == OnFile(x)
             z == Append(x, Extent(off, l))
  <2>1. st = StreamOf(<<>>, x, LenOf(x), 0, <<>>, FALSE, FALSE, FALSE)
    BY DEF OnFile
  <2>2. st.ext = x /\ st.len = LenOf(x)
    BY <2>1 DEF StreamOf
  <2>3. bf_extent_add(st, off, l)
          = StreamOf(<<>>, z, LenOf(x) + l, 0, <<>>, FALSE, FALSE, FALSE)
    <3> DEFINE n == LenOf(x)
               e == <<>>
               no == FALSE
    <3>1. st = StreamOf(e, x, n, 0, e, no, no, no)
      BY <2>1
    <3> HIDE DEF st, n, e, no
    <3>2. bf_extent_add(st, off, l)
          = StreamOf(e, Append(x, Extent(off, l)), n + l, 0, e, no, no, no)
      BY <3>1, ExtentAdded
    <3>3. QED
      BY <3>2 DEF n, e, no
  <2>4. QED
    BY <1>2, <2>3 DEF OnFile
<1>5. QED
  BY <1>3, <1>4

(* A stream that has been named only is on file.                           *)
LEMMA NewIsOnFile == Stream(<<>>) = OnFile(<<>>)
BY EmptyPacked, EmptySeq DEF Stream, OnFile, StreamOf

(* The reader grows its list of streams to the one a chunk is of.          *)
LEMMA GrownFacts ==
  ASSUME NEW s \in Seq(ReadStreams), NEW id \in Pos
  PROVE  /\ Grown(s, id) \in Seq(ReadStreams)
         /\ id \in 1 .. Len(Grown(s, id)) /\ Len(s) <= Len(Grown(s, id))
         /\ Exts(Grown(s, id)) = Exts(s)
         /\ Grown(s, id)[id] = OnFile(Exts(s)[id])
<1> DEFINE g == Grown(s, id)
           n == IF Len(s) < id THEN id ELSE Len(s)
<1>1. /\ Len(s) \in Nat /\ DOMAIN s = 1 .. Len(s)
      /\ \A i \in 1 .. Len(s) : s[i].ext \in Packs /\ s[i] = OnFile(s[i].ext)
  BY ReadFacts
<1>2. n \in Nat /\ Len(s) <= n /\ id <= n /\ id \in 1 .. n
  BY <1>1 DEF Pos
<1>3. g = [i \in 1 .. n |-> IF i <= Len(s) THEN s[i] ELSE Stream(<<>>)]
  BY DEF Grown
<1> HIDE DEF g, n
<1>4. \A i \in 1 .. n : g[i] = IF i <= Len(s) THEN s[i] ELSE OnFile(<<>>)
  BY <1>3, NewIsOnFile
<1>5. \A i \in 1 .. n : g[i] \in ReadStreams
  <2> SUFFICES ASSUME NEW i \in 1 .. n PROVE g[i] \in ReadStreams
    OBVIOUS
  <2>1. CASE i <= Len(s)
    <3>1. i \in 1 .. Len(s)
      BY <1>1, <1>2, <2>1
    <3>2. QED
      BY <1>4, <2>1, <3>1, ElementOfSeq
  <2>2. CASE ~(i <= Len(s))
    BY <1>4, <2>2, EmptyPacked DEF ReadStreams
  <2>3. QED
    BY <2>1, <2>2
<1>6. g \in Seq(ReadStreams) /\ Len(g) = n /\ DOMAIN g = 1 .. n
  <2>1. g = [i \in 1 .. n |-> g[i]]
    BY <1>3
  <2>2. g \in [1 .. n -> ReadStreams]
    BY <1>5, <2>1
  <2>3. QED
    BY <1>2, <2>2
<1>7. \A i \in Pos : Exts(g)[i] = Exts(s)[i]
  <2> SUFFICES ASSUME NEW i \in Pos PROVE Exts(g)[i] = Exts(s)[i]
    OBVIOUS
  <2>1. CASE i \in 1 .. Len(s)
    <3>1. i \in 1 .. n /\ g[i] = s[i]
      BY <1>1, <1>2, <1>4, <2>1
    <3>2. QED
      BY <1>1, <1>6, <2>1, <3>1 DEF Exts
  <2>2. CASE i \notin 1 .. Len(s)
    <3>1. Exts(s)[i] = <<>>
      BY <1>1, <2>2 DEF Exts
    <3>2. CASE i \in 1 .. n
      <4>1. g[i] = OnFile(<<>>)
        BY <1>1, <1>4, <2>2, <3>2
      <4>2. g[i].ext = <<>>
        BY <4>1 DEF OnFile, StreamOf
      <4>3. QED
        BY <1>6, <3>1, <3>2, <4>2 DEF Exts
    <3>3. CASE i \notin 1 .. n
      BY <1>6, <3>1, <3>3 DEF Exts
    <3>4. QED
      BY <3>2, <3>3
  <2>3. QED
    BY <2>1, <2>2
<1>8. Exts(g) = Exts(s)
  BY <1>7 DEF Exts
<1>9. g[id] = OnFile(Exts(s)[id])
  <2>1. g[id] = OnFile(g[id].ext) /\ Exts(g)[id] = g[id].ext
    BY <1>2, <1>6, ReadFacts
  <2>2. QED
    BY <1>8, <2>1
<1>10. QED
  BY <1>2, <1>6, <1>8, <1>9 DEF g

(* One round of the reader gives one stream one extent more.               *)
ReadAlso(s, id, off, l) == [Grown(s, id) EXCEPT ![id] = bf_extent_add(@, off, l)]

(* What a round of the reader does to the extents, in one piece.           *)
LEMMA ReaderAdds ==
  ASSUME NEW s \in Seq(ReadStreams), NEW id \in Pos, NEW off \in Nat, NEW l \in 1 .. Chunk,
         id <= Len(s) => s[id].len % Chunk = 0,
         NEW g, g = Grown(s, id), NEW t, t = ReadAlso(s, id, off, l)
  PROVE  /\ t \in Seq(ReadStreams) /\ Len(t) = Len(g) /\ t # <<>>
         /\ Exts(t) = Added(Exts(s), id, Extent(off, l))
         /\ LastFull(Exts(s)[id])
         /\ g[id].len = Chunk * Len(Exts(s)[id])
         /\ Len(s) <= Len(t) /\ id \in 1 .. Len(t)
<1> DEFINE X == Exts(s)
           x == X[id]
           y == Extent(off, l)
<1>1. /\ Len(s) \in Nat /\ X \in Maps
      /\ \A i \in 1 .. Len(s) : X[i] = s[i].ext /\ s[i].len = LenOf(s[i].ext)
      /\ \A i \in Pos : i > Len(s) => X[i] = <<>>
  BY ReadFacts
<1>2. /\ g \in Seq(ReadStreams) /\ id \in 1 .. Len(g) /\ Len(s) <= Len(g)
      /\ Exts(g) = X /\ g[id] = OnFile(x)
  BY GrownFacts
<1>3. Packed(x) /\ x \in Packs
  BY <1>1, MapFacts DEF Packs
<1> HIDE DEF X
<1>4. LastFull(x)
  <2>1. CASE id <= Len(s)
    <3>1. id \in 1 .. Len(s)
      BY <1>1, <2>1 DEF Pos
    <3>2. LenOf(x) % Chunk = 0
      BY <1>1, <2>1, <3>1
    <3>3. QED
      BY <1>3, <3>2, LenOfFacts
  <2>2. CASE ~(id <= Len(s))
    <3>1. x = <<>>
      BY <1>1, <2>2 DEF Pos
    <3>2. QED
      BY <3>1, EmptyPacked
  <2>3. QED
    BY <2>1, <2>2
<1>5. g[id].len = Chunk * Len(x)
  <2>1. OnFile(x).len = LenOf(x)
    BY DEF OnFile, StreamOf
  <2>2. QED
    BY <1>2, <1>3, <1>4, <2>1, LenOfFacts
<1>6. bf_extent_add(g[id], off, l) = OnFile(Append(x, y)) /\ Append(x, y) \in Packs
  BY <1>2, <1>3, <1>4, OnFileAdds
<1>7. bf_extent_add(g[id], off, l) \in ReadStreams
  BY <1>6 DEF ReadStreams
<1>8. /\ t \in Seq(ReadStreams) /\ Len(t) = Len(g)
      /\ \A j \in 1 .. Len(g) : t[j] = IF j = id THEN OnFile(Append(x, y)) ELSE g[j]
  <2>1. t = [g EXCEPT ![id] = OnFile(Append(x, y))]
    BY <1>6 DEF ReadAlso
  <2>2. QED
    BY <1>2, <1>6, <1>7, <2>1, ExceptSeq
<1>9. Len(g) \in Nat /\ DOMAIN g = 1 .. Len(g) /\ DOMAIN t = 1 .. Len(g)
  BY <1>2, <1>8, LenProperties
<1> HIDE DEF x, y
<1>10. \A i \in Pos : Exts(t)[i] = IF i = id THEN Append(x, y) ELSE X[i]
  <2> SUFFICES ASSUME NEW i \in Pos
               PROVE  Exts(t)[i] = IF i = id THEN Append(x, y) ELSE X[i]
    OBVIOUS
  <2>1. CASE i = id
    <3>1. t[i] = OnFile(Append(x, y)) /\ Exts(t)[i] = t[i].ext
      BY <1>2, <1>8, <1>9, <2>1 DEF Exts
    <3>2. OnFile(Append(x, y)).ext = Append(x, y)
      BY DEF OnFile, StreamOf
    <3>3. QED
      BY <2>1, <3>1, <3>2
  <2>2. CASE i # id
    <3>1. Exts(t)[i] = Exts(g)[i]
      BY <1>8, <1>9, <2>2 DEF Exts
    <3>2. QED
      BY <1>2, <2>2, <3>1
  <2>3. QED
    BY <2>1, <2>2
<1>11. Exts(t) = Added(X, id, y)
  <2>1. X \in [Pos -> Seq(Extents)]
    BY <1>1 DEF Maps
  <2>2. Added(X, id, y) = [i \in Pos |-> IF i = id THEN Append(x, y) ELSE X[i]]
    BY <2>1 DEF Added, x
  <2>3. Exts(t) = [i \in Pos |-> Exts(t)[i]]
    BY DEF Exts
  <2>4. QED
    BY <1>10, <2>2, <2>3
<1>12. t # <<>>
  BY <1>2, <1>8, EmptySeq
<1>13. QED
  BY <1>2, <1>4, <1>5, <1>8, <1>11, <1>12 DEF X, x, y

-----------------------------------------------------------------------------
(* The chunks as they are listed, and what each of them is emitted as.     *)

Chunks == [stream : Pos, off : Nat, len : 1 .. Chunk]

(* c is the chunk of the extent k of its stream.                           *)
Names(s, c, k) ==
  /\ c \in Chunks /\ c.stream \in 1 .. Len(s) /\ k \in 1 .. Len(s[c.stream].ext)
  /\ c.off = Chunk * (k - 1) /\ c.len = s[c.stream].ext[k].len

Listed(s, q) == \A c \in 1 .. Len(q) : \E k : Names(s, q[c], k)

Body(s, c) == <<c.stream, c.len>> \o [k \in 1 .. c.len |-> StreamByte(s[c.stream], c.off + k - 1)]
Bodies(s, q) == [c \in DOMAIN q |-> Body(s, q[c])]

(* Of s, a stream on file with the extents x, the byte at an offset in the *)
(* extent k.                                                               *)
LEMMA ByteOnFile ==
  ASSUME NEW st \in ReadStreams, NEW k \in 1 .. Len(st.ext),
         NEW j \in 1 .. st.ext[k].len
  PROVE  StreamByte(st, Chunk * (k - 1) + j - 1) = output[st.ext[k].off + j]
<1> DEFINE at == Chunk * (k - 1) + (j - 1)
           x == st.ext
<1>1. PICK y \in Packs : st = OnFile(y)
  BY DEF ReadStreams
<1>2. st.data = <<>> /\ st.dirty = FALSE /\ x = y
  BY <1>1 DEF OnFile, StreamOf
<1>3. Chunk \in Nat \ {0} /\ Len(x) \in Nat /\ x[k].len \in 1 .. Chunk /\ x[k].off \in Nat
  BY <1>2, ExtentFacts, ChunkAssumption DEF Packs
<1>4. k - 1 \in Nat /\ j - 1 \in 0 .. Chunk - 1
  BY <1>3
<1>5. at \in Nat /\ at \div Chunk = k - 1 /\ at % Chunk = j - 1
  BY <1>4, Divided
<1>6. Chunk * (k - 1) + j - 1 = at
  <2>1. Chunk * (k - 1) \in Nat
    BY <1>3, <1>4
  <2>2. QED
    BY <1>4, <2>1
<1> HIDE DEF at
<1>7. StreamByte(st, at) = Cell(x[at \div Chunk + 1].off + (at % Chunk))
  BY <1>2 DEF StreamByte
<1>8. at \div Chunk + 1 = k /\ (x[k].off + (j - 1)) + 1 = x[k].off + j
  BY <1>3, <1>5
<1>9. StreamByte(st, at) = Cell(x[k].off + (j - 1))
  BY <1>5, <1>7, <1>8
<1>10. QED
  BY <1>6, <1>8, <1>9 DEF Cell

(* A chunk that is emitted is what its extent and its fields have on file. *)
LEMMA BodyIs ==
  ASSUME output \in Seq(Nat), NEW s \in Seq(ReadStreams), NEW a \in Nat, NEW n \in Nat,
         n <= Len(output), FieldsTell(Exts(s), output, a, n),
         NEW c, NEW k, Names(s, c, k)
  PROVE  LET e == s[c.stream].ext[k]
         IN  /\ Body(s, c) = SubSeq(output, e.off - 1, e.off + e.len)
             /\ Body(s, c) \in Seq(Nat)
<1> DEFINE i == c.stream
           x == s[i].ext
           f == x[k].off
           l == x[k].len
           p == [j \in 1 .. l |-> StreamByte(s[i], c.off + j - 1)]
           b == <<i, l>> \o p
           z == SubSeq(output, f - 1, f + l)
<1>0. /\ c \in Chunks /\ i \in 1 .. Len(s) /\ k \in 1 .. Len(x)
      /\ c.off = Chunk * (k - 1) /\ c.len = l
  BY DEF Names
<1>1. /\ i \in Pos /\ x \in Packs /\ s[i] \in ReadStreams /\ Exts(s)[i] = x
  BY <1>0, ReadFacts, ElementOfSeq
<1>2. Chunk \in Nat \ {0} /\ f \in Nat /\ l \in 1 .. Chunk /\ l \in Nat
  BY <1>0, <1>1, ExtentFacts, ChunkAssumption DEF Packs
<1>3. a + 2 <= f /\ f + l <= n /\ output[f - 1] = i /\ output[f] = l
  BY <1>0, <1>1 DEF FieldsTell
<1>4. \A j \in 1 .. l : StreamByte(s[i], c.off + j - 1) = output[f + j]
  BY <1>0, <1>1, ByteOnFile
<1>5. \A m \in 1 .. n : output[m] \in Nat
  <2>1. Len(output) \in Nat /\ \A m \in 1 .. Len(output) : output[m] \in Nat
    BY LenProperties, ElementOfSeq
  <2>2. QED
    BY <2>1
<1>6. Body(s, c) = b
  BY <1>0 DEF Body
<1> HIDE DEF x, f, l
<1>7. \A j \in 1 .. l : p[j] = output[f + j] /\ output[f + j] \in Nat
  <2>1. \A j \in 1 .. l : f + j \in 1 .. n
    BY <1>2, <1>3
  <2>2. QED
    BY <1>4, <1>5, <2>1
<1>8. p \in Seq(Nat) /\ Len(p) = l
  <2>1. p \in [1 .. l -> Nat]
    BY <1>4, <1>7
  <2> HIDE DEF p
  <2>2. QED
    BY <1>2, <2>1
<1> HIDE DEF p
<1>9. <<i, l>> \in Seq(Nat) /\ Len(<<i, l>>) = 2 /\ <<i, l>>[1] = i /\ <<i, l>>[2] = l
  BY <1>1, <1>2 DEF Pos
<1> DEFINE h == <<i, l>>
<1>10. h \in Seq(Nat) /\ Len(h) = 2 /\ h[1] = i /\ h[2] = l /\ b = h \o p
  BY <1>9
<1> HIDE DEF h, b
<1>11. b \in Seq(Nat) /\ Len(b) = 2 + l
       /\ \A j \in 1 .. 2 + l : b[j] = IF j <= 2 THEN h[j] ELSE p[j - 2]
  <2>1. /\ h \o p \in Seq(Nat) /\ Len(h \o p) = Len(h) + Len(p)
        /\ \A j \in 1 .. Len(h) + Len(p) : (h \o p)[j] = IF j <= Len(h) THEN h[j] ELSE p[j - Len(h)]
    BY <1>8, <1>10, ConcatProperties
  <2>2. QED
    BY <1>8, <1>10, <2>1
<1>12. z \in Seq(Nat) /\ Len(z) = 2 + l /\ \A j \in 1 .. 2 + l : z[j] = output[f - 1 + j - 1]
  <2> DEFINE u == f - 1
             w == f + l
  <2>1. \A m \in u .. w : m \in 1 .. n
    BY <1>2, <1>3
  <2>2. u <= w /\ w - u + 1 = 2 + l /\ u \in Int /\ w \in Int
    BY <1>2
  <2>3. z = SubSeq(output, u, w)
    BY DEF z
  <2> HIDE DEF u, w
  <2>4. \A m \in u .. w : output[m] \in Nat
    BY <1>5, <2>1
  <2>5. /\ SubSeq(output, u, w) \in Seq(Nat) /\ Len(SubSeq(output, u, w)) = w - u + 1
        /\ \A j \in 1 .. w - u + 1 : SubSeq(output, u, w)[j] = output[u + j - 1]
    BY <2>2, <2>4, SubSeqProperties
  <2>6. z \in Seq(Nat) /\ Len(z) = 2 + l /\ \A j \in 1 .. 2 + l : z[j] = output[u + j - 1]
    BY <2>2, <2>3, <2>5
  <2>7. QED
    BY <2>6 DEF u
<1> HIDE DEF z
<1>13. \A j \in 1 .. 2 + l : b[j] = z[j]
  <2> SUFFICES ASSUME NEW j \in 1 .. 2 + l PROVE b[j] = z[j]
    OBVIOUS
  <2>0. 1 \in 1 .. 2 + l /\ 2 \in 1 .. 2 + l
    BY <1>2
  <2> HIDE DEF b, h
  <2>1. CASE j = 1
    <3>1. f - 1 + 1 - 1 = f - 1
      BY <1>2
    <3>2. b[1] = i
      <4>1. b[1] = IF 1 <= 2 THEN h[1] ELSE p[1 - 2]
        BY <1>11, <2>0
      <4>2. QED
        BY <1>10, <4>1
    <3>3. z[1] = output[f - 1 + 1 - 1]
      BY <1>12, <2>0
    <3>4. QED
      BY <1>3, <2>1, <3>1, <3>2, <3>3
  <2>2. CASE j = 2
    <3>1. f - 1 + 2 - 1 = f
      BY <1>2
    <3>2. b[2] = l
      BY <1>10, <1>11, <2>0
    <3>3. z[2] = output[f - 1 + 2 - 1]
      BY <1>12, <2>0
    <3>4. QED
      BY <1>3, <2>2, <3>1, <3>2, <3>3
  <2>3. CASE j > 2
    <3>1. j - 2 \in 1 .. l /\ f - 1 + j - 1 = f + (j - 2) /\ ~(j <= 2)
      BY <1>2, <2>3
    <3>2. b[j] = p[j - 2] /\ z[j] = output[f + (j - 2)]
      BY <1>11, <1>12, <3>1
    <3>3. QED
      BY <1>7, <3>1, <3>2
  <2>4. QED
    BY <1>2, <2>1, <2>2, <2>3
<1>14. b = z
  BY <1>11, <1>12, <1>13, SeqEqual
<1>15. QED
  BY <1>6, <1>11, <1>14 DEF z, f, l, x

(* The reader has come from a to n: s has the extents of the chunks there, *)
(* q lists them in their order, and they are what is there.                *)
Parsed(s, q, a, n) ==
  /\ s \in Seq(ReadStreams) /\ Tiles(Exts(s), output, a, n) /\ Sized(Exts(s), a, n)
  /\ q \in Seq(Chunks) /\ Listed(s, q) /\ (q = <<>> => s = <<>>)
  /\ Bodies(s, q) \in Seq(Seq(Nat))
  /\ FlattenSeq(Bodies(s, q)) = SubSeq(output, a + 1, n)

(* Nothing has been read at the first chunk.                               *)
LEMMA ParsedNone ==
  ASSUME NEW a \in Nat
  PROVE  Parsed(<<>>, <<>>, a, a)
<1>1. <<>> \in Seq(ReadStreams) /\ Exts(<<>>) = [i \in Pos |-> <<>>]
  <2>1. DOMAIN <<>> = {}
    OBVIOUS
  <2>2. QED
    BY <2>1, EmptySeq DEF Exts
<1>2. Tiles(Exts(<<>>), output, a, a) /\ Sized(Exts(<<>>), a, a)
  BY <1>1, TilesNone, SizedNone
<1>3. Listed(<<>>, <<>>) /\ <<>> \in Seq(Chunks)
  BY EmptySeq DEF Listed
<1>4. Bodies(<<>>, <<>>) = <<>> /\ <<>> \in Seq(Seq(Nat))
  BY EmptySeq DEF Bodies
<1>5. SubSeq(output, a + 1, a) = <<>>
  BY SubSeqEmpty
<1>6. QED
  BY <1>1, <1>2, <1>3, <1>4, <1>5, FlattenEmpty DEF Parsed

(* A legal chunk that is read is one that is listed and emitted again.     *)
LEMMA ParsedGrows ==
  ASSUME output \in Seq(Nat), NEW s, NEW q, NEW a \in Nat, NEW n \in Nat, a <= n,
         Parsed(s, q, a, n), NEW id \in Pos, NEW l \in 1 .. Chunk,
         output[n + 1] = id, output[n + 2] = l, n + 2 + l <= Len(output),
         id <= Len(s) => s[id].len % Chunk = 0,
         NEW g, g = Grown(s, id),
         NEW t, t = ReadAlso(s, id, n + 2, l),
         NEW c, c = [stream |-> id, off |-> g[id].len, len |-> l]
  PROVE  Parsed(t, Append(q, c), a, n + 2 + l)
<1> DEFINE X == Exts(s)
           w == n + 2
           y == Extent(w, l)
           v == Len(X[id]) + 1
           N == w + l
           r == Append(q, c)
<1>1. /\ s \in Seq(ReadStreams) /\ Tiles(X, output, a, n) /\ Sized(X, a, n)
      /\ q \in Seq(Chunks) /\ Listed(s, q)
      /\ Bodies(s, q) \in Seq(Seq(Nat))
      /\ FlattenSeq(Bodies(s, q)) = SubSeq(output, a + 1, n)
  BY DEF Parsed
<1>2. /\ l \in Nat /\ l >= 1 /\ Chunk \in Nat \ {0} /\ w \in Nat
      /\ Len(output) \in Nat /\ N \in Nat
  BY ChunkAssumption, LenProperties
<1>0. t = ReadAlso(s, id, w, l)
  OBVIOUS
<1>32. w = n + 2 /\ w \in Nat /\ N = w + l /\ N <= Len(output)
  BY <1>2
<1> HIDE DEF w, N
<1>3. /\ t \in Seq(ReadStreams) /\ t # <<>>
      /\ Exts(t) = Added(X, id, y) /\ LastFull(X[id])
      /\ g[id].len = Chunk * Len(X[id]) /\ Len(s) <= Len(t) /\ id \in 1 .. Len(t)
  BY <1>0, <1>1, <1>32, ReaderAdds
<1>4. X \in Maps /\ Len(s) \in Nat /\ Len(t) \in Nat
  BY <1>1, <1>3, ReadFacts
<1>5. y \in Extents /\ y.off = w /\ y.len = l
  BY <1>32 DEF Extent, Extents
<1> HIDE DEF X
<1>6. Tiles(Exts(t), output, a, N)
  <2>1. Agree(output, output, n)
    BY DEF Agree
  <2>2. Tiles(Added(X, id, Extent(n + 2, l)), output, a, n + 2 + l)
    BY <1>1, <1>3, <2>1, TilesGrow
  <2>3. QED
    BY <1>3, <2>2 DEF w, N
<1>7. Sized(Exts(t), a, N)
  <2> HIDE DEF y
  <2>1. Sized(Added(X, id, y), a, n + 2 + y.len)
    BY <1>1, <1>3, <1>4, <1>5, SizedGrow
  <2>2. QED
    BY <1>3, <1>5, <1>32, <2>1
<1> HIDE DEF y
<1>8. /\ Exts(t)[id] = Append(X[id], y) /\ Len(Exts(t)[id]) = v /\ Exts(t)[id][v] = y
      /\ \A j \in Pos : \A k \in 1 .. Len(X[j]) :
           k \in 1 .. Len(Exts(t)[j]) /\ Exts(t)[j][k] = X[j][k]
  <2> DEFINE Z == Added(X, id, y)
  <2>1. /\ Z[id] = Append(X[id], y) /\ Len(Z[id]) = Len(X[id]) + 1 /\ Z[id][Len(X[id]) + 1] = y
        /\ \A j \in Pos : \A k \in 1 .. Len(X[j]) : k \in 1 .. Len(Z[j]) /\ Z[j][k] = X[j][k]
    BY <1>3, <1>4, <1>5, AddedFacts
  <2> HIDE DEF Z
  <2>2. Exts(t) = Z
    BY <1>3 DEF Z
  <2>3. QED
    BY <2>1, <2>2
<1>9. \A j \in 1 .. Len(s) : j \in Pos /\ X[j] = s[j].ext
  BY <1>1, ReadFacts DEF X
<1>10. \A j \in 1 .. Len(t) : j \in Pos /\ Exts(t)[j] = t[j].ext
  BY <1>3, ReadFacts
<1>11. Len(X[id]) \in Nat
  BY <1>4, MapFacts
<1>12. c \in Chunks /\ c.stream = id /\ c.off = Chunk * (v - 1) /\ c.len = l /\ v \in 1 .. v
  <2> DEFINE m == Len(X[id])
             was == g[id].len
  <2>1. m \in Nat /\ was = Chunk * m /\ v = m + 1
    BY <1>3, <1>11
  <2>2. c = [stream |-> id, off |-> was, len |-> l]
    OBVIOUS
  <2> HIDE DEF m, was, v
  <2>3. was \in Nat /\ v - 1 = m /\ v \in 1 .. v
    BY <1>2, <2>1
  <2>4. QED
    BY <2>1, <2>2, <2>3 DEF Chunks
<1>13. v \in 1 .. Len(t[id].ext) /\ t[id].ext[v] = y
  BY <1>3, <1>8, <1>10, <1>12
<1>14. /\ r \in Seq(Chunks) /\ r # <<>> /\ Len(r) = Len(q) + 1 /\ r[Len(q) + 1] = c
       /\ \A k \in 1 .. Len(q) : r[k] = q[k]
       /\ Len(q) \in Nat
  <2> HIDE DEF v
  <2>1. Len(q) \in Nat /\ c \in Chunks /\ q \in Seq(Chunks)
    BY <1>1, <1>12, LenProperties
  <2>2. r = Append(q, c)
    OBVIOUS
  <2> HIDE DEF r
  <2>3. IsLonger(r, q, c, Chunks)
    BY <2>1, <2>2, Appended
  <2>4. QED
    BY <2>1, <2>3 DEF IsLonger
<1> HIDE DEF r, v
<1>15. Names(t, c, v)
  BY <1>3, <1>5, <1>12, <1>13 DEF Names
<1>16. /\ FieldsTell(X, output, a, n) /\ FieldsTell(Exts(t), output, a, N)
       /\ n <= Len(output) /\ N <= Len(output) /\ N \in Nat
  <2>1. n <= Len(output)
    BY <1>2, <1>32
  <2>2. QED
    BY <1>1, <1>2, <1>6, <1>32, <2>1 DEF Tiles
<1>31. \A k, h : Names(t, k, h) =>
        LET e == t[k.stream].ext[h]
        IN  /\ Body(t, k) = SubSeq(output, e.off - 1, e.off + e.len)
            /\ Body(t, k) \in Seq(Nat)
  <2> DEFINE u == t
  <2>1. u \in Seq(ReadStreams) /\ FieldsTell(Exts(u), output, a, N)
    BY <1>3, <1>16
  <2>2. u = t
    OBVIOUS
  <2> HIDE DEF u
  <2>3. \A k, h : Names(u, k, h) =>
        LET e == u[k.stream].ext[h]
        IN  /\ Body(u, k) = SubSeq(output, e.off - 1, e.off + e.len)
            /\ Body(u, k) \in Seq(Nat)
    BY <1>16, <2>1, BodyIs
  <2>4. QED
    BY <2>2, <2>3
<1>17. ASSUME NEW k \in 1 .. Len(q)
       PROVE  (\E h : Names(t, q[k], h)) /\ Body(t, q[k]) = Body(s, q[k])
  <2> DEFINE d == q[k]
             j == d.stream
  <2>1. PICK h : Names(s, d, h)
    BY <1>1 DEF Listed
  <2> HIDE DEF d
  <2>2. /\ d \in Chunks /\ j \in 1 .. Len(s) /\ h \in 1 .. Len(s[j].ext)
        /\ d.off = Chunk * (h - 1) /\ d.len = s[j].ext[h].len
    BY <2>1 DEF Names
  <2>3. j \in 1 .. Len(t)
    BY <1>3, <1>4, <2>2
  <2>4. h \in 1 .. Len(t[j].ext) /\ t[j].ext[h] = s[j].ext[h]
    <3> HIDE DEF j
    <3>1. j \in Pos /\ X[j] = s[j].ext /\ Exts(t)[j] = t[j].ext
      BY <1>9, <1>10, <2>2, <2>3
    <3>2. h \in 1 .. Len(Exts(t)[j]) /\ Exts(t)[j][h] = X[j][h]
      BY <1>8, <2>2, <3>1
    <3>3. QED
      BY <3>1, <3>2
  <2>5. Names(t, d, h)
    BY <2>2, <2>3, <2>4 DEF Names
  <2> DEFINE e == s[j].ext[h]
  <2>6. Body(s, d) = SubSeq(output, e.off - 1, e.off + e.len)
    BY <1>1, <1>16, <2>1, BodyIs DEF X
  <2>7. Body(t, d) = SubSeq(output, t[j].ext[h].off - 1, t[j].ext[h].off + t[j].ext[h].len)
    BY <1>31, <2>5
  <2>8. QED
    BY <2>4, <2>5, <2>6, <2>7 DEF d
<1>18. Listed(t, r)
  <2> SUFFICES ASSUME NEW k \in 1 .. Len(r) PROVE \E h : Names(t, r[k], h)
    BY DEF Listed
  <2>1. CASE k = Len(q) + 1
    BY <1>14, <1>15, <2>1
  <2>2. CASE k # Len(q) + 1
    <3>1. k \in 1 .. Len(q)
      BY <1>14, <2>2
    <3>2. QED
      BY <1>14, <1>17, <3>1
  <2>3. QED
    BY <2>1, <2>2
<1>19. Body(t, c) = SubSeq(output, n + 1, N) /\ Body(t, c) \in Seq(Nat)
  <2>1. LET f == t[c.stream].ext[v]
        IN  /\ Body(t, c) = SubSeq(output, f.off - 1, f.off + f.len)
            /\ Body(t, c) \in Seq(Nat)
    BY <1>31, <1>15
  <2>2. t[c.stream].ext[v] = y
    BY <1>12, <1>13
  <2>3. y.off - 1 = n + 1 /\ y.off + y.len = N
    BY <1>5, <1>32
  <2>4. QED
    BY <2>1, <2>2, <2>3
<1>20. Bodies(t, r) = Append(Bodies(s, q), Body(t, c))
  <2> DEFINE A == Bodies(s, q)
             z == Body(t, c)
             m == Len(q)
  <2>1. m \in Nat /\ DOMAIN q = 1 .. m /\ DOMAIN r = 1 .. m + 1
    BY <1>1, <1>14, LenProperties
  <2>2. A = [k \in 1 .. m |-> Body(s, q[k])]
    BY <2>1 DEF Bodies
  <2>3. A \in Seq(Seq(Nat)) /\ Len(A) = m
    <3>1. DOMAIN A = 1 .. Len(A) /\ DOMAIN A = 1 .. m /\ Len(A) \in Nat
      BY <1>1, <2>2, LenProperties
    <3> HIDE DEF A, m
    <3>2. Len(A) = m
      <4>1. \A e, f \in Nat : 1 .. e = 1 .. f => e = f
        <5> SUFFICES ASSUME NEW e \in Nat, NEW f \in Nat, 1 .. e = 1 .. f PROVE e = f
          OBVIOUS
        <5>1. (e >= 1 => e \in 1 .. f) /\ (f >= 1 => f \in 1 .. e)
          OBVIOUS
        <5>2. QED
          BY <5>1
      <4>2. QED
        BY <2>1, <3>1, <4>1
    <3>3. QED
      BY <1>1, <3>2 DEF A
  <2>4. Bodies(t, r) = [k \in 1 .. m + 1 |-> Body(t, r[k])]
    BY <2>1 DEF Bodies
  <2>5. /\ Append(A, z) \in Seq(Seq(Nat)) /\ Len(Append(A, z)) = m + 1
        /\ Append(A, z)[m + 1] = z /\ \A k \in 1 .. m : Append(A, z)[k] = A[k]
    <3>1. z \in Seq(Nat)
      BY <1>19
    <3> DEFINE T == Seq(Nat)
    <3>2. A \in Seq(T) /\ z \in T /\ Len(A) = m
      BY <2>3, <3>1
    <3> HIDE DEF A, z, m, T
    <3>3. /\ Append(A, z) \in Seq(T) /\ Len(Append(A, z)) = Len(A) + 1
          /\ Append(A, z)[Len(A) + 1] = z /\ \A k \in 1 .. Len(A) : Append(A, z)[k] = A[k]
      BY <3>2, AppendProperties
    <3>4. QED
      BY <3>2, <3>3 DEF T
  <2>6. DOMAIN Append(A, z) = 1 .. m + 1
    BY <2>5, LenProperties
  <2>7. \A k \in 1 .. m + 1 : Append(A, z)[k] = Body(t, r[k])
    <3> SUFFICES ASSUME NEW k \in 1 .. m + 1 PROVE Append(A, z)[k] = Body(t, r[k])
      OBVIOUS
    <3>1. CASE k = m + 1
      BY <1>14, <2>5, <3>1
    <3>2. CASE k # m + 1
      <4>1. k \in 1 .. m
        BY <2>1, <3>2
      <4>2. Append(A, z)[k] = A[k]
        BY <2>5, <4>1
      <4>3. A[k] = Body(s, q[k])
        BY <2>2, <4>1
      <4>4. QED
        BY <1>14, <1>17, <4>1, <4>2, <4>3
    <3>3. QED
      BY <3>1, <3>2
  <2>8. Append(A, z) = [k \in 1 .. m + 1 |-> Append(A, z)[k]]
    <3> DEFINE B == Append(A, z)
    <3>1. B \in [1 .. Len(B) -> Seq(Nat)]
      BY <2>5, LenProperties
    <3>2. Len(B) = m + 1
      BY <2>5
    <3> HIDE DEF B
    <3>3. B = [k \in 1 .. m + 1 |-> B[k]]
      BY <3>1, <3>2
    <3>4. QED
      BY <3>3 DEF B
  <2> HIDE DEF A, z
  <2>9. Bodies(t, r) = Append(A, z)
    BY <2>4, <2>7, <2>8
  <2>10. QED
    BY <2>9 DEF A, z
<1>21. /\ Bodies(t, r) \in Seq(Seq(Nat))
       /\ FlattenSeq(Bodies(t, r)) = SubSeq(output, a + 1, n) \o SubSeq(output, n + 1, N)
  <2>1. Bodies(t, r) \in Seq(Seq(Nat))
    <3> DEFINE A == Bodies(s, q)
               z == Body(t, c)
    <3>1. A \in Seq(Seq(Nat)) /\ z \in Seq(Nat)
      BY <1>1, <1>19
    <3> HIDE DEF A, z
    <3>2. Append(A, z) \in Seq(Seq(Nat))
      BY <3>1, AppendProperties
    <3>3. QED
      BY <1>20, <3>2 DEF A, z
  <2>2. FlattenSeq(Append(Bodies(s, q), Body(t, c))) = FlattenSeq(Bodies(s, q)) \o Body(t, c)
    BY <1>1, <1>19, FlattenAppend
  <2>3. QED
    BY <1>1, <1>19, <1>20, <2>1, <2>2
<1>22. SubSeq(output, a + 1, n) \o SubSeq(output, n + 1, N) = SubSeq(output, a + 1, N)
  <2>1. /\ a + 1 \in 1 .. Len(output) + 1 /\ n \in a + 1 - 1 .. Len(output)
        /\ N \in n .. Len(output)
    BY <1>2, <1>32
  <2> DEFINE m == a + 1
  <2>2. m \in 1 .. Len(output) + 1 /\ n \in m - 1 .. Len(output) /\ N \in n .. Len(output)
    BY <2>1
  <2> HIDE DEF m
  <2>3. SubSeq(output, m, n) \o SubSeq(output, n + 1, N) = SubSeq(output, m, N)
    BY <2>2, ConcatAdjacentSubSeq
  <2>4. QED
    BY <2>3 DEF m
<1>23. QED
  BY <1>3, <1>6, <1>7, <1>14, <1>18, <1>21, <1>22 DEF Parsed, r, N, w

-----------------------------------------------------------------------------
(* The streams of an archive that is streamed: filling their windows, or   *)
(* at rest with all their bytes on file, empty or done with.               *)

FillingOf(x, buf) ==
  StreamOf(<<>>, x, Chunk * Len(x) + Len(buf), Chunk * Len(x), buf, TRUE, TRUE, FALSE)

RestingOf(x, at, buf, live, done) == StreamOf(<<>>, x, LenOf(x), at, buf, live, FALSE, done)

FullPacks == {x \in Packs : LastFull(x)}
Windows == {buf \in Seq(Bytes) : buf # <<>> /\ Len(buf) <= Chunk}

Filling == {FillingOf(x, buf) : x \in FullPacks, buf \in Windows}
Resting == {RestingOf(x, at, buf, live, done) :
              x \in Packs, at \in Nat, buf \in Seq(Bytes), live \in BOOLEAN, done \in BOOLEAN}

Written ==
  Filling \cup {st \in Resting : ~st.live /\ (st.done \/ (st.ext = <<>> /\ st.len = 0))}

Fills(st, x, buf) == x \in FullPacks /\ buf \in Windows /\ st = FillingOf(x, buf)

(* A stream that fills its window, by its fields.                          *)
LEMMA FillingFacts ==
  ASSUME NEW x, NEW buf, NEW st, Fills(st, x, buf)
  PROVE  /\ st.data = <<>> /\ st.ext = x /\ st.len = Chunk * Len(x) + Len(buf)
         /\ st.at = Chunk * Len(x) /\ st.buf = buf /\ st.live = TRUE /\ st.dirty = TRUE
         /\ st.done = FALSE
         /\ x \in Packs /\ Packed(x) /\ LastFull(x) /\ x \in Seq(Extents)
         /\ LenOf(x) = Chunk * Len(x) /\ LenOf(x) \in Nat /\ Len(x) \in Nat
         /\ buf \in Seq(Bytes) /\ buf \in Seq(Nat) /\ Len(buf) \in 1 .. Chunk /\ Len(buf) \in Nat
         /\ Appends(st)
<1>1. /\ st.data = <<>> /\ st.ext = x /\ st.len = Chunk * Len(x) + Len(buf)
      /\ st.at = Chunk * Len(x) /\ st.buf = buf /\ st.live = TRUE /\ st.dirty = TRUE
      /\ st.done = FALSE
  BY DEF Fills, FillingOf, StreamOf
<1>2. x \in Packs /\ LastFull(x) /\ Packed(x) /\ x \in Seq(Extents)
  BY DEF Fills, FullPacks, Packs
<1>3. LenOf(x) = Chunk * Len(x) /\ LenOf(x) \in Nat /\ Len(x) \in Nat
  BY <1>2, LenOfFacts, ExtentFacts
<1>4. buf \in Seq(Bytes) /\ Len(buf) \in 1 .. Chunk /\ Len(buf) \in Nat
  <2>1. buf \in Seq(Bytes) /\ buf # <<>> /\ Len(buf) <= Chunk
    BY DEF Fills, Windows
  <2>2. Len(buf) \in Nat \ {0}
    BY <2>1, EmptySeq
  <2>3. QED
    BY <2>1, <2>2, ChunkAssumption
<1>5. buf \in Seq(Nat)
  BY <1>4, CellAssumption, SeqMonotonic
<1>6. Appends(st)
  <2> DEFINE m == Len(x)
  <2>1. m \in Nat /\ 0 \in 0 .. Chunk - 1 /\ st.at = Chunk * m /\ st.ext = x
    BY <1>1, <1>3, ChunkAssumption
  <2> HIDE DEF m
  <2>2. (Chunk * m + 0) \div Chunk = m /\ Chunk * m + 0 = Chunk * m
    BY <2>1, Divided, ChunkAssumption
  <2>3. st.at \div Chunk = m
    BY <2>1, <2>2
  <2>4. QED
    BY <2>1, <2>3 DEF Appends, m
<1>7. QED
  BY <1>1, <1>2, <1>3, <1>4, <1>5, <1>6

(* A stream that is at rest, by its fields.                                *)
LEMMA RestingFacts ==
  ASSUME NEW st \in Resting
  PROVE  /\ st.data = <<>> /\ st.ext \in Packs /\ st.len = LenOf(st.ext) /\ st.len \in Nat
         /\ st.at \in Nat /\ st.buf \in Seq(Bytes) /\ st.live \in BOOLEAN /\ st.dirty = FALSE
         /\ st.done \in BOOLEAN /\ Appends(st)
         /\ st = RestingOf(st.ext, st.at, st.buf, st.live, st.done)
<1>1. PICK x \in Packs, at \in Nat, buf \in Seq(Bytes), live \in BOOLEAN, done \in BOOLEAN :
        st = RestingOf(x, at, buf, live, done)
  BY DEF Resting
<1> DEFINE n == LenOf(x)
           e == <<>>
           no == FALSE
<1>2. st = StreamOf(e, x, n, at, buf, live, no, done)
  BY <1>1 DEF RestingOf
<1>3. n \in Nat
  BY LenOfFacts DEF Packs
<1> HIDE DEF n, e, no
<1>4. /\ st.data = e /\ st.ext = x /\ st.len = n /\ st.at = at /\ st.buf = buf
      /\ st.live = live /\ st.dirty = no /\ st.done = done
  BY <1>2, FieldsOf
<1>5. st.dirty = FALSE /\ st.data = <<>>
  BY <1>4 DEF no, e
<1>6. Appends(st)
  BY <1>5 DEF Appends
<1>7. QED
  BY <1>1, <1>3, <1>4, <1>5, <1>6 DEF n

(* What lies at the end of the file when a chunk has been added to it.     *)
Grew(o, t, i, l) ==
  /\ t \in Seq(Nat) /\ Len(t) = Len(o) + 2 + l
  /\ Agree(o, t, Len(o))
  /\ t[Len(o) + 1] = i /\ t[Len(o) + 2] = l

WithChunk(o, i, buf) == o \o <<i, Len(buf)>> \o buf

(* The cells of a chunk that is added.                                     *)
LEMMA ChunkAdded ==
  ASSUME NEW o \in Seq(Nat), NEW i \in Nat, NEW buf \in Seq(Nat),
         NEW t, t = WithChunk(o, i, buf)
  PROVE  /\ Grew(o, t, i, Len(buf))
         /\ \A j \in 1 .. Len(buf) : t[Len(o) + 2 + j] = buf[j]
<1> DEFINE n == Len(o)
           l == Len(buf)
           h == <<i, l>>
           u == o \o h
<1>1. n \in Nat /\ l \in Nat
  BY LenProperties
<1>2. t = u \o buf
  BY DEF WithChunk
<1>3. h \in Seq(Nat) /\ Len(h) = 2 /\ h[1] = i /\ h[2] = l
  <2> HIDE DEF l
  <2>1. QED
    BY <1>1
<1>4. Len(o) = n /\ Len(buf) = l
  OBVIOUS
<1> HIDE DEF h, n, l
<1>5. /\ u \in Seq(Nat) /\ Len(u) = n + 2
      /\ \A x \in 1 .. n + 2 : u[x] = IF x <= n THEN o[x] ELSE h[x - n]
  <2>1. /\ u \in Seq(Nat) /\ Len(u) = Len(o) + Len(h)
        /\ \A x \in 1 .. Len(o) + Len(h) : u[x] = IF x <= Len(o) THEN o[x] ELSE h[x - Len(o)]
    BY <1>3, ConcatProperties
  <2> HIDE DEF u
  <2>2. QED
    BY <1>3, <1>4, <2>1
<1> HIDE DEF u
<1>6. /\ t \in Seq(Nat) /\ Len(t) = n + 2 + l
      /\ \A x \in 1 .. n + 2 + l : t[x] = IF x <= n + 2 THEN u[x] ELSE buf[x - (n + 2)]
  <2>1. /\ u \o buf \in Seq(Nat) /\ Len(u \o buf) = Len(u) + Len(buf)
        /\ \A x \in 1 .. Len(u) + Len(buf) :
             (u \o buf)[x] = IF x <= Len(u) THEN u[x] ELSE buf[x - Len(u)]
    BY <1>5, ConcatProperties
  <2>2. QED
    BY <1>2, <1>4, <1>5, <2>1
<1>7. \A x \in 1 .. n : t[x] = o[x]
  <2> SUFFICES ASSUME NEW x \in 1 .. n PROVE t[x] = o[x]
    OBVIOUS
  <2>1. x \in 1 .. n + 2 /\ x \in 1 .. n + 2 + l /\ x <= n /\ x <= n + 2
    BY <1>1
  <2>2. t[x] = u[x] /\ u[x] = o[x]
    BY <1>5, <1>6, <2>1
  <2>3. QED
    BY <2>2
<1>8. t[n + 1] = i
  <2> DEFINE x == n + 1
  <2>1. x \in 1 .. n + 2 /\ x \in 1 .. n + 2 + l /\ ~(x <= n) /\ x <= n + 2 /\ x - n = 1
    BY <1>1
  <2> HIDE DEF x
  <2>2. t[x] = u[x] /\ u[x] = h[x - n]
    BY <1>5, <1>6, <2>1
  <2>3. QED
    BY <1>3, <2>1, <2>2 DEF x
<1>9. t[n + 2] = l
  <2> DEFINE x == n + 2
  <2>1. x \in 1 .. n + 2 /\ x \in 1 .. n + 2 + l /\ ~(x <= n) /\ x <= n + 2 /\ x - n = 2
    BY <1>1
  <2> HIDE DEF x
  <2>2. t[x] = u[x] /\ u[x] = h[x - n]
    BY <1>5, <1>6, <2>1
  <2>3. QED
    BY <1>3, <2>1, <2>2 DEF x
<1>10. \A j \in 1 .. l : t[n + 2 + j] = buf[j]
  <2> SUFFICES ASSUME NEW j \in 1 .. l PROVE t[n + 2 + j] = buf[j]
    OBVIOUS
  <2> DEFINE x == n + 2 + j
  <2>1. x \in 1 .. n + 2 + l /\ ~(x <= n + 2) /\ x - (n + 2) = j
    BY <1>1
  <2> HIDE DEF x
  <2>2. t[x] = buf[x - (n + 2)]
    BY <1>6, <2>1
  <2>3. QED
    BY <2>1, <2>2 DEF x
<1>11. QED
  BY <1>4, <1>6, <1>7, <1>8, <1>9, <1>10 DEF Agree, Grew

(* A flush gives the stream one extent, and its image the chunk.           *)
FlushGives(i, st, o, x, y, buf) ==
  /\ Flushed(i, st, o).st = RestingOf(Append(x, y), LenOf(x), buf, TRUE, FALSE)
  /\ Flushed(i, st, o).out = WithChunk(o, i, buf)

(* A flush gives a filling stream the extent of its window.                *)
LEMMA FlushGrows ==
  ASSUME NEW x, NEW buf, NEW st, Fills(st, x, buf),
         NEW i \in Nat, NEW o \in Seq(Nat),
         NEW y, y = Extent(Len(o) + 2, Len(buf))
  PROVE  /\ FlushGives(i, st, o, x, y, buf)
         /\ Append(x, y) \in Packs /\ y \in Extents
<1>1. /\ st.len = Chunk * Len(x) + Len(buf) /\ st.buf = buf /\ st.dirty = TRUE
      /\ LastFull(x) /\ Packed(x) /\ Len(buf) \in 1 .. Chunk /\ Len(buf) \in Nat
      /\ LenOf(x) = Chunk * Len(x) /\ LenOf(x) \in Nat
  <2>1. st.len = Chunk * Len(x) + Len(buf) /\ st.buf = buf
    BY DEF Fills, FillingOf, StreamOf
  <2>2. /\ st.dirty = TRUE /\ LastFull(x) /\ Packed(x)
        /\ Len(buf) \in 1 .. Chunk /\ Len(buf) \in Nat
        /\ LenOf(x) = Chunk * Len(x) /\ LenOf(x) \in Nat
    BY FillingFacts
  <2>3. QED
    BY <2>1, <2>2
<1>2. y \in Extents /\ y.len = Len(buf) /\ Len(o) + 2 \in Nat
  BY <1>1, LenProperties DEF Extents, Extent
<1>3. Packed(Append(x, y)) /\ LenOf(Append(x, y)) = LenOf(x) + Len(buf)
  BY <1>1, <1>2, PackedAppend
<1>4. Append(x, y) \in Packs
  BY <1>3 DEF Packs, Packed
<1> DEFINE n == Chunk * Len(x)
           l == Len(buf)
           e == <<>>
           no == FALSE
           yes == TRUE
           s0 == [st EXCEPT !.dirty = FALSE, !.len = @ - Len(st.buf)]
<1>5. st = StreamOf(e, x, n + l, n, buf, yes, yes, no)
  BY DEF Fills, FillingOf
<1>6. s0 = [st EXCEPT !.dirty = no, !.len = st.len - l]
  BY <1>1
<1>7. n \in Nat /\ l \in Nat /\ st.len = n + l /\ st.len - l = n
  BY <1>1
<1>8. s0 = [st EXCEPT !.dirty = no, !.len = n]
  <2> HIDE DEF n, l, no, s0
  <2>1. QED
    BY <1>6, <1>7
<1> HIDE DEF n, l, e, no, yes, s0
<1>9. [st EXCEPT !.dirty = no] = StreamOf(e, x, n + l, n, buf, yes, no, no)
  BY <1>5, SMT DEF StreamOf
<1>10. [StreamOf(e, x, n + l, n, buf, yes, no, no) EXCEPT !.len = n]
         = StreamOf(e, x, n, n, buf, yes, no, no)
  BY SMT DEF StreamOf
<1>11. [st EXCEPT !.dirty = no, !.len = n] = [[st EXCEPT !.dirty = no] EXCEPT !.len = n]
  OBVIOUS
<1>12. s0 = StreamOf(e, x, n, n, buf, yes, no, no)
  BY <1>8, <1>9, <1>10, <1>11
<1>13. bf_extent_add(s0, Len(o) + 2, l)
         = StreamOf(e, Append(x, Extent(Len(o) + 2, l)), n + l, n, buf, yes, no, no)
  BY <1>12, ExtentAdded
<1>14. /\ Flushed(i, st, o).st = bf_extent_add(s0, Len(o) + 2, l)
       /\ Flushed(i, st, o).out = o \o <<i, l>> \o buf
  BY <1>1 DEF Flushed, s0, l
<1>15. LenOf(Append(x, y)) = n + l
  BY <1>1, <1>3 DEF n, l
<1>16. RestingOf(Append(x, y), n, buf, TRUE, FALSE)
         = StreamOf(e, Append(x, y), n + l, n, buf, yes, no, no)
  BY <1>15 DEF RestingOf, e, no, yes
<1>17. QED
  <2>1. n = LenOf(x)
    BY <1>1 DEF n
  <2>2. QED
    BY <1>2, <1>4, <1>13, <1>14, <1>16, <2>1 DEF l, WithChunk, FlushGives

-----------------------------------------------------------------------------
(* What a stream's bytes are, in an image that may change.                 *)

ByteAt(st, at, o) ==
  CASE st.data # <<>>             -> st.data[at + 1]
    [] st.dirty /\ at >= st.at    -> st.buf[at - st.at + 1]
    [] OTHER                      -> o[st.ext[at \div Chunk + 1].off + (at % Chunk) + 1]

Bytewise(st, o) == [k \in 1 .. st.len |-> ByteAt(st, k - 1, o)]

(* The stream st of an image o and w of the image t have the same bytes.   *)
Same(st, o, w, t) == w.len = st.len /\ Bytewise(w, t) = Bytewise(st, o)

(* The cell an extent has for an offset.                                   *)
Shows(x, o, at) == o[x[at \div Chunk + 1].off + (at % Chunk) + 1]

(* The bytes of a stream, in the image as it is.                           *)
LEMMA BytesNow == \A st : StreamBytes(st) = Bytewise(st, output)
BY DEF StreamBytes, Bytewise, StreamByte, ByteAt, Cell

(* And in the image as it is behind a step.                                *)
LEMMA BytesThen == \A st : StreamBytes(st)' = Bytewise(st, output)'
BY DEF StreamBytes, Bytewise, StreamByte, ByteAt, Cell

(* A byte of a filling stream is in its window or on file.                 *)
LEMMA FillingByte ==
  ASSUME NEW st, NEW x, NEW buf, Fills(st, x, buf), NEW at, NEW o
  PROVE  /\ at >= Chunk * Len(x) => ByteAt(st, at, o) = buf[at - Chunk * Len(x) + 1]
         /\ ~(at >= Chunk * Len(x)) => ByteAt(st, at, o) = Shows(x, o, at)
<1>1. st.at = Chunk * Len(x) /\ st.buf = buf /\ st.ext = x /\ st.data = <<>> /\ st.dirty = TRUE
  BY DEF Fills, FillingOf, StreamOf
<1> DEFINE n == Chunk * Len(x)
<1>2. st.at = n
  BY <1>1
<1> HIDE DEF n
<1>3. at >= n => ByteAt(st, at, o) = buf[at - n + 1]
  BY <1>1, <1>2 DEF ByteAt
<1>4. ~(at >= n) => ByteAt(st, at, o) = Shows(x, o, at)
  BY <1>1, <1>2 DEF ByteAt, Shows
<1>5. QED
  BY <1>3, <1>4 DEF n

(* A byte of a stream at rest is on file.                                  *)
LEMMA RestingByte ==
  ASSUME NEW st \in Resting, NEW at, NEW o
  PROVE  ByteAt(st, at, o) = Shows(st.ext, o, at)
<1>1. st.data = <<>> /\ st.dirty = FALSE
  BY RestingFacts
<1>2. QED
  BY <1>1 DEF ByteAt, Shows

(* Cells that stay show the same.                                          *)
LEMMA ShowsWithin ==
  ASSUME NEW X, NEW o, NEW a \in Nat, NEW n \in Nat, Tiles(X, o, a, n), NEW i \in Pos,
         NEW at \in Nat, at < LenOf(X[i])
  PROVE  X[i][at \div Chunk + 1].off + (at % Chunk) + 1 \in 1 .. n
<1> DEFINE x == X[i]
           d == at \div Chunk + 1
           r == at % Chunk
           f == x[d].off
           g == x[d].len
<1>1. X \in Maps /\ FieldsTell(X, o, a, n)
  BY DEF Tiles
<1>2. Packed(x)
  BY <1>1, MapFacts
<1>3. d \in 1 .. Len(x) /\ r \in 0 .. g - 1
  BY <1>2, OffsetFalls
<1>4. f \in Nat /\ g \in Nat /\ a + 2 <= f /\ f + g <= n
  <2> HIDE DEF d
  <2>1. QED
    BY <1>1, <1>3, MapFacts DEF FieldsTell
<1> HIDE DEF d, r, f, g
<1>5. f + r + 1 \in 1 .. n
  BY <1>3, <1>4
<1>6. QED
  BY <1>5 DEF f, d, r

(* What an extent shows does not change behind it.                         *)
LEMMA ShowsStay ==
  ASSUME NEW X, NEW o, NEW t, NEW a \in Nat, NEW n \in Nat, Tiles(X, o, a, n), NEW i \in Pos,
         Agree(o, t, n), NEW at \in Nat, at < LenOf(X[i])
  PROVE  Shows(X[i], t, at) = Shows(X[i], o, at)
BY ShowsWithin DEF Agree, Shows

(* A chunk more shows what it has been given, behind the rest.             *)
LEMMA ShowsMore ==
  ASSUME NEW x, Packed(x), LastFull(x), NEW y \in Extents, NEW o, NEW at \in Nat
  PROVE  /\ at < LenOf(x) => Shows(Append(x, y), o, at) = Shows(x, o, at)
         /\ \A j \in 1 .. y.len :
              at = LenOf(x) + j - 1 => Shows(Append(x, y), o, at) = o[y.off + j]
<1> DEFINE d == at \div Chunk
           r == at % Chunk
           z == Append(x, y)
<1>1. /\ Len(z) = Len(x) + 1 /\ z[Len(x) + 1] = y /\ \A k \in 1 .. Len(x) : z[k] = x[k]
      /\ LenOf(x) = Chunk * Len(x)
  BY PackedAppend
<1>2. Len(x) \in Nat /\ y.off \in Nat /\ y.len \in 1 .. Chunk /\ Chunk \in Nat
  BY ExtentFacts, ChunkAssumption DEF Packed, Extents
<1>3. ASSUME at < LenOf(x) PROVE Shows(z, o, at) = Shows(x, o, at)
  <2>1. d + 1 \in 1 .. Len(x)
    BY <1>3, OffsetFalls
  <2> HIDE DEF z
  <2>2. z[d + 1] = x[d + 1]
    BY <1>1, <2>1
  <2>3. QED
    BY <2>2 DEF Shows
<1>4. ASSUME NEW j \in 1 .. y.len, at = LenOf(x) + j - 1 PROVE Shows(z, o, at) = o[y.off + j]
  <2> DEFINE m == Len(x)
             c == Chunk * m
  <2>1. m \in Nat /\ j - 1 \in 0 .. Chunk - 1 /\ LenOf(x) = c /\ c \in Nat
    BY <1>1, <1>2
  <2>2. at = c + (j - 1)
    <3> HIDE DEF c
    <3>1. QED
      BY <1>2, <1>4, <2>1
  <2>3. d = m /\ r = j - 1
    <3> HIDE DEF m
    <3>1. QED
      BY <2>1, <2>2, Divided
  <2> HIDE DEF z, d, r
  <2>4. Shows(z, o, at) = o[y.off + (j - 1) + 1]
    BY <1>1, <2>3 DEF Shows, d, r
  <2>5. y.off + (j - 1) + 1 = y.off + j
    BY <1>2
  <2>6. QED
    BY <2>4, <2>5
<1>5. QED
  BY <1>3, <1>4 DEF z

(* A flush moves bytes from the window to the file and changes none.       *)
LEMMA FlushKeeps ==
  ASSUME NEW X, NEW o \in Seq(Nat), NEW a \in Nat, Tiles(X, o, a, Len(o)), NEW i \in Pos,
         NEW st, NEW buf, Fills(st, X[i], buf),
         NEW t, t = WithChunk(o, i, buf),
         NEW w \in Resting, w.ext = Append(X[i], Extent(Len(o) + 2, Len(buf)))
  PROVE  Same(st, o, w, t)
<1> DEFINE x == X[i]
           y == Extent(Len(o) + 2, Len(buf))
           n == Chunk * Len(x)
           l == Len(buf)
<1>1. /\ Packed(x) /\ LastFull(x) /\ Len(buf) \in 1 .. Chunk /\ Len(buf) \in Nat
      /\ LenOf(x) = Chunk * Len(x) /\ LenOf(x) \in Nat /\ buf \in Seq(Nat)
  BY FillingFacts
<1>2. st.len = n + l
  BY DEF Fills, FillingOf, StreamOf
<1>3. Len(o) \in Nat /\ i \in Nat
  BY LenProperties DEF Pos
<1>4. y \in Extents /\ y.len = l /\ y.off = Len(o) + 2
  BY <1>1, <1>3 DEF Extents, Extent
<1>5. /\ Grew(o, t, i, l) /\ \A j \in 1 .. l : t[Len(o) + 2 + j] = buf[j]
  <2>1. buf \in Seq(Nat) /\ i \in Nat /\ t = WithChunk(o, i, buf)
    BY <1>1, <1>3
  <2>2. Grew(o, t, i, Len(buf))
    BY <2>1, ChunkAdded
  <2>3. \A j \in 1 .. Len(buf) : t[Len(o) + 2 + j] = buf[j]
    BY <2>1, ChunkAdded
  <2>4. QED
    BY <2>2, <2>3
<1>6. w.ext = Append(x, y) /\ w.len = LenOf(w.ext)
  <2>1. w.len = LenOf(w.ext)
    BY RestingFacts
  <2>2. QED
    BY <2>1
<1>7. LenOf(w.ext) = LenOf(x) + y.len
  <2> HIDE DEF y, x
  <2>1. LenOf(Append(x, y)) = LenOf(x) + y.len
    BY <1>1, <1>4, PackedAppend
  <2>2. QED
    BY <1>6, <2>1
<1>32. \A at \in Nat : at < LenOf(X[i]) => Shows(X[i], t, at) = Shows(X[i], o, at)
  <2> DEFINE m == Len(o)
  <2>1. m \in Nat /\ Tiles(X, o, a, m) /\ Agree(o, t, m)
    BY <1>3, <1>5 DEF Grew
  <2> HIDE DEF m, x
  <2> SUFFICES ASSUME NEW at \in Nat, at < LenOf(X[i]) PROVE Shows(X[i], t, at) = Shows(X[i], o, at)
    OBVIOUS
  <2>2. QED
    BY <2>1, ShowsStay
<1> HIDE DEF x, y
<1>31. \A at \in Nat :
        /\ at < LenOf(x) => Shows(Append(x, y), t, at) = Shows(x, t, at)
        /\ \A j \in 1 .. y.len : at = LenOf(x) + j - 1 => Shows(Append(x, y), t, at) = t[y.off + j]
  <2> HIDE DEF n, l
  <2>1. Packed(x) /\ LastFull(x) /\ y \in Extents
    BY <1>1, <1>4
  <2> SUFFICES ASSUME NEW at \in Nat
               PROVE  /\ at < LenOf(x) => Shows(Append(x, y), t, at) = Shows(x, t, at)
                      /\ \A j \in 1 .. y.len :
                           at = LenOf(x) + j - 1 => Shows(Append(x, y), t, at) = t[y.off + j]
    OBVIOUS
  <2>2. QED
    BY <2>1, ShowsMore
<1> HIDE DEF n, l
<1>8. w.len = n + l /\ n \in Nat /\ l \in Nat /\ LenOf(x) = n
  BY <1>1, <1>4, <1>6, <1>7 DEF n, l
<1>9. ASSUME NEW k \in 1 .. n + l PROVE ByteAt(w, k - 1, t) = ByteAt(st, k - 1, o)
  <2> DEFINE at == k - 1
  <2>1. at \in Nat /\ at < n + l
    BY <1>8
  <2>2. ByteAt(w, at, t) = Shows(Append(x, y), t, at)
    BY <1>6, RestingByte
  <2> HIDE DEF at
  <2>3. CASE at < n
    <3>1. Shows(Append(x, y), t, at) = Shows(x, t, at)
      BY <1>8, <1>31, <2>1, <2>3
    <3>2. Shows(x, t, at) = Shows(x, o, at)
      <4>1. at < LenOf(X[i])
        BY <1>8, <2>3 DEF x
      <4>2. QED
        BY <1>32, <2>1, <4>1 DEF x
    <3>3. ByteAt(st, at, o) = Shows(x, o, at)
      <4>1. ~(at >= n)
        BY <1>8, <2>1, <2>3
      <4>2. QED
        BY <4>1, FillingByte DEF n, x
    <3>4. QED
      BY <2>2, <3>1, <3>2, <3>3 DEF at
  <2>4. CASE ~(at < n)
    <3> DEFINE j == at - n + 1
    <3>1. j \in 1 .. l /\ at = n + j - 1 /\ at >= n
      BY <1>8, <2>1, <2>4
    <3>2. Shows(Append(x, y), t, at) = t[y.off + j]
      <4> HIDE DEF j
      <4>1. j \in 1 .. y.len /\ at = LenOf(x) + j - 1
        BY <1>4, <1>8, <3>1 DEF l
      <4>2. QED
        BY <1>31, <2>1, <4>1
    <3>3. t[y.off + j] = buf[j]
      <4> HIDE DEF j
      <4>1. QED
        BY <1>4, <1>5, <3>1 DEF l
    <3>4. ByteAt(st, at, o) = buf[j]
      BY <3>1, FillingByte DEF n, x
    <3>5. QED
      BY <2>2, <3>2, <3>3, <3>4 DEF at
  <2>5. QED
    BY <2>3, <2>4
<1>10. st.len = n + l
  BY <1>2 DEF n, l
<1>11. Bytewise(w, t) = Bytewise(st, o)
  BY <1>8, <1>9, <1>10 DEF Bytewise
<1>12. QED
  BY <1>8, <1>10, <1>11 DEF Same

-----------------------------------------------------------------------------
(* The archive that is streamed.                                           *)

Stored == Filling \cup Resting

(* A stream that is written, by its fields.                                *)
LEMMA StoredFacts ==
  ASSUME NEW st \in Stored
  PROVE  /\ st.ext \in Packs /\ st.data = <<>> /\ st.len \in Nat /\ Appends(st)
         /\ st.len = 0 => st \in Resting /\ st.ext = <<>>
         /\ st \in Filling <=> st.dirty
         /\ st \in Filling => Fills(st, st.ext, st.buf)
         /\ st \in Resting => st.len = LenOf(st.ext)
<1>1. CASE st \in Filling
  <2>1. PICK x \in FullPacks, buf \in Windows : st = FillingOf(x, buf)
    BY <1>1 DEF Filling
  <2>2. Fills(st, x, buf)
    BY <2>1 DEF Fills
  <2>0. /\ st.len = Chunk * Len(x) + Len(buf) /\ st.data = <<>> /\ st.ext = x /\ st.buf = buf
        /\ st.dirty = TRUE
    BY <2>1 DEF FillingOf, StreamOf
  <2>31. x \in Packs /\ Len(buf) \in 1 .. Chunk /\ LenOf(x) = Chunk * Len(x) /\ LenOf(x) \in Nat
    BY <2>2, FillingFacts
  <2>32. Appends(st)
    BY <2>2, FillingFacts
  <2>3. /\ st.data = <<>> /\ st.ext = x
        /\ st.buf = buf /\ st.dirty = TRUE /\ x \in Packs /\ Len(buf) \in 1 .. Chunk
        /\ LenOf(x) = Chunk * Len(x) /\ LenOf(x) \in Nat /\ Appends(st)
    BY <2>0, <2>31, <2>32
  <2>4. st.len \in Nat /\ st.len # 0
    <3> DEFINE n == Chunk * Len(x)
               l == Len(buf)
    <3>1. n \in Nat /\ l \in 1 .. Chunk /\ st.len = n + l /\ Chunk \in Nat
      BY <2>0, <2>3, ChunkAssumption
    <3> HIDE DEF n, l
    <3>2. QED
      BY <3>1
  <2>5. st \notin Resting
    BY <2>3, RestingFacts
  <2>6. QED
    BY <1>1, <2>2, <2>3, <2>4, <2>5
<1>2. CASE st \in Resting
  <2>1. /\ st.data = <<>> /\ st.ext \in Packs /\ st.len = LenOf(st.ext) /\ st.len \in Nat
        /\ st.dirty = FALSE /\ Appends(st)
    BY <1>2, RestingFacts
  <2>2. st.len = 0 => st.ext = <<>>
    BY <2>1, LenOfFacts DEF Packs
  <2>3. st \notin Filling
    <3> SUFFICES ASSUME st \in Filling PROVE FALSE
      OBVIOUS
    <3>1. PICK x \in FullPacks, buf \in Windows : st = FillingOf(x, buf)
      BY DEF Filling
    <3>2. Fills(st, x, buf)
      BY <3>1 DEF Fills
    <3>3. st.dirty = TRUE
      BY <3>2, FillingFacts
    <3>4. QED
      BY <2>1, <3>3
  <2>4. QED
    BY <1>2, <2>1, <2>2, <2>3
<1>3. QED
  BY <1>1, <1>2 DEF Stored

(* The extents of the streams that are written.                            *)
LEMMA ExtsFacts ==
  ASSUME NEW s \in Seq(Stored)
  PROVE  /\ Len(s) \in Nat /\ DOMAIN s = 1 .. Len(s)
         /\ \A i \in 1 .. Len(s) : i \in Pos /\ s[i] \in Stored /\ Exts(s)[i] = s[i].ext
         /\ \A i \in Pos : i > Len(s) => Exts(s)[i] = <<>>
         /\ Exts(s) \in Maps
<1>1. Len(s) \in Nat /\ DOMAIN s = 1 .. Len(s)
  BY LenProperties
<1>2. \A i \in 1 .. Len(s) : i \in Pos /\ s[i] \in Stored /\ Exts(s)[i] = s[i].ext
  BY <1>1, ElementOfSeq DEF Exts, Pos
<1>3. \A i \in Pos : i > Len(s) => Exts(s)[i] = <<>>
  BY <1>1 DEF Exts, Pos
<1>4. \A i \in Pos : Exts(s)[i] \in Packs
  BY <1>1, <1>2, StoredFacts, EmptyPacked DEF Exts
<1>5. Exts(s) \in [Pos -> Seq(Extents)]
  BY <1>4 DEF Exts, Packs
<1>6. Exts(s) \in Maps
  BY <1>4, <1>5 DEF Maps, Packs
<1>7. QED
  BY <1>1, <1>2, <1>3, <1>6

(* The sequence with another i-th element.                                 *)
With(s, i, w) == [s EXCEPT ![i] = w]

Replaces(s, i, w, t) ==
  /\ t \in Seq(Stored) /\ Len(t) = Len(s) /\ t[i] = w
  /\ \A j \in 1 .. Len(s) : j # i => t[j] = s[j]

(* One stream replaced, with its extents or with one more.                 *)
LEMMA ExtsExcept ==
  ASSUME NEW s \in Seq(Stored), NEW i \in 1 .. Len(s), NEW w \in Stored,
         NEW t, t = With(s, i, w)
  PROVE  /\ Replaces(s, i, w, t)
         /\ w.ext = s[i].ext => Exts(t) = Exts(s)
         /\ \A y : w.ext = Append(s[i].ext, y) => Exts(t) = Added(Exts(s), i, y)
<1>1. /\ t \in Seq(Stored) /\ Len(t) = Len(s)
      /\ \A j \in 1 .. Len(s) : t[j] = IF j = i THEN w ELSE s[j]
  BY ExceptSeq DEF With
<1>2. Len(s) \in Nat /\ DOMAIN s = 1 .. Len(s) /\ DOMAIN t = 1 .. Len(s) /\ i \in Pos
  BY <1>1, ExtsFacts
<1>3. \A j \in Pos : Exts(t)[j] = IF j = i THEN w.ext ELSE Exts(s)[j]
  BY <1>1, <1>2 DEF Exts
<1>4. Exts(s)[i] = s[i].ext /\ Exts(s) \in [Pos -> Seq(Extents)]
  BY ExtsFacts DEF Maps
<1>5. Exts(t) = [j \in Pos |-> IF j = i THEN w.ext ELSE Exts(s)[j]]
  <2>1. Exts(t) = [j \in Pos |-> Exts(t)[j]]
    BY DEF Exts
  <2>2. QED
    BY <1>3, <2>1
<1>6. Exts(s) = [j \in Pos |-> Exts(s)[j]]
  BY <1>4
<1>7. ASSUME w.ext = s[i].ext PROVE Exts(t) = Exts(s)
  <2>1. \A j \in Pos : (IF j = i THEN w.ext ELSE Exts(s)[j]) = Exts(s)[j]
    BY <1>4, <1>7
  <2>2. QED
    BY <1>5, <1>6, <2>1
<1>8. ASSUME NEW y, w.ext = Append(s[i].ext, y) PROVE Exts(t) = Added(Exts(s), i, y)
  <2>1. Added(Exts(s), i, y) = [j \in Pos |-> IF j = i THEN Append(Exts(s)[i], y) ELSE Exts(s)[j]]
    BY <1>4 DEF Added
  <2>2. QED
    BY <1>4, <1>5, <1>8, <2>1
<1>9. QED
  BY <1>1, <1>7, <1>8 DEF Replaces

(* A stream without extents adds none.                                     *)
LEMMA ExtsAppend ==
  ASSUME NEW s \in Seq(Stored), NEW w \in Stored, w.ext = <<>>
  PROVE  Append(s, w) \in Seq(Stored) /\ Exts(Append(s, w)) = Exts(s)
<1> DEFINE t == Append(s, w)
<1>1. /\ t \in Seq(Stored) /\ Len(t) = Len(s) + 1 /\ t[Len(s) + 1] = w
      /\ \A i \in 1 .. Len(s) : t[i] = s[i]
  BY AppendProperties
<1>2. Len(s) \in Nat /\ DOMAIN s = 1 .. Len(s) /\ DOMAIN t = 1 .. Len(s) + 1
  BY <1>1, LenProperties
<1> HIDE DEF t
<1>3. \A j \in Pos : Exts(t)[j] = Exts(s)[j]
  BY <1>1, <1>2 DEF Exts
<1>4. Exts(t) = Exts(s)
  BY <1>3 DEF Exts
<1>5. QED
  BY <1>1, <1>4 DEF t

(* The cells before the chunks.                                            *)
Header(tune, o) ==
  /\ tune \in Seq(Bytes) /\ Len(tune) <= TuneMax /\ 2 + Len(tune) <= Len(o)
  /\ o[1] = Magic /\ o[2] = Len(tune) /\ \A k \in 1 .. Len(tune) : o[2 + k] = tune[k]

(* The header stays as the file grows.                                     *)
LEMMA HeaderStays ==
  ASSUME NEW tune, NEW o \in Seq(Nat), NEW t \in Seq(Nat), Header(tune, o), Agree(o, t, Len(o)),
         Len(o) <= Len(t)
  PROVE  Header(tune, t)
<1>1. Len(tune) \in Nat /\ Len(o) \in Nat /\ Len(t) \in Nat
  BY LenProperties DEF Header
<1>2. 1 \in 1 .. Len(o) /\ 2 \in 1 .. Len(o) /\ \A k \in 1 .. Len(tune) : 2 + k \in 1 .. Len(o)
  BY <1>1 DEF Header
<1>3. QED
  BY <1>1, <1>2 DEF Header, Agree

Streamed(s, tune, o) ==
  /\ s \in Seq(Stored) /\ o \in Seq(Nat) /\ Header(tune, o)
  /\ Tiles(Exts(s), o, 2 + Len(tune), Len(o)) /\ Sized(Exts(s), 2 + Len(tune), Len(o))

(* The bytes of a stream do not change as the file grows.                  *)
LEMMA BytesStay ==
  ASSUME NEW X, NEW o \in Seq(Nat), NEW a \in Nat, NEW n \in Nat, Tiles(X, o, a, n),
         NEW j \in Pos, NEW st \in Stored, st.ext = X[j],
         NEW t, Agree(o, t, n)
  PROVE  Same(st, o, st, t)
<1> DEFINE x == X[j]
<1>1. \A at \in Nat : at < LenOf(X[j]) => Shows(X[j], t, at) = Shows(X[j], o, at)
  BY ShowsStay
<1>2. st.len \in Nat
  BY StoredFacts
<1>3. ASSUME NEW k \in 1 .. st.len PROVE ByteAt(st, k - 1, t) = ByteAt(st, k - 1, o)
  <2> DEFINE at == k - 1
  <2>1. at \in Nat /\ at < st.len
    BY <1>2
  <2> HIDE DEF at
  <2>2. CASE st \in Resting
    <3>1. ByteAt(st, at, t) = Shows(st.ext, t, at) /\ ByteAt(st, at, o) = Shows(st.ext, o, at)
      BY <2>2, RestingByte
    <3>2. at < LenOf(X[j])
      BY <2>1, <2>2, StoredFacts
    <3>3. QED
      BY <1>1, <2>1, <3>1, <3>2 DEF at
  <2>3. CASE st \in Filling
    <3> DEFINE buf == st.buf
    <3>1. Fills(st, x, buf)
      BY <2>3, StoredFacts
    <3>2. LenOf(x) = Chunk * Len(x) /\ LenOf(x) \in Nat
      BY <3>1, FillingFacts
    <3>3. CASE at >= Chunk * Len(x)
      BY <3>1, <3>3, FillingByte DEF at
    <3>4. CASE ~(at >= Chunk * Len(x))
      <4>1. at < LenOf(X[j])
        BY <2>1, <3>2, <3>4
      <4>2. ByteAt(st, at, t) = Shows(x, t, at) /\ ByteAt(st, at, o) = Shows(x, o, at)
        BY <3>1, <3>4, FillingByte
      <4>3. QED
        BY <1>1, <2>1, <4>1, <4>2 DEF at
    <3>5. QED
      BY <3>3, <3>4
  <2>4. QED
    BY <2>2, <2>3 DEF Stored
<1>4. QED
  BY <1>3 DEF Bytewise, Same

(* A stream of this form is at rest.                                       *)
LEMMA IsResting ==
  ASSUME NEW x \in Packs, NEW at \in Nat, NEW buf \in Seq(Bytes), NEW live \in BOOLEAN,
         NEW done \in BOOLEAN
  PROVE  RestingOf(x, at, buf, live, done) \in Resting
BY DEF Resting

SameBytes(s, o, t, u) ==
  \A j \in 1 .. Len(s) : Same(s[j], o, t[j], u)

(* The end of the file comes nearer by whole chunks only.                  *)
Further(o, t) == t \in Seq(Nat) /\ Agree(o, t, Len(o)) /\ Len(o) <= Len(t)

(* What the stream st, flushed at the end of o, is.                        *)
Chunked(st, o, w) == w.done = FALSE /\ w.ext = Append(st.ext, Extent(Len(o) + 2, Len(st.buf)))

(* A flush of a filling stream keeps the archive and every byte.           *)
LEMMA FlushFilling ==
  ASSUME NEW s, NEW tune, NEW o, Streamed(s, tune, o), NEW i \in 1 .. Len(s), s[i] \in Filling,
         NEW r, r = Flushed(i, s[i], o), NEW t, t = With(s, i, r.st)
  PROVE  /\ Streamed(t, tune, r.out) /\ SameBytes(s, o, t, r.out) /\ r.st \in Resting
         /\ Further(o, r.out) /\ Chunked(s[i], o, r.st)
<1> DEFINE x == s[i].ext
           buf == s[i].buf
           n == Len(o)
           l == Len(buf)
           y == Extent(n + 2, l)
           X == Exts(s)
           a == 2 + Len(tune)
           u == r.out
           w == r.st
           c == Chunk * Len(x)
<1>1. /\ s \in Seq(Stored) /\ o \in Seq(Nat) /\ Header(tune, o)
      /\ Tiles(X, o, a, n) /\ Sized(X, a, n)
  BY DEF Streamed
<1>2. /\ Len(s) \in Nat /\ i \in Pos /\ i \in Nat /\ s[i] \in Stored /\ X[i] = x /\ X \in Maps
      /\ \A j \in 1 .. Len(s) : j \in Pos /\ s[j] \in Stored /\ X[j] = s[j].ext
  BY <1>1, ExtsFacts DEF Pos
<1>3. Fills(s[i], x, buf)
  BY <1>2, StoredFacts
<1>4. n \in Nat /\ a \in Nat /\ a <= n
  BY <1>1, LenProperties DEF Header
<1>5. /\ LastFull(x) /\ Packed(x) /\ x \in Packs /\ l \in 1 .. Chunk /\ l \in Nat
      /\ buf \in Seq(Nat) /\ buf \in Seq(Bytes) /\ LenOf(x) \in Nat /\ LenOf(x) = c
  BY <1>3, FillingFacts
<1>6. y \in Extents /\ y.len = l
  BY <1>4, <1>5 DEF Extent, Extents
<1> DEFINE st == s[i]
<1>31. Fills(st, x, buf) /\ r = Flushed(i, st, o) /\ y = Extent(Len(o) + 2, Len(buf))
  BY <1>3
<1>7. /\ w = RestingOf(Append(x, y), c, buf, TRUE, FALSE) /\ u = WithChunk(o, i, buf)
      /\ Append(x, y) \in Packs
  <2>0. /\ Fills(st, x, buf) /\ r = Flushed(i, st, o) /\ y = Extent(Len(o) + 2, Len(buf))
        /\ o \in Seq(Nat) /\ i \in Nat
    BY <1>1, <1>2, <1>31
  <2> HIDE DEF st, x, buf, y, n, l, X, a, u, w, c
  <2>1. /\ Flushed(i, st, o).st = RestingOf(Append(x, y), LenOf(x), buf, TRUE, FALSE)
        /\ Flushed(i, st, o).out = WithChunk(o, i, buf)
        /\ Append(x, y) \in Packs
    <3>1. FlushGives(i, st, o, x, y, buf) /\ Append(x, y) \in Packs
      BY <2>0, FlushGrows
    <3>2. QED
      BY <3>1 DEF FlushGives
  <2>2. QED
    BY <1>5, <1>31, <2>1 DEF c, w, u
<1>9. w \in Resting
  <2>1. c \in Nat
    BY <1>5
  <2> HIDE DEF c, w, y, x, buf
  <2>2. QED
    BY <1>5, <1>7, <2>1, IsResting
<1>10. w.ext = Append(x, y) /\ w.done = FALSE
  <2> HIDE DEF c, w, y, x, buf
  <2>1. QED
    BY <1>7 DEF RestingOf, StreamOf
<1>11. Grew(o, u, i, l)
  <2> HIDE DEF x, buf, u
  <2>1. QED
    BY <1>1, <1>2, <1>5, <1>7, ChunkAdded DEF l
<1>12. u \in Seq(Nat) /\ Len(u) = n + 2 + l /\ Agree(o, u, n) /\ u[n + 1] = i /\ u[n + 2] = l
  BY <1>11 DEF Grew
<1>13. Further(o, u)
  <2> HIDE DEF u, l
  <2>1. n <= Len(u)
    BY <1>4, <1>5, <1>12
  <2>2. QED
    BY <1>12, <2>1 DEF Further
<1>14. /\ t \in Seq(Stored) /\ Len(t) = Len(s) /\ t[i] = w
       /\ \A j \in 1 .. Len(s) : j # i => t[j] = s[j]
       /\ Exts(t) = Added(X, i, y)
  <2>1. w \in Stored /\ t = With(s, i, w)
    BY <1>9 DEF Stored
  <2> HIDE DEF w, y
  <2>2. /\ Replaces(s, i, w, t)
        /\ \A v : w.ext = Append(s[i].ext, v) => Exts(t) = Added(Exts(s), i, v)
    BY <1>1, <2>1, ExtsExcept
  <2>3. QED
    BY <1>10, <2>2 DEF Replaces
<1>15. Tiles(Exts(t), u, a, Len(u))
  <2> HIDE DEF n, l, X, a, u, y
  <2>1. Tiles(Added(X, i, Extent(n + 2, l)), u, a, n + 2 + l)
    BY <1>1, <1>2, <1>4, <1>5, <1>12, TilesGrow
  <2>2. QED
    BY <1>12, <1>14, <2>1 DEF y
<1>16. Sized(Exts(t), a, Len(u))
  <2> HIDE DEF n, l, X, a, u, y, x
  <2>1. Sized(Added(X, i, y), a, n + 2 + y.len)
    BY <1>1, <1>2, <1>4, <1>5, <1>6, SizedGrow
  <2>2. QED
    BY <1>6, <1>12, <1>14, <2>1
<1>17. Header(tune, u)
  BY <1>1, <1>12, <1>13, HeaderStays DEF Further
<1>18. Streamed(t, tune, u)
  BY <1>12, <1>14, <1>15, <1>16, <1>17 DEF Streamed
<1>19. Same(s[i], o, w, u)
  <2>1. /\ Fills(st, X[i], buf) /\ Tiles(X, o, a, Len(o))
        /\ w.ext = Append(X[i], Extent(Len(o) + 2, Len(buf)))
    BY <1>1, <1>2, <1>3, <1>10
  <2>2. o \in Seq(Nat) /\ a \in Nat /\ i \in Pos /\ w \in Resting /\ u = WithChunk(o, i, buf)
    BY <1>1, <1>2, <1>4, <1>7, <1>9
  <2> HIDE DEF st, X, a, u, w, buf
  <2>3. Same(st, o, w, u)
    BY <2>1, <2>2, FlushKeeps
  <2>4. QED
    BY <2>3 DEF st
<1>20. \A j \in 1 .. Len(s) : j # i => Same(s[j], o, s[j], u)
  <2> HIDE DEF X, a, u, n
  <2>1. QED
    BY <1>1, <1>2, <1>4, <1>12, BytesStay
<1>21. SameBytes(s, o, t, u)
  BY <1>14, <1>19, <1>20 DEF SameBytes
<1>22. QED
  BY <1>9, <1>10, <1>13, <1>18, <1>21 DEF Chunked

(* A flush of a stream at rest does nothing.                               *)
LEMMA FlushResting ==
  ASSUME NEW s, NEW tune, NEW o, Streamed(s, tune, o), NEW i \in 1 .. Len(s), s[i] \in Resting,
         NEW r, r = Flushed(i, s[i], o), NEW t, t = With(s, i, r.st)
  PROVE  /\ r.st = s[i] /\ r.out = o /\ t = s
<1>1. r.st = s[i] /\ r.out = o
  BY RestingFacts DEF Flushed
<1>2. s \in Seq(Stored)
  BY DEF Streamed
<1>3. t = s
  BY <1>1, <1>2 DEF With
<1>4. QED
  BY <1>1, <1>3

(* A flush of either.                                                      *)
LEMMA FlushStep ==
  ASSUME NEW s, NEW tune, NEW o, Streamed(s, tune, o), NEW i \in 1 .. Len(s),
         NEW r, r = Flushed(i, s[i], o), NEW t, t = With(s, i, r.st)
  PROVE  /\ Streamed(t, tune, r.out) /\ SameBytes(s, o, t, r.out) /\ r.st \in Resting
         /\ Further(o, r.out) /\ r.st.len = s[i].len
<1>1. s \in Seq(Stored) /\ o \in Seq(Nat) /\ Len(o) \in Nat
  BY LenProperties DEF Streamed
<1>2. s[i] \in Stored
  BY <1>1, ExtsFacts
<1>3. CASE s[i] \in Filling
  <2>1. /\ Streamed(t, tune, r.out) /\ SameBytes(s, o, t, r.out)
        /\ r.st \in Resting /\ Further(o, r.out)
    BY <1>3, FlushFilling
  <2>2. t[i] = r.st
    <3>1. r.st \in Stored
      BY <2>1 DEF Stored
    <3>2. Replaces(s, i, r.st, t)
      BY <1>1, <3>1, ExtsExcept
    <3>3. QED
      BY <3>2 DEF Replaces
  <2>3. QED
    BY <2>1, <2>2 DEF SameBytes, Same
<1>4. CASE s[i] \in Resting
  <2>1. r.st = s[i] /\ r.out = o /\ t = s
    BY <1>4, FlushResting
  <2>2. Further(o, o)
    BY <1>1 DEF Further, Agree
  <2>3. SameBytes(s, o, s, o)
    BY DEF SameBytes, Same
  <2>4. QED
    BY <1>4, <2>1, <2>2, <2>3
<1>5. QED
  BY <1>2, <1>3, <1>4 DEF Stored

(* A stream that keeps its extents.                                        *)
LEMMA SetStep ==
  ASSUME NEW s, NEW tune, NEW o, Streamed(s, tune, o), NEW i \in 1 .. Len(s),
         NEW w \in Stored, w.ext = s[i].ext, NEW t, t = With(s, i, w)
  PROVE  Streamed(t, tune, o)
<1>0. s \in Seq(Stored)
  BY DEF Streamed
<1>1. t \in Seq(Stored) /\ Exts(t) = Exts(s)
  BY <1>0, ExtsExcept DEF Replaces
<1>2. QED
  BY <1>1 DEF Streamed

(* A stream that is new.                                                   *)
LEMMA NewStep ==
  ASSUME NEW s, NEW tune, NEW o, Streamed(s, tune, o)
  PROVE  /\ Streamed(Append(s, Stream(<<>>)), tune, o)
         /\ Stream(<<>>) \in Written /\ Stream(<<>>).ext = <<>>
<1> DEFINE st == Stream(<<>>)
<1>1. st = RestingOf(<<>>, 0, <<>>, FALSE, FALSE)
  BY NewIsOnFile DEF OnFile, RestingOf
<1>2. st \in Resting
  <2> DEFINE no == FALSE
             e == <<>>
  <2>1. no \in BOOLEAN /\ e \in Packs /\ e \in Seq(Bytes) /\ st = RestingOf(e, 0, e, no, no)
    BY <1>1, EmptyPacked, EmptySeq
  <2> HIDE DEF no, e, st
  <2>2. QED
    BY <2>1, IsResting
<1>3. st.ext = <<>> /\ st.live = FALSE /\ st.len = 0
  BY EmptySeq DEF Stream
<1> HIDE DEF st
<1>4. Append(s, st) \in Seq(Stored) /\ Exts(Append(s, st)) = Exts(s)
  BY <1>2, <1>3, ExtsAppend DEF Streamed, Stored
<1>5. Streamed(Append(s, st), tune, o)
  BY <1>4 DEF Streamed
<1>6. QED
  BY <1>2, <1>3, <1>5 DEF Written, st

-----------------------------------------------------------------------------
(* A byte more in a stream.                                                *)

Put(w, b) == [w EXCEPT !.buf = Append(@, b), !.len = @ + 1, !.dirty = TRUE]

(* A window that is open at the end of full chunks.                        *)
OpenOf(x, buf, dirty) ==
  StreamOf(<<>>, x, LenOf(x) + Len(buf), LenOf(x), buf, TRUE, dirty, FALSE)

Opens(w, x, buf) ==
  x \in FullPacks /\ buf \in Seq(Bytes) /\ Len(buf) < Chunk
  /\ \E dirty : w = OpenOf(x, buf, dirty)

(* A byte more in an open window makes the stream a filling one.           *)
LEMMA PutIs ==
  ASSUME NEW w, NEW x, NEW buf, Opens(w, x, buf), NEW b \in Bytes
  PROVE  Fills(Put(w, b), x, Append(buf, b))
<1>1. PICK dirty : w = OpenOf(x, buf, dirty)
  BY DEF Opens
<1>2. x \in FullPacks /\ buf \in Seq(Bytes) /\ Len(buf) < Chunk
  BY DEF Opens
<1> DEFINE n == LenOf(x)
           l == Len(buf)
           z == Append(buf, b)
           e == <<>>
           no == FALSE
           yes == TRUE
<1>3. z \in Seq(Bytes) /\ z # <<>> /\ Len(z) = l + 1 /\ l \in Nat
  BY <1>2, AppendProperties, LenProperties
<1>4. Packed(x) /\ LastFull(x) /\ n \in Nat
  BY <1>2, LenOfFacts DEF FullPacks, Packs
<1>5. n = Chunk * Len(x)
  BY <1>4, LenOfFacts
<1>6. w = StreamOf(e, x, n + l, n, buf, yes, dirty, no)
  BY <1>1 DEF OpenOf
<1>7. w.buf = buf /\ w.len = n + l
  BY <1>6 DEF StreamOf
<1>8. Put(w, b) = [w EXCEPT !.buf = z, !.len = n + l + 1, !.dirty = yes]
  BY <1>7 DEF Put
<1>9. z \in Windows
  <2> HIDE DEF z, l
  <2>1. Len(z) <= Chunk
    BY <1>2, <1>3, ChunkAssumption DEF l
  <2>2. QED
    BY <1>3, <2>1 DEF Windows
<1>10. n + l + 1 = n + Len(z)
  <2> HIDE DEF n, l, z
  <2>1. QED
    BY <1>3, <1>4
<1> DEFINE m == n + l + 1
<1>11. FillingOf(x, z) = StreamOf(e, x, m, n, z, yes, yes, no)
  BY <1>5, <1>10 DEF FillingOf
<1> DEFINE k == n + l
<1>12. w = StreamOf(e, x, k, n, buf, yes, dirty, no)
  BY <1>6
<1>13. Put(w, b) = [w EXCEPT !.buf = z, !.len = m, !.dirty = yes]
  BY <1>8
<1> HIDE DEF m, n, k, z, e, yes, no
<1>14. [w EXCEPT !.buf = z] = StreamOf(e, x, k, n, z, yes, dirty, no)
  BY <1>12, SMT DEF StreamOf
<1>15. [StreamOf(e, x, k, n, z, yes, dirty, no) EXCEPT !.len = m]
         = StreamOf(e, x, m, n, z, yes, dirty, no)
  BY SMT DEF StreamOf
<1>16. [StreamOf(e, x, m, n, z, yes, dirty, no) EXCEPT !.dirty = yes]
         = StreamOf(e, x, m, n, z, yes, yes, no)
  BY SMT DEF StreamOf
<1>17. [w EXCEPT !.buf = z, !.len = m, !.dirty = yes]
         = [[[w EXCEPT !.buf = z] EXCEPT !.len = m] EXCEPT !.dirty = yes]
  OBVIOUS
<1>18. Put(w, b) = FillingOf(x, z)
  BY <1>11, <1>13, <1>14, <1>15, <1>16, <1>17
<1>19. QED
  BY <1>2, <1>9, <1>18 DEF Fills, z

(* A stream at rest whose chunks are full is opened at its end.            *)
LEMMA OpenedIs ==
  ASSUME NEW st \in Resting, LastFull(st.ext), st.done = FALSE
  PROVE  Opens(Opened(st), st.ext, <<>>)
<1> DEFINE x == st.ext
           n == LenOf(x)
           e == <<>>
           no == FALSE
           yes == TRUE
           f == Floor(st.len)
           g == [k \in 1 .. st.len - f |-> StreamByte(st, f + k - 1)]
<1>1. /\ x \in Packs /\ st.len = n /\ n \in Nat
      /\ st = RestingOf(x, st.at, st.buf, st.live, no)
  BY RestingFacts
<1>2. x \in FullPacks
  BY <1>1 DEF FullPacks
<1>3. n = Chunk * Len(x) /\ Len(x) \in Nat
  BY <1>1, LenOfFacts, ExtentFacts DEF Packs
<1>4. f = n
  <2> DEFINE m == Len(x)
  <2>1. m \in Nat /\ 0 \in 0 .. Chunk - 1 /\ st.len = Chunk * m
    BY <1>1, <1>3, ChunkAssumption
  <2> HIDE DEF m
  <2>2. (Chunk * m + 0) \div Chunk = m /\ Chunk * m + 0 = Chunk * m
    BY <2>1, Divided, ChunkAssumption
  <2>3. st.len \div Chunk = m
    BY <2>1, <2>2
  <2>4. Floor(st.len) = Chunk * m
    BY <2>3 DEF Floor
  <2>5. QED
    BY <1>3, <2>4 DEF m
<1>5. g = e
  <2>1. 1 .. st.len - f = {}
    <3> HIDE DEF f, n
    <3>1. QED
      BY <1>1, <1>4
  <2>2. g = [k \in {} |-> StreamByte(st, f + k - 1)]
    BY <2>1
  <2>3. \A A : A = {} => [k \in A |-> StreamByte(st, f + k - 1)] = <<>>
    OBVIOUS
  <2>4. QED
    BY <2>1, <2>3
<1>6. Opened(st) = [st EXCEPT !.at = f, !.live = yes, !.buf = g]
  BY DEF Opened
<1>7. Opened(st) = [st EXCEPT !.at = n, !.live = yes, !.buf = e]
  <2> HIDE DEF f, g, n, e
  <2>1. QED
    BY <1>4, <1>5, <1>6
<1> DEFINE a == st.at
           b == st.buf
           v == st.live
<1>8. st = StreamOf(e, x, n, a, b, v, no, no)
  BY <1>1 DEF RestingOf
<1> HIDE DEF f, g, n, e, no, yes, a, b, v, x
<1>9. [st EXCEPT !.at = n] = StreamOf(e, x, n, n, b, v, no, no)
  BY <1>8, SMT DEF StreamOf
<1>10. [StreamOf(e, x, n, n, b, v, no, no) EXCEPT !.live = yes]
         = StreamOf(e, x, n, n, b, yes, no, no)
  BY SMT DEF StreamOf
<1>11. [StreamOf(e, x, n, n, b, yes, no, no) EXCEPT !.buf = e]
         = StreamOf(e, x, n, n, e, yes, no, no)
  BY SMT DEF StreamOf
<1>12. [st EXCEPT !.at = n, !.live = yes, !.buf = e]
         = [[[st EXCEPT !.at = n] EXCEPT !.live = yes] EXCEPT !.buf = e]
  OBVIOUS
<1>13. Opened(st) = StreamOf(e, x, n, n, e, yes, no, no)
  BY <1>7, <1>9, <1>10, <1>11, <1>12
<1>14. e \in Seq(Bytes) /\ Len(e) = 0 /\ n + Len(e) = n /\ Len(e) < Chunk
  BY <1>1, EmptySeq, ChunkAssumption DEF e
<1>15. Opened(st) = OpenOf(x, e, no)
  BY <1>13, <1>14 DEF OpenOf, e, n, no, yes
<1>16. QED
  BY <1>2, <1>14, <1>15 DEF Opens, e, x

(* What has been put is the stream's last byte.                            *)
Grows(st, o, w, t, b) ==
  w.len = st.len + 1 /\ Bytewise(w, t) = Append(Bytewise(st, o), b)

(* The stream's bytes are those it had, and the new one.                   *)
LEMMA PutGrows ==
  ASSUME NEW x, NEW buf \in Seq(Bytes), NEW b \in Bytes, NEW w, Fills(w, x, Append(buf, b)),
         NEW o, NEW st, st.len = LenOf(x) + Len(buf),
         \A at \in Nat : at < LenOf(x) => ByteAt(st, at, o) = Shows(x, o, at),
         \A j \in 1 .. Len(buf) : \A at \in Nat :
           at = LenOf(x) + j - 1 => ByteAt(st, at, o) = buf[j]
  PROVE  Grows(st, o, w, o, b)
<1> DEFINE n == LenOf(x)
           l == Len(buf)
           z == Append(buf, b)
           A == Bytewise(st, o)
           B == Append(A, b)
<1>1. w.len = Chunk * Len(x) + Len(z)
  BY DEF Fills, FillingOf, StreamOf
<1>2. LenOf(x) = Chunk * Len(x) /\ LenOf(x) \in Nat
  BY FillingFacts
<1>3. /\ Len(z) = l + 1 /\ l \in Nat /\ z[l + 1] = b /\ \A j \in 1 .. l : z[j] = buf[j]
  BY AppendProperties, LenProperties
<1>4. w.len = n + (l + 1) /\ n \in Nat
  <2> DEFINE c == Chunk * Len(x)
  <2>1. w.len = c + Len(z) /\ n = c
    BY <1>1, <1>2
  <2> HIDE DEF c, n, z
  <2>2. QED
    BY <1>2, <1>3, <2>1 DEF n
<1>5. \A at \in Nat : /\ at >= n => ByteAt(w, at, o) = z[at - n + 1]
                      /\ ~(at >= n) => ByteAt(w, at, o) = Shows(x, o, at)
  <2> DEFINE c == Chunk * Len(x)
  <2>1. n = c
    BY <1>2
  <2>2. \A at : /\ at >= c => ByteAt(w, at, o) = z[at - c + 1]
                /\ ~(at >= c) => ByteAt(w, at, o) = Shows(x, o, at)
    <3>1. Fills(w, x, z)
      OBVIOUS
    <3> HIDE DEF z
    <3> SUFFICES ASSUME NEW at
                 PROVE  /\ at >= c => ByteAt(w, at, o) = z[at - c + 1]
                        /\ ~(at >= c) => ByteAt(w, at, o) = Shows(x, o, at)
      OBVIOUS
    <3>2. QED
      BY <3>1, FillingByte
  <2> HIDE DEF c, n, z
  <2>3. QED
    BY <2>1, <2>2
<1> DEFINE m == n + l
<1>6. m \in Nat /\ st.len = m /\ w.len = m + 1
  <2> HIDE DEF n, l
  <2>1. QED
    BY <1>3, <1>4 DEF n, l
<1>7. A = [k \in 1 .. m |-> ByteAt(st, k - 1, o)]
  BY <1>6 DEF Bytewise
<1>8. Bytewise(w, o) = [k \in 1 .. m + 1 |-> ByteAt(w, k - 1, o)]
  BY <1>6 DEF Bytewise
<1> HIDE DEF n, l, z, A
<1>9. ASSUME NEW k \in 1 .. m PROVE ByteAt(w, k - 1, o) = ByteAt(st, k - 1, o)
  <2> DEFINE at == k - 1
  <2>1. at \in Nat /\ at < n + l
    BY <1>6
  <2> HIDE DEF at
  <2>2. CASE at < n
    <3>1. ~(at >= n)
      BY <1>4, <2>1, <2>2
    <3>2. ByteAt(w, at, o) = Shows(x, o, at) /\ ByteAt(st, at, o) = Shows(x, o, at)
      BY <1>5, <2>1, <2>2, <3>1 DEF n
    <3>3. QED
      BY <3>2 DEF at
  <2>3. CASE ~(at < n)
    <3> DEFINE j == at - n + 1
    <3>1. j \in 1 .. l /\ at = n + j - 1 /\ at >= n
      BY <1>3, <1>4, <2>1, <2>3
    <3>2. ByteAt(w, at, o) = z[j]
      BY <1>5, <2>1, <3>1
    <3> HIDE DEF j
    <3>3. z[j] = buf[j] /\ ByteAt(st, at, o) = buf[j]
      BY <1>3, <2>1, <3>1 DEF n, l
    <3>4. QED
      BY <3>2, <3>3 DEF at
  <2>4. QED
    BY <2>2, <2>3
<1>10. ByteAt(w, m, o) = b
  <2>1. m >= n /\ m - n + 1 = l + 1
    BY <1>3, <1>4
  <2> HIDE DEF m
  <2>2. ByteAt(w, m, o) = z[m - n + 1]
    BY <1>5, <1>6, <2>1
  <2>3. QED
    BY <1>3, <2>1, <2>2
<1> HIDE DEF m
<1>11. \A S : A \in Seq(S) /\ b \in S => B = [k \in 1 .. m + 1 |-> IF k <= m THEN A[k] ELSE b]
  <2> SUFFICES ASSUME NEW S, A \in Seq(S), b \in S
               PROVE  B = [k \in 1 .. m + 1 |-> IF k <= m THEN A[k] ELSE b]
    OBVIOUS
  <2>1. Len(A) = m
    BY <1>6, <1>7
  <2>2. /\ B \in Seq(S) /\ Len(B) = m + 1 /\ B[m + 1] = b /\ \A k \in 1 .. m : B[k] = A[k]
    BY <2>1, AppendProperties
  <2> HIDE DEF B
  <2>3. B \in [1 .. m + 1 -> S]
    BY <2>2, LenProperties
  <2>4. \A k \in 1 .. m + 1 : B[k] = IF k <= m THEN A[k] ELSE b
    BY <1>6, <2>2
  <2>5. QED
    BY <2>3, <2>4
<1>12. A \in Seq({A[k] : k \in 1 .. m} \cup {b})
  <2> DEFINE S == {A[k] : k \in 1 .. m} \cup {b}
  <2>1. \A k \in 1 .. m : A[k] \in S
    OBVIOUS
  <2>2. DOMAIN A = 1 .. m /\ A = [k \in 1 .. m |-> A[k]]
    BY <1>7
  <2> HIDE DEF S
  <2>3. A \in [1 .. m -> S]
    BY <2>1, <2>2
  <2>4. A \in Seq(S)
    BY <1>6, <2>3
  <2>5. QED
    BY <2>4 DEF S
<1>13. B = [k \in 1 .. m + 1 |-> IF k <= m THEN A[k] ELSE b]
  <2> DEFINE S == {A[k] : k \in 1 .. m} \cup {b}
  <2>1. A \in Seq(S) /\ b \in S
    BY <1>12
  <2> HIDE DEF S, B
  <2>2. QED
    BY <1>11, <2>1
<1>14. \A k \in 1 .. m + 1 : ByteAt(w, k - 1, o) = IF k <= m THEN A[k] ELSE b
  <2> SUFFICES ASSUME NEW k \in 1 .. m + 1
               PROVE  ByteAt(w, k - 1, o) = IF k <= m THEN A[k] ELSE b
    OBVIOUS
  <2>1. CASE k <= m
    <3>1. k \in 1 .. m
      BY <1>6, <2>1
    <3>2. A[k] = ByteAt(st, k - 1, o)
      BY <1>7, <3>1
    <3>3. QED
      BY <1>9, <2>1, <3>1, <3>2
  <2>2. CASE ~(k <= m)
    <3>1. k - 1 = m
      BY <1>6, <2>2
    <3>2. QED
      BY <1>10, <2>2, <3>1
  <2>3. QED
    BY <2>1, <2>2
<1>15. Bytewise(w, o) = B
  <2> HIDE DEF B
  <2>1. QED
    BY <1>8, <1>13, <1>14
<1>16. QED
  BY <1>6, <1>15 DEF Grows, A

(* bf_put with room in the window.                                         *)
LEMMA PutRoom ==
  ASSUME NEW st, NEW x, NEW buf, Fills(st, x, buf), ~NeedsWindow(st), NEW b \in Bytes,
         NEW p, p = Put(st, b), NEW o
  PROVE  Fills(p, x, Append(buf, b)) /\ Grows(st, o, p, o, b)
<1> DEFINE n == LenOf(x)
           l == Len(buf)
           c == Chunk * Len(x)
<1>1. n = c /\ n \in Nat /\ l \in Nat /\ buf \in Seq(Bytes) /\ x \in Packs /\ LastFull(x)
  BY FillingFacts
<1>2. /\ st = StreamOf(<<>>, x, c + l, c, buf, TRUE, TRUE, FALSE)
      /\ st.len = c + l /\ st.at = c /\ st.live = TRUE
  BY DEF Fills, FillingOf, StreamOf
<1>3. c + l = n + l /\ (c + l) - c = l /\ c = n
  <2> HIDE DEF c, n, l
  <2>1. QED
    BY <1>1
<1>4. st = OpenOf(x, buf, TRUE)
  BY <1>2, <1>3 DEF OpenOf
<1>5. l < Chunk
  <2>1. st.len - st.at = l
    BY <1>2, <1>3
  <2>2. ~(l >= Chunk)
    BY <1>2, <2>1 DEF NeedsWindow
  <2>3. QED
    BY <1>1, <2>2, ChunkAssumption
<1>6. Opens(st, x, buf)
  BY <1>1, <1>4, <1>5 DEF Opens, FullPacks
<1>7. Fills(p, x, Append(buf, b))
  BY <1>6, PutIs
<1>8. st.len = LenOf(x) + Len(buf)
  BY <1>2, <1>3
<1>9. \A at : /\ at >= c => ByteAt(st, at, o) = buf[at - c + 1]
              /\ ~(at >= c) => ByteAt(st, at, o) = Shows(x, o, at)
  <2> SUFFICES ASSUME NEW at
               PROVE  /\ at >= c => ByteAt(st, at, o) = buf[at - c + 1]
                      /\ ~(at >= c) => ByteAt(st, at, o) = Shows(x, o, at)
    OBVIOUS
  <2>1. QED
    BY FillingByte
<1> HIDE DEF c, l
<1>10. \A at \in Nat : at < LenOf(x) => ByteAt(st, at, o) = Shows(x, o, at)
  <2> SUFFICES ASSUME NEW at \in Nat, at < LenOf(x) PROVE ByteAt(st, at, o) = Shows(x, o, at)
    OBVIOUS
  <2>1. ~(at >= c)
    <3> HIDE DEF n
    <3>1. n = c /\ at < n /\ n \in Nat
      BY <1>1 DEF n
    <3>2. QED
      BY <3>1
  <2>2. QED
    BY <1>9, <2>1
<1>11. \A j \in 1 .. Len(buf) : \A at \in Nat : at = LenOf(x) + j - 1 => ByteAt(st, at, o) = buf[j]
  <2> SUFFICES ASSUME NEW j \in 1 .. Len(buf), NEW at \in Nat, at = LenOf(x) + j - 1
               PROVE  ByteAt(st, at, o) = buf[j]
    OBVIOUS
  <2>1. at >= c /\ at - c + 1 = j
    <3>1. n = c /\ at = n + j - 1 /\ n \in Nat
      BY <1>1
    <3> HIDE DEF n
    <3>2. QED
      BY <1>1, <3>1 DEF l
  <2>2. QED
    BY <1>9, <2>1
<1>12. Grows(st, o, p, o, b)
  BY <1>1, <1>7, <1>8, <1>10, <1>11, PutGrows
<1>13. QED
  BY <1>7, <1>12

(* bf_put into a window that has been opened anew.                         *)
LEMMA PutOpened ==
  ASSUME NEW st \in Resting, LastFull(st.ext), st.done = FALSE, NEW b \in Bytes,
         NEW p, p = Put(Opened(st), b), NEW o
  PROVE  Fills(p, st.ext, <<b>>) /\ Grows(st, o, p, o, b)
<1> DEFINE e == <<>>
           x == st.ext
           q == <<b>>
<1>1. Opens(Opened(st), x, e)
  BY OpenedIs
<1>2. Append(e, b) = q
  OBVIOUS
<1>3. e \in Seq(Bytes) /\ Len(e) = 0
  BY EmptySeq
<1>4. st.len = LenOf(x) /\ LenOf(x) \in Nat
  BY RestingFacts
<1>5. st.len = LenOf(x) + Len(e)
  BY <1>3, <1>4
<1>6. \A at \in Nat : at < LenOf(x) => ByteAt(st, at, o) = Shows(x, o, at)
  BY RestingByte
<1>7. 1 .. Len(e) = {}
  BY <1>3
<1> HIDE DEF e, x, q
<1>8. Fills(p, x, Append(e, b))
  BY <1>1, PutIs
<1>9. \A j \in 1 .. Len(e) : \A at \in Nat : at = LenOf(x) + j - 1 => ByteAt(st, at, o) = e[j]
  BY <1>7
<1>10. Grows(st, o, p, o, b)
  BY <1>3, <1>5, <1>6, <1>8, <1>9, PutGrows
<1>11. QED
  BY <1>2, <1>8, <1>10 DEF x, q

Moved(i, st, o) == IF NeedsWindow(st) THEN Flushed(i, st, o) ELSE [st |-> st, out |-> o]
Window(i, st, o) == IF NeedsWindow(st) THEN Opened(Moved(i, st, o).st) ELSE st

(* What the streams of an archive that is being streamed are.              *)
LEMMA WrittenFacts ==
  ASSUME NEW st \in Written
  PROVE  /\ st \in Stored /\ st.done \in BOOLEAN
         /\ st \in Filling => ~st.done
         /\ st \in Resting => ~st.live /\ (st.done \/ st.ext = <<>>)
<1>1. CASE st \in Filling
  <2>1. PICK x \in FullPacks, buf \in Windows : st = FillingOf(x, buf)
    BY <1>1 DEF Filling
  <2>2. st.done = FALSE
    BY <2>1 DEF FillingOf, StreamOf
  <2>3. st \notin Resting
    BY <1>1, RestingFacts, StoredFacts DEF Stored
  <2>4. QED
    BY <1>1, <2>2, <2>3 DEF Stored
<1>2. CASE st \in Resting
  <2>1. st \notin Filling
    BY <1>2, RestingFacts, StoredFacts DEF Stored
  <2>2. ~st.live /\ (st.done \/ st.ext = <<>>)
    BY <2>1 DEF Written
  <2>3. QED
    BY <1>2, <2>1, <2>2, RestingFacts DEF Stored
<1>3. QED
  BY <1>1, <1>2 DEF Written

(* The second replacement of an element undoes the first.                  *)
LEMMA WithTwice ==
  ASSUME NEW W, NEW s \in Seq(W), NEW i \in 1 .. Len(s), NEW v, NEW w
  PROVE  With(With(s, i, v), i, w) = With(s, i, w)
BY DEF With

(* A move that keeps the bytes, and a byte more.                           *)
LEMMA GrowsOn ==
  ASSUME NEW st, NEW o, NEW v, NEW t, NEW w, NEW b, Same(st, o, v, t), Grows(v, t, w, t, b)
  PROVE  Grows(st, o, w, t, b)
BY DEF Same, Grows

(* A stream has its own bytes.                                             *)
LEMMA SameSelf == \A st, o : Same(st, o, st, o)
BY DEF Same

(* The stream i has the byte b more, and the others stay.                  *)
PutDone(s, o, i, b, t, u) ==
  Grows(s[i], o, t[i], u, b) /\ \A j \in 1 .. Len(s) : j # i => Same(s[j], o, t[j], u)

Puts(s, i, o, b, t, u) ==
  t = With(s, i, Put(Window(i, s[i], o), b)) /\ u = Moved(i, s[i], o).out

(* bf_put appends its byte to one stream and leaves the others alone.      *)
LEMMA PutStep ==
  ASSUME NEW s \in Seq(Written), NEW tune, NEW o, Streamed(s, tune, o), NEW i \in 1 .. Len(s),
         ~s[i].done, NEW b \in Bytes, NEW t, NEW u, Puts(s, i, o, b, t, u)
  PROVE  /\ Appends(s[i]) /\ Streamed(t, tune, u) /\ t \in Seq(Written) /\ Len(t) = Len(s)
         /\ PutDone(s, o, i, b, t, u)
<1> DEFINE st == s[i]
           m == Moved(i, st, o)
           p == Put(Window(i, st, o), b)
<1>1. /\ s \in Seq(Stored) /\ o \in Seq(Nat) /\ Len(s) \in Nat
      /\ t = With(s, i, p) /\ u = m.out
  BY LenProperties DEF Streamed, Puts
<1>2. st \in Written /\ st \in Stored /\ Appends(st) /\ st.done = FALSE
  <2>1. st \in Written
    BY ElementOfSeq
  <2>2. st \in Stored /\ st.done \in BOOLEAN
    BY <2>1, WrittenFacts
  <2>3. QED
    BY <2>1, <2>2, StoredFacts
<1> DEFINE s1 == With(s, i, m.st)
<1>3. /\ Streamed(s1, tune, u) /\ SameBytes(s, o, s1, u) /\ m.st \in Stored
      /\ NeedsWindow(st) => m.st \in Resting
  <2>1. CASE NeedsWindow(st)
    <3>1. m = Flushed(i, s[i], o)
      BY <2>1 DEF Moved
    <3> HIDE DEF m
    <3>2. Streamed(s1, tune, m.out) /\ SameBytes(s, o, s1, m.out) /\ m.st \in Resting
      BY <3>1, FlushStep
    <3>3. QED
      BY <1>1, <3>2 DEF Stored
  <2>2. CASE ~NeedsWindow(st)
    <3>1. m.st = st /\ m.out = o
      BY <2>2 DEF Moved
    <3>2. s1 = s
      BY <1>1, <3>1 DEF With
    <3>3. QED
      BY <1>1, <1>2, <2>2, <3>1, <3>2, SameSelf DEF SameBytes
  <2>3. QED
    BY <2>1, <2>2
<1>4. ASSUME NeedsWindow(st) PROVE LastFull(m.st.ext) /\ m.st.done = FALSE
  <2>1. m = Flushed(i, s[i], o)
    BY <1>4 DEF Moved
  <2>2. CASE st \in Filling
    <3> DEFINE x == st.ext
               buf == st.buf
               l == Len(buf)
               c == Chunk * Len(x)
               y == Extent(Len(o) + 2, l)
    <3>1. Fills(st, x, buf)
      BY <1>2, <2>2, StoredFacts
    <3> HIDE DEF st
    <3>2. st.len = c + l /\ st.at = c /\ st.live = TRUE
      BY <3>1 DEF Fills, FillingOf, StreamOf
    <3>3. l \in 1 .. Chunk /\ c \in Nat /\ Packed(x) /\ LastFull(x) /\ Chunk \in Nat
      <4>1. l \in 1 .. Chunk /\ Packed(x) /\ LastFull(x) /\ LenOf(x) = c /\ LenOf(x) \in Nat
        BY <3>1, FillingFacts
      <4>2. QED
        BY <4>1, ChunkAssumption
    <3>4. l = Chunk
      <4>1. st.len - st.at >= Chunk
        BY <1>4, <3>2 DEF NeedsWindow
      <4> HIDE DEF c, l
      <4>2. QED
        BY <3>2, <3>3, <4>1
    <3> DEFINE z == Append(x, y)
    <3>5. y \in Extents /\ y.len = Chunk
      <4>1. Len(o) + 2 \in Nat
        BY <1>1, LenProperties
      <4>2. QED
        BY <3>3, <3>4, <4>1 DEF Extent, Extents
    <3>6. m.st.done = FALSE /\ m.st.ext = z
      <4>1. s[i] \in Filling
        BY <2>2 DEF st
      <4> HIDE DEF m
      <4>2. Chunked(s[i], o, m.st)
        BY <2>1, <4>1, FlushFilling
      <4>3. QED
        BY <4>2 DEF st, Chunked
    <3> HIDE DEF x, y
    <3>7. Len(z) = Len(x) + 1 /\ z[Len(x) + 1] = y
      BY <3>3, <3>5, PackedAppend
    <3>8. LastFull(z)
      BY <3>5, <3>7 DEF LastFull
    <3>9. QED
      BY <3>6, <3>8
  <2>3. CASE st \in Resting
    <3>1. st.ext = <<>>
      BY <1>2, <2>3, WrittenFacts
    <3>2. m.st = st
      <4> HIDE DEF m
      <4>1. QED
        BY <2>1, <2>3, FlushResting
    <3>3. QED
      BY <1>2, <3>1, <3>2, EmptyPacked
  <2>4. QED
    BY <1>2, <2>2, <2>3 DEF Stored
<1>5. /\ p \in Filling /\ p.ext = m.st.ext /\ Grows(m.st, u, p, u, b)
  <2>1. CASE NeedsWindow(st)
    <3> DEFINE r == m.st
               q == <<b>>
    <3>1. p = Put(Opened(r), b)
      BY <2>1 DEF Window
    <3>2. r \in Resting /\ LastFull(r.ext) /\ r.done = FALSE
      BY <1>3, <1>4, <2>1
    <3> HIDE DEF r, p, q
    <3>3. Fills(p, r.ext, q) /\ Grows(r, u, p, u, b)
      BY <3>1, <3>2, PutOpened DEF q
    <3>4. p \in Filling
      BY <3>3 DEF Fills, Filling
    <3>5. p.ext = r.ext
      BY <3>3 DEF Fills, FillingOf, StreamOf
    <3>6. QED
      BY <3>3, <3>4, <3>5 DEF r
  <2>2. CASE ~NeedsWindow(st)
    <3> DEFINE buf == st.buf
               z == Append(buf, b)
    <3>1. p = Put(st, b) /\ m.st = st
      BY <2>2 DEF Window, Moved
    <3>2. st \in Filling
      BY <1>2, <2>2, WrittenFacts DEF NeedsWindow, Stored
    <3>3. Fills(st, st.ext, buf)
      BY <1>2, <3>2, StoredFacts
    <3> HIDE DEF st, p, buf
    <3>4. Fills(p, st.ext, z) /\ Grows(st, u, p, u, b)
      BY <2>2, <3>1, <3>3, PutRoom
    <3> HIDE DEF z
    <3>5. p \in Filling
      BY <3>4 DEF Fills, Filling
    <3>6. p.ext = st.ext
      BY <3>4 DEF Fills, FillingOf, StreamOf
    <3>7. QED
      BY <3>1, <3>4, <3>5, <3>6
  <2>3. QED
    BY <2>1, <2>2
<1> HIDE DEF p, m
<1>6. Replaces(s, i, m.st, s1)
  BY <1>1, <1>3, ExtsExcept
<1>7. i \in 1 .. Len(s1) /\ s1[i] = m.st /\ Len(s1) = Len(s) /\ s1 \in Seq(Stored)
  BY <1>6 DEF Replaces
<1>8. t = With(s1, i, p)
  BY <1>1, WithTwice
<1>9. p \in Stored /\ p \in Written
  BY <1>5 DEF Stored, Written
<1> HIDE DEF s1
<1>10. Streamed(t, tune, u)
  BY <1>3, <1>5, <1>7, <1>8, <1>9, SetStep
<1>11. Replaces(s1, i, p, t)
  BY <1>7, <1>8, <1>9, ExtsExcept
<1>12. t \in Seq(Written) /\ Len(t) = Len(s)
  <2>1. t = [s EXCEPT ![i] = p]
    BY <1>1 DEF With
  <2>2. QED
    BY <1>9, <2>1, ExceptSeq
<1>13. Grows(s[i], o, t[i], u, b)
  <2>1. t[i] = p
    BY <1>11 DEF Replaces
  <2>2. Same(s[i], o, m.st, u)
    BY <1>3, <1>7 DEF SameBytes
  <2>3. QED
    BY <1>5, <2>1, <2>2, GrowsOn
<1>14. \A j \in 1 .. Len(s) : j # i => Same(s[j], o, t[j], u)
  <2>1. \A j \in 1 .. Len(s) : j # i => t[j] = s1[j]
    BY <1>7, <1>11 DEF Replaces
  <2>2. QED
    BY <1>3, <2>1 DEF SameBytes
<1>15. PutDone(s, o, i, b, t, u)
  BY <1>13, <1>14 DEF PutDone
<1>16. QED
  BY <1>2, <1>10, <1>12, <1>15

-----------------------------------------------------------------------------
(* The streams that are given up, one by one or all of them.               *)

Dropped(w) == [w EXCEPT !.live = FALSE, !.done = TRUE]

(* A stream that is given up stays at rest, with its bytes.                *)
LEMMA DropIs ==
  ASSUME NEW st \in Resting, NEW w, w = Dropped(st), NEW o
  PROVE  w \in Resting /\ w \in Written /\ w.ext = st.ext /\ Same(st, o, w, o)
<1> DEFINE x == st.ext
           n == LenOf(x)
           e == <<>>
           no == FALSE
           yes == TRUE
           a == st.at
           b == st.buf
           v == st.live
           d == st.done
<1>1. /\ x \in Packs /\ st.len = n /\ a \in Nat /\ b \in Seq(Bytes)
      /\ st = RestingOf(x, a, b, v, d)
  BY RestingFacts
<1>2. st = StreamOf(e, x, n, a, b, v, no, d)
  BY <1>1 DEF RestingOf
<1>3. w = [st EXCEPT !.live = no, !.done = yes]
  BY DEF Dropped
<1>4. no \in BOOLEAN /\ yes \in BOOLEAN
  OBVIOUS
<1> HIDE DEF n, e, no, yes, a, b, v, x, d
<1>5. [st EXCEPT !.live = no] = StreamOf(e, x, n, a, b, no, no, d)
  BY <1>2, SMT DEF StreamOf
<1>6. [StreamOf(e, x, n, a, b, no, no, d) EXCEPT !.done = yes]
        = StreamOf(e, x, n, a, b, no, no, yes)
  BY SMT DEF StreamOf
<1>7. [st EXCEPT !.live = no, !.done = yes] = [[st EXCEPT !.live = no] EXCEPT !.done = yes]
  OBVIOUS
<1>8. w = StreamOf(e, x, n, a, b, no, no, yes)
  BY <1>3, <1>5, <1>6, <1>7
<1>9. w = RestingOf(x, a, b, no, yes)
  BY <1>8 DEF RestingOf, e, n, no
<1>10. w \in Resting
  BY <1>1, <1>4, <1>9, IsResting
<1>11. w.ext = x /\ w.len = n /\ w.live = no /\ w.done = yes
  BY <1>8, FieldsOf
<1>12. w \in Written
  BY <1>10, <1>11 DEF Written, no, yes
<1>13. \A at : ByteAt(w, at, o) = ByteAt(st, at, o)
  BY <1>10, <1>11, RestingByte DEF x
<1>14. Same(st, o, w, o)
  BY <1>1, <1>11, <1>13 DEF Same, Bytewise
<1>15. QED
  BY <1>10, <1>11, <1>12, <1>14 DEF x

(* Two moves that keep the bytes.                                          *)
LEMMA SameOn ==
  ASSUME NEW st, NEW o, NEW v, NEW t, NEW w, NEW u, Same(st, o, v, t), Same(v, t, w, u)
  PROVE  Same(st, o, w, u)
BY DEF Same

Drops(s, i, o, t, u) ==
  LET r == Flushed(i, s[i], o) IN t = With(s, i, Dropped(r.st)) /\ u = r.out

(* bf_dropcache keeps the archive and every byte.                          *)
LEMMA DropStep ==
  ASSUME NEW s \in Seq(Written), NEW tune, NEW o, Streamed(s, tune, o), NEW i \in 1 .. Len(s),
         NEW t, NEW u, Drops(s, i, o, t, u)
  PROVE  /\ Appends(s[i]) /\ Streamed(t, tune, u) /\ t \in Seq(Written) /\ Len(t) = Len(s)
         /\ SameBytes(s, o, t, u)
<1> DEFINE r == Flushed(i, s[i], o)
           w == Dropped(r.st)
           s1 == With(s, i, r.st)
<1>1. s \in Seq(Stored) /\ t = With(s, i, w) /\ u = r.out
  BY DEF Streamed, Drops
<1>2. Appends(s[i])
  BY <1>1, ElementOfSeq, StoredFacts
<1>3. Streamed(s1, tune, u) /\ SameBytes(s, o, s1, u) /\ r.st \in Resting /\ r.st \in Stored
  <2> HIDE DEF r
  <2>1. r = Flushed(i, s[i], o)
    BY DEF r
  <2>2. Streamed(s1, tune, r.out) /\ SameBytes(s, o, s1, r.out) /\ r.st \in Resting
    BY <2>1, FlushStep
  <2>3. QED
    BY <1>1, <2>2 DEF Stored
<1> HIDE DEF r
<1>4. w \in Resting /\ w \in Written /\ w.ext = r.st.ext /\ Same(r.st, u, w, u)
  BY <1>3, DropIs
<1> HIDE DEF w
<1>5. w \in Stored
  BY <1>4 DEF Stored
<1>6. Replaces(s, i, r.st, s1)
  BY <1>1, <1>3, ExtsExcept
<1>7. i \in 1 .. Len(s1) /\ s1[i] = r.st /\ Len(s1) = Len(s) /\ s1 \in Seq(Stored)
  BY <1>6 DEF Replaces
<1>8. t = With(s1, i, w)
  BY <1>1, WithTwice
<1> HIDE DEF s1
<1>9. Streamed(t, tune, u)
  BY <1>3, <1>4, <1>5, <1>7, <1>8, SetStep
<1>10. Replaces(s1, i, w, t)
  BY <1>5, <1>7, <1>8, ExtsExcept
<1>11. t \in Seq(Written) /\ Len(t) = Len(s)
  <2>1. t = [s EXCEPT ![i] = w]
    BY <1>1 DEF With
  <2>2. QED
    BY <1>4, <2>1, ExceptSeq
<1>12. ASSUME NEW j \in 1 .. Len(s) PROVE Same(s[j], o, t[j], u)
  <2>1. Same(s[j], o, s1[j], u)
    BY <1>3 DEF SameBytes
  <2>2. CASE j = i
    <3>1. t[j] = w /\ s1[j] = r.st
      BY <1>7, <1>10, <2>2 DEF Replaces
    <3>2. QED
      BY <1>4, <2>1, <3>1, SameOn
  <2>3. CASE j # i
    <3>1. t[j] = s1[j]
      BY <1>7, <1>10, <2>3 DEF Replaces
    <3>2. QED
      BY <2>1, <3>1
  <2>4. QED
    BY <2>2, <2>3
<1>13. SameBytes(s, o, t, u)
  BY <1>12 DEF SameBytes
<1>14. QED
  BY <1>2, <1>9, <1>11, <1>13

(* A flush of any stream, at the end of any file.                          *)
LEMMA FlushedIs ==
  ASSUME NEW st \in Stored, NEW i \in Nat, NEW o \in Seq(Nat), NEW r, r = Flushed(i, st, o)
  PROVE  r.st \in Resting /\ r.out \in Seq(Nat)
<1>1. CASE st \in Resting
  BY <1>1, RestingFacts DEF Flushed
<1>2. CASE st \in Filling
  <2> DEFINE x == st.ext
             buf == st.buf
             y == Extent(Len(o) + 2, Len(buf))
             n == LenOf(x)
  <2>1. Fills(st, x, buf)
    BY <1>2, StoredFacts
  <2>2. buf \in Seq(Nat) /\ buf \in Seq(Bytes) /\ n \in Nat
    BY <2>1, FillingFacts
  <2> HIDE DEF x, buf, y, n
  <2>3. FlushGives(i, st, o, x, y, buf) /\ Append(x, y) \in Packs
    BY <2>1, FlushGrows DEF y
  <2>4. r.st = RestingOf(Append(x, y), n, buf, TRUE, FALSE) /\ r.out = WithChunk(o, i, buf)
    BY <2>3 DEF FlushGives, n
  <2>5. r.st \in Resting
    BY <2>2, <2>3, <2>4, IsResting
  <2> DEFINE l == Len(buf)
             u == r.out
  <2>6. u = WithChunk(o, i, buf)
    BY <2>4
  <2> HIDE DEF u
  <2>7. Grew(o, u, i, l)
    <3> HIDE DEF l
    <3>1. QED
      BY <2>2, <2>6, ChunkAdded DEF l
  <2>8. QED
    BY <2>5, <2>7 DEF Grew, u
<1>3. QED
  BY <1>1, <1>2 DEF Stored

FlushNext(acc, st) ==
  LET r == Flushed(Len(acc.s) + 1, st, acc.out)
  IN  [s |-> Append(acc.s, r.st), out |-> r.out]

Finished(s, o) ==
  LET step(acc, st) ==
        LET r == Flushed(Len(acc.s) + 1, st, acc.out)
        IN  [s |-> Append(acc.s, r.st), out |-> r.out]
  IN  FoldLeft(step, [s |-> <<>>, out |-> o], s)

Flushes == [s : Seq(Resting), out : Seq(Nat)]

(* One round of the fold of arc_finish has its type.                       *)
LEMMA FlushNextIs ==
  ASSUME NEW acc \in Flushes, NEW st \in Stored
  PROVE  FlushNext(acc, st) \in Flushes
<1>1. Len(acc.s) + 1 \in Nat /\ acc.out \in Seq(Nat) /\ acc.s \in Seq(Resting)
  BY LenProperties DEF Flushes
<1> DEFINE r == Flushed(Len(acc.s) + 1, st, acc.out)
<1>2. r.st \in Resting /\ r.out \in Seq(Nat)
  BY <1>1, FlushedIs
<1> HIDE DEF r
<1>3. Append(acc.s, r.st) \in Seq(Resting)
  BY <1>1, <1>2, AppendProperties
<1>4. QED
  BY <1>2, <1>3 DEF FlushNext, Flushes, r

(* The fold of arc_finish, stream by stream.                               *)
Unrolls(q, s, o, n) ==
  /\ q \in [0 .. n -> Flushes] /\ q[0] = [s |-> <<>>, out |-> o] /\ q[n] = Finished(s, o)
  /\ \A k \in 0 .. n - 1 : q[k + 1] = FlushNext(q[k], s[k + 1])

(* The fold has its rounds, each from the one before it.                   *)
LEMMA FinishedIs ==
  ASSUME NEW s \in Seq(Stored), NEW o \in Seq(Nat), NEW n, n = Len(s)
  PROVE  \E q : Unrolls(q, s, o, n)
<1> DEFINE b == [s |-> <<>>, out |-> o]
           D == 1 .. n
           A == Flushes
           H == [t \in D \X A |-> FlushNext(t[2], s[t[1]])]
           Is(f) == f = [S \in SUBSET D |-> IF S = {} THEN b
                          ELSE FlushNext(f[S \ {Greatest(S)}], s[Greatest(S)])]
           it == CHOOSE f : Is(f)
<1>1. n \in Nat /\ DOMAIN s = D /\ \A x \in D : s[x] \in Stored
  BY LenProperties, ElementOfSeq
<1>2. Finished(s, o) = it[D]
  BY <1>1 DEF Finished, FoldLeft, MapThenFoldSet, Max, Greatest, FlushNext
<1>3. b \in A
  BY EmptySeq DEF Flushes
<1>4. H \in [D \X A -> A]
  <2>1. \A x \in D, y \in A : FlushNext(y, s[x]) \in A
    BY <1>1, FlushNextIs
  <2> HIDE DEF A
  <2>2. \A t \in D \X A : FlushNext(t[2], s[t[1]]) \in A
    BY <2>1
  <2>3. QED
    BY <2>2
<1> HIDE DEF A, b
<1>5. PICK f \in [SUBSET D -> A] : Folds(f, n, b, H)
  <2> HIDE DEF H
  <2>1. QED
    BY <1>1, <1>3, <1>4, FoldsExist
<1>6. Is(f)
  <2>1. \A S \in SUBSET D : S # {} =>
          H[<<Greatest(S), f[S \ {Greatest(S)}]>>]
            = FlushNext(f[S \ {Greatest(S)}], s[Greatest(S)])
    <3> SUFFICES ASSUME NEW S \in SUBSET D, S # {}
                 PROVE  H[<<Greatest(S), f[S \ {Greatest(S)}]>>]
                          = FlushNext(f[S \ {Greatest(S)}], s[Greatest(S)])
      OBVIOUS
    <3>1. Greatest(S) \in D
      BY <1>1, GreatestIs
    <3>2. f[S \ {Greatest(S)}] \in A
      OBVIOUS
    <3>3. QED
      BY <3>1, <3>2
  <2> HIDE DEF H
  <2>2. f = [S \in SUBSET D |-> IF S = {} THEN b ELSE H[<<Greatest(S), f[S \ {Greatest(S)}]>>]]
    BY <1>5 DEF Folds
  <2>3. QED
    BY <2>1, <2>2
<1>7. Is(it)
  <2> HIDE DEF Is
  <2>1. QED
    BY <1>6
<1> HIDE DEF it
<1>8. /\ it[{}] = b
      /\ \A S \in SUBSET D : S # {} =>
           it[S] = FlushNext(it[S \ {Greatest(S)}], s[Greatest(S)])
  BY <1>7
<1> HIDE DEF Is, H
<1>9. \A k \in 0 .. n - 1 : it[1 .. k + 1] = FlushNext(it[1 .. k], s[k + 1])
  <2> SUFFICES ASSUME NEW k \in 0 .. n - 1
               PROVE  it[1 .. k + 1] = FlushNext(it[1 .. k], s[k + 1])
    OBVIOUS
  <2>1. k \in Nat /\ k + 1 \in Nat \ {0}
    OBVIOUS
  <2>2. Greatest(1 .. k + 1) = k + 1 /\ (1 .. k + 1) \ {k + 1} = 1 .. k
    BY <2>1, GreatestOfFirst
  <2>3. 1 .. k + 1 \in SUBSET D /\ 1 .. k + 1 # {}
    <3>1. k + 1 \in 1 .. k + 1 /\ \A x \in 1 .. k + 1 : x \in D
      BY <1>1
    <3>2. QED
      BY <3>1
  <2> HIDE DEF D
  <2>4. QED
    BY <1>8, <2>2, <2>3
<1>10. it[1 .. 0] = b
  <2>1. 1 .. 0 = {}
    OBVIOUS
  <2>2. QED
    BY <1>8, <2>1
<1> DEFINE q == [k \in 0 .. n |-> it[1 .. k]]
<1>11. \A k \in 0 .. n : it[1 .. k] \in A
  <2> DEFINE B == {k \in Nat : k <= n => it[1 .. k] \in A}
  <2>1. 0 \in B
    BY <1>3, <1>10
  <2>2. ASSUME NEW k \in Nat, k \in B PROVE k + 1 \in B
    <3> SUFFICES ASSUME k + 1 <= n PROVE it[1 .. k + 1] \in A
      OBVIOUS
    <3>1. k \in 0 .. n - 1 /\ k + 1 \in D /\ k <= n
      BY <1>1
    <3>2. it[1 .. k] \in A /\ s[k + 1] \in Stored
      BY <1>1, <2>2, <3>1
    <3>3. QED
      BY <1>9, <3>1, <3>2, FlushNextIs DEF A
  <2> HIDE DEF B
  <2>3. \A k \in Nat : k \in B
    BY <2>1, <2>2, Inducts
  <2>4. QED
    BY <1>1, <2>3 DEF B
<1>12. q \in [0 .. n -> A] /\ q[0] = b /\ q[n] = it[D]
  BY <1>1, <1>10, <1>11
<1>13. \A k \in 0 .. n - 1 : q[k + 1] = FlushNext(q[k], s[k + 1])
  <2> SUFFICES ASSUME NEW k \in 0 .. n - 1 PROVE q[k + 1] = FlushNext(q[k], s[k + 1])
    OBVIOUS
  <2>1. k \in 0 .. n /\ k + 1 \in 0 .. n
    BY <1>1
  <2>2. QED
    BY <1>9, <2>1
<1> HIDE DEF q
<1>14. Unrolls(q, s, o, n)
  BY <1>2, <1>12, <1>13 DEF A, b, Unrolls
<1>15. QED
  BY <1>14

(* The first k streams of s as they are after the flush, the others still  *)
(* as before.                                                              *)
Mixed(s, p, k) == [i \in 1 .. Len(s) |-> IF i <= k THEN p[i] ELSE s[i]]

Half(s, tune, o, acc, k) ==
  /\ acc \in Flushes /\ Len(acc.s) = k
  /\ Streamed(Mixed(s, acc.s, k), tune, acc.out) /\ SameBytes(s, o, Mixed(s, acc.s, k), acc.out)

(* A round of the fold keeps the archive and every byte.                   *)
LEMMA HalfStep ==
  ASSUME NEW s \in Seq(Stored), NEW tune, NEW o, NEW k \in 0 .. Len(s) - 1, NEW acc,
         Half(s, tune, o, acc, k), NEW next, next = FlushNext(acc, s[k + 1])
  PROVE  Half(s, tune, o, next, k + 1)
<1> DEFINE n == Len(s)
           i == k + 1
           p == acc.s
           u == acc.out
           m == Mixed(s, p, k)
           r == Flushed(i, s[i], u)
           z == Append(p, r.st)
           w == With(m, i, r.st)
<1>1. n \in Nat /\ k \in Nat /\ i \in 1 .. n /\ DOMAIN s = 1 .. n
  BY LenProperties
<1>2. p \in Seq(Resting) /\ u \in Seq(Nat) /\ Len(p) = k /\ acc \in Flushes
  BY DEF Half, Flushes
<1>3. Streamed(m, tune, u) /\ SameBytes(s, o, m, u)
  BY DEF Half
<1>4. next = [s |-> z, out |-> r.out]
  BY <1>2 DEF FlushNext
<1>5. s[i] \in Stored
  BY <1>1, ElementOfSeq
<1>6. next \in Flushes
  BY <1>2, <1>5, FlushNextIs
<1>7. m \in Seq(Stored) /\ DOMAIN m = 1 .. n /\ Len(m) = n /\ m[i] = s[i]
  <2>1. m \in Seq(Stored)
    BY <1>3 DEF Streamed
  <2>2. DOMAIN m = 1 .. n
    BY DEF Mixed
  <2>3. m[i] = s[i]
    BY <1>1 DEF Mixed
  <2>4. Len(m) = n
    <3>1. m = [j \in 1 .. n |-> m[j]]
      BY DEF Mixed
    <3> HIDE DEF m
    <3>2. QED
      BY <1>1, <3>1
  <2>5. QED
    BY <2>1, <2>2, <2>3, <2>4
<1>8. next.s = z /\ next.out = r.out
  BY <1>4
<1>9. r = Flushed(i, m[i], u) /\ i \in 1 .. Len(m)
  BY <1>1, <1>7
<1> HIDE DEF r, m, i
<1>10. Streamed(w, tune, r.out) /\ SameBytes(m, u, w, r.out) /\ r.st \in Resting
  BY <1>3, <1>9, FlushStep
<1>11. r.st \in Stored
  BY <1>10 DEF Stored
<1>12. Replaces(m, i, r.st, w)
  BY <1>7, <1>9, <1>11, ExtsExcept
<1>13. /\ w \in Seq(Stored) /\ Len(w) = n /\ w[i] = r.st
       /\ \A j \in 1 .. n : j # i => w[j] = m[j]
  BY <1>7, <1>12 DEF Replaces
<1>14. Len(z) = i /\ z[i] = r.st /\ \A j \in 1 .. k : z[j] = p[j]
  BY <1>2, <1>10, AppendProperties DEF i
<1> HIDE DEF z
<1>15. \A j \in 1 .. n : w[j] = IF j <= i THEN z[j] ELSE s[j]
  <2> SUFFICES ASSUME NEW j \in 1 .. n PROVE w[j] = IF j <= i THEN z[j] ELSE s[j]
    OBVIOUS
  <2>1. m[j] = IF j <= k THEN p[j] ELSE s[j]
    BY DEF m, Mixed
  <2>2. CASE j = i
    BY <1>1, <1>13, <1>14, <2>2
  <2>3. CASE j <= k
    <3>1. j # i /\ j <= i /\ j \in 1 .. k
      BY <1>1, <2>3 DEF i
    <3>2. QED
      BY <1>13, <1>14, <2>1, <2>3, <3>1
  <2>4. CASE j > i
    <3>1. j # i /\ ~(j <= i) /\ ~(j <= k)
      BY <1>1, <2>4 DEF i
    <3>2. QED
      BY <1>13, <2>1, <3>1
  <2>5. QED
    BY <1>1, <2>2, <2>3, <2>4 DEF i
<1>16. w = Mixed(s, z, i)
  <2>1. DOMAIN w = 1 .. n /\ w = [j \in 1 .. n |-> w[j]]
    <3>1. w \in [1 .. n -> Stored]
      BY <1>13, LenProperties
    <3> HIDE DEF w
    <3>2. QED
      BY <3>1
  <2> HIDE DEF w
  <2>2. QED
    BY <1>15, <2>1 DEF Mixed
<1>17. SameBytes(s, o, w, r.out)
  <2>1. \A j \in 1 .. n : Same(s[j], o, m[j], u) /\ Same(m[j], u, w[j], r.out)
    BY <1>3, <1>7, <1>10 DEF SameBytes
  <2>2. \A j \in 1 .. n : Same(s[j], o, w[j], r.out)
    BY <2>1, SameOn
  <2>3. QED
    BY <2>2 DEF SameBytes
<1>18. Len(next.s) = i
  BY <1>8, <1>14
<1>19. Half(s, tune, o, next, i)
  BY <1>6, <1>8, <1>10, <1>16, <1>17, <1>18 DEF Half
<1>20. QED
  BY <1>19 DEF i

(* All streams flushed: the archive has every byte on file.                *)
LEMMA FinishStep ==
  ASSUME NEW s \in Seq(Stored), NEW tune, NEW o, Streamed(s, tune, o),
         NEW all, all = Finished(s, o)
  PROVE  /\ Streamed(all.s, tune, all.out) /\ all.s \in Seq(Resting) /\ Len(all.s) = Len(s)
         /\ SameBytes(s, o, all.s, all.out)
<1> DEFINE n == Len(s)
<1>1. n \in Nat /\ o \in Seq(Nat) /\ n = Len(s)
  BY LenProperties DEF Streamed
<1>0. PICK q : Unrolls(q, s, o, n)
  <2> HIDE DEF n
  <2>1. QED
    BY <1>1, FinishedIs
<1>2. /\ q \in [0 .. n -> Flushes] /\ q[0] = [s |-> <<>>, out |-> o] /\ q[n] = Finished(s, o)
      /\ \A k \in 0 .. n - 1 : q[k + 1] = FlushNext(q[k], s[k + 1])
  BY <1>0 DEF Unrolls
<1>3. Half(s, tune, o, q[0], 0)
  <2>1. Mixed(s, <<>>, 0) = s
    <3>1. s \in [1 .. n -> Stored]
      BY LenProperties
    <3>2. Mixed(s, <<>>, 0) = [i \in 1 .. n |-> s[i]]
      BY <1>1 DEF Mixed
    <3> HIDE DEF n
    <3>3. QED
      BY <3>1, <3>2
  <2>2. SameBytes(s, o, s, o)
    BY SameSelf DEF SameBytes
  <2>3. q[0].s = <<>> /\ q[0].out = o /\ q[0] \in Flushes
    BY <1>1, <1>2, EmptySeq DEF Flushes
  <2>4. QED
    BY <2>1, <2>2, <2>3, EmptySeq DEF Half
<1> DEFINE B == {k \in Nat : k <= n => Half(s, tune, o, q[k], k)}
<1>4. 0 \in B
  BY <1>3
<1>5. ASSUME NEW k \in Nat, k \in B PROVE k + 1 \in B
  <2> SUFFICES ASSUME k + 1 <= n PROVE Half(s, tune, o, q[k + 1], k + 1)
    OBVIOUS
  <2>1. k \in 0 .. n - 1 /\ k <= n
    BY <1>1
  <2>2. Half(s, tune, o, q[k], k) /\ q[k + 1] = FlushNext(q[k], s[k + 1])
    BY <1>2, <1>5, <2>1
  <2>3. QED
    BY <2>1, <2>2, HalfStep
<1> HIDE DEF B
<1>6. \A k \in Nat : k \in B
  BY <1>4, <1>5, Inducts
<1>7. Half(s, tune, o, all, n)
  BY <1>1, <1>2, <1>6 DEF B
<1>8. all.s \in Seq(Resting) /\ Len(all.s) = n
  BY <1>7 DEF Half, Flushes
<1>9. Mixed(s, all.s, n) = all.s
  <2> DEFINE p == all.s
  <2>1. p \in [1 .. n -> Resting]
    BY <1>8, LenProperties
  <2>2. Mixed(s, p, n) = [i \in 1 .. n |-> p[i]]
    BY <1>1 DEF Mixed
  <2> HIDE DEF p, n
  <2>3. p = [i \in 1 .. n |-> p[i]]
    BY <2>1
  <2>4. QED
    BY <2>2, <2>3 DEF p
<1>10. QED
  BY <1>7, <1>8, <1>9 DEF Half

-----------------------------------------------------------------------------
(* The archive of streams in memory, as it is emitted.                     *)

Held == {Stream(data) : data \in Seq(Bytes) \ {<<>>}}

(* A stream in memory, by its fields.                                      *)
LEMMA HeldFacts ==
  ASSUME NEW st \in Held
  PROVE  /\ st.data \in Seq(Bytes) /\ st.data # <<>> /\ st = Stream(st.data)
         /\ st.len = Len(st.data) /\ st.len \in Nat \ {0} /\ Appends(st)
         /\ \A at : StreamByte(st, at) = st.data[at + 1]
         /\ \A at, o : ByteAt(st, at, o) = st.data[at + 1]
<1>1. PICK data \in Seq(Bytes) \ {<<>>} : st = Stream(data)
  BY DEF Held
<1>2. st.data = data /\ st.len = Len(data) /\ st.dirty = FALSE
  BY <1>1 DEF Stream
<1>3. Len(data) \in Nat \ {0}
  BY EmptySeq, LenProperties
<1>4. QED
  BY <1>1, <1>2, <1>3 DEF StreamByte, ByteAt, Appends

(* The chunk added to the list is the last that is emitted.                *)
LEMMA BodiesAppend ==
  ASSUME NEW s, NEW q \in Seq(Chunks), Bodies(s, q) \in Seq(Seq(Nat)), NEW c \in Chunks,
         Body(s, c) \in Seq(Nat)
  PROVE  Bodies(s, Append(q, c)) = Append(Bodies(s, q), Body(s, c))
<1> DEFINE T == Seq(Nat)
           A == Bodies(s, q)
           z == Body(s, c)
           m == Len(q)
           r == Append(q, c)
           B == Append(A, z)
<1>1. /\ m \in Nat /\ DOMAIN q = 1 .. m /\ Len(r) = m + 1 /\ r[m + 1] = c
      /\ \A k \in 1 .. m : r[k] = q[k]
  BY AppendProperties, LenProperties
<1>2. DOMAIN r = 1 .. m + 1
  BY <1>1, AppendProperties, LenProperties
<1> HIDE DEF r, m
<1>3. A = [k \in 1 .. m |-> Body(s, q[k])] /\ Bodies(s, r) = [k \in 1 .. m + 1 |-> Body(s, r[k])]
  BY <1>1, <1>2 DEF Bodies
<1>4. A \in Seq(T) /\ z \in T
  OBVIOUS
<1>5. A \in Seq(T) /\ Len(A) = m
  <2>1. A = [k \in 1 .. m |-> A[k]]
    BY <1>3
  <2> HIDE DEF A, T
  <2>2. QED
    BY <1>1, <1>4, <2>1
<1> HIDE DEF A, z, T
<1>6. B \in Seq(T) /\ Len(B) = m + 1 /\ B[m + 1] = z /\ \A k \in 1 .. m : B[k] = A[k]
  BY <1>4, <1>5, AppendProperties
<1>7. B \in [1 .. m + 1 -> T]
  <2> HIDE DEF B
  <2>1. QED
    BY <1>6, LenProperties
<1> HIDE DEF B
<1>8. \A k \in 1 .. m + 1 : B[k] = Body(s, r[k])
  <2> SUFFICES ASSUME NEW k \in 1 .. m + 1 PROVE B[k] = Body(s, r[k])
    OBVIOUS
  <2>1. CASE k = m + 1
    BY <1>1, <1>6, <2>1 DEF z
  <2>2. CASE k # m + 1
    <3>1. k \in 1 .. m
      BY <1>1, <2>2
    <3>2. QED
      BY <1>1, <1>3, <1>6, <3>1
  <2>3. QED
    BY <2>1, <2>2
<1>9. Bodies(s, r) = B
  BY <1>3, <1>7, <1>8
<1>10. QED
  BY <1>9 DEF B, A, z, r

Joined(p, q, r) == (p \o q) \o r = p \o (q \o r)

(* Concatenation is associative.                                           *)
LEMMA Joins ==
  ASSUME NEW S, NEW p \in Seq(S), NEW q \in Seq(S), NEW r \in Seq(S)
  PROVE  Joined(p, q, r)
BY ConcatAssociative DEF Joined

Image(s, q, h) == h \o FlattenSeq(Bodies(s, q))

(* X has the extents of the image of the chunks q of s, behind h.          *)
Laid(s, q, X, h) ==
  LET o == Image(s, q, h)
  IN  /\ q \in Seq(Chunks) /\ Bodies(s, q) \in Seq(Seq(Nat)) /\ o \in Seq(Nat)
      /\ Agree(h, o, Len(h)) /\ Len(h) <= Len(o)
      /\ Tiles(X, o, Len(h), Len(o)) /\ Sized(X, Len(h), Len(o))
      /\ \A i \in 1 .. Len(s) : \A at \in Nat :
           at < LenOf(X[i]) => Shows(X[i], o, at) = s[i].data[at + 1]

(* No chunks lie behind the header at first.                               *)
LEMMA LaidNone ==
  ASSUME NEW s, NEW h \in Seq(Nat), NEW X, X = [i \in Pos |-> <<>>]
  PROVE  Laid(s, <<>>, X, h)
<1>1. Bodies(s, <<>>) = <<>> /\ <<>> \in Seq(Seq(Nat)) /\ <<>> \in Seq(Chunks)
  BY EmptySeq DEF Bodies
<1>2. Image(s, <<>>, h) = h
  BY <1>1, FlattenEmpty, ConcatEmptySeq DEF Image
<1>3. Len(h) \in Nat
  BY LenProperties
<1>4. Tiles(X, h, Len(h), Len(h)) /\ Sized(X, Len(h), Len(h))
  BY <1>3, TilesNone, SizedNone
<1>5. ASSUME NEW i \in 1 .. Len(s), NEW at \in Nat PROVE ~(at < LenOf(X[i]))
  <2>1. X[i] = <<>> \/ Len(s) \notin Nat
    BY DEF Pos
  <2>2. i \in Pos
    BY DEF Pos
  <2>3. QED
    BY <2>2, EmptyPacked
<1>6. Agree(h, h, Len(h)) /\ Len(h) <= Len(h)
  BY <1>3 DEF Agree
<1>7. \A i \in 1 .. Len(s) : \A at \in Nat :
        at < LenOf(X[i]) => Shows(X[i], h, at) = s[i].data[at + 1]
  BY <1>5
<1> DEFINE e == <<>>
<1>8. /\ e \in Seq(Chunks) /\ Bodies(s, e) \in Seq(Seq(Nat)) /\ h = Image(s, e, h)
  BY <1>1, <1>2
<1> HIDE DEF e
<1>9. Laid(s, e, X, h)
  BY <1>4, <1>6, <1>7, <1>8 DEF Laid
<1>10. QED
  BY <1>9 DEF e

(* A chunk more of a stream in memory lies behind those before it.         *)
LEMMA LaidGrows ==
  ASSUME NEW s \in Seq(Held), NEW q, NEW X, NEW h \in Seq(Nat), Laid(s, q, X, h),
         NEW i \in 1 .. Len(s), LastFull(X[i]), NEW l \in 1 .. Chunk,
         LenOf(X[i]) + l <= Len(s[i].data),
         NEW c, c = [stream |-> i, off |-> LenOf(X[i]), len |-> l]
  PROVE  \E Z : /\ Laid(s, Append(q, c), Z, h) /\ LenOf(Z[i]) = LenOf(X[i]) + l
                /\ \A j \in Pos : j # i => Z[j] = X[j]
<1> DEFINE o == Image(s, q, h)
           n == Len(o)
           a == Len(h)
           y == Extent(n + 2, l)
           Z == Added(X, i, y)
           d == s[i].data
           f == LenOf(X[i])
           b == [k \in 1 .. l |-> d[f + k]]
           r == Append(q, c)
           t == Image(s, r, h)
           F == FlattenSeq(Bodies(s, q))
           g == <<i, l>>
<1>1. /\ q \in Seq(Chunks) /\ Bodies(s, q) \in Seq(Seq(Nat)) /\ o \in Seq(Nat)
      /\ Agree(h, o, a) /\ a <= n /\ Tiles(X, o, a, n) /\ Sized(X, a, n)
      /\ \A j \in 1 .. Len(s) : \A at \in Nat :
           at < LenOf(X[j]) => Shows(X[j], o, at) = s[j].data[at + 1]
  BY DEF Laid
<1>2. /\ n \in Nat /\ a \in Nat /\ l \in Nat /\ Len(s) \in Nat
      /\ i \in Pos /\ i \in Nat /\ Chunk \in Nat
  BY <1>1, LenProperties, ChunkAssumption DEF Pos
<1>3. X \in Maps /\ Packed(X[i])
  BY <1>1, <1>2, MapFacts DEF Tiles
<1>4. f \in Nat
  BY <1>3, LenOfFacts
<1>5. s[i] \in Held
  BY ElementOfSeq
<1>6. d \in Seq(Bytes) /\ \A at : StreamByte(s[i], at) = d[at + 1]
  BY <1>5, HeldFacts
<1>7. \A k \in 1 .. l : d[f + k] \in Nat
  <2>1. Len(d) \in Nat /\ \A k \in 1 .. Len(d) : d[k] \in Nat
    BY <1>6, LenProperties, ElementOfSeq, CellAssumption
  <2> HIDE DEF f, d
  <2>2. \A k \in 1 .. l : f + k \in 1 .. Len(d)
    BY <1>2, <1>4, <2>1 DEF f, d
  <2>3. QED
    BY <2>1, <2>2
<1>8. b \in Seq(Nat) /\ Len(b) = l
  <2>1. b \in [1 .. l -> Nat]
    BY <1>7
  <2> HIDE DEF b
  <2>2. QED
    BY <1>2, <2>1
<1>9. c \in Chunks /\ c.stream = i /\ c.off = f /\ c.len = l
  <2> HIDE DEF f
  <2>1. c = [stream |-> i, off |-> f, len |-> l]
    BY DEF f
  <2>2. QED
    BY <1>2, <1>4, <2>1 DEF Chunks
<1>10. Body(s, c) = g \o b
  <2>1. \A k \in 1 .. l : StreamByte(s[i], f + k - 1) = d[f + k]
    <3> SUFFICES ASSUME NEW k \in 1 .. l PROVE StreamByte(s[i], f + k - 1) = d[f + k]
      OBVIOUS
    <3> DEFINE at == f + k - 1
    <3>1. at + 1 = f + k
      BY <1>2, <1>4
    <3>2. StreamByte(s[i], at) = d[at + 1]
      BY <1>6
    <3>3. QED
      BY <3>1, <3>2
  <2>2. [k \in 1 .. c.len |-> StreamByte(s[c.stream], c.off + k - 1)] = b
    <3> HIDE DEF f, d
    <3>1. [k \in 1 .. c.len |-> StreamByte(s[c.stream], c.off + k - 1)]
            = [k \in 1 .. l |-> StreamByte(s[i], f + k - 1)]
      BY <1>9
    <3>2. QED
      BY <2>1, <3>1
  <2> HIDE DEF b
  <2>3. QED
    BY <1>9, <2>2 DEF Body
<1>11. g \in Seq(Nat) /\ Len(g) = 2
  BY <1>2
<1> HIDE DEF b, g, f, d
<1>12. g \o b \in Seq(Nat)
  BY <1>8, <1>11, ConcatProperties
<1>13. Bodies(s, r) = Append(Bodies(s, q), g \o b)
  BY <1>1, <1>9, <1>10, <1>12, BodiesAppend
<1>14. F \in Seq(Nat) /\ FlattenSeq(Bodies(s, r)) = F \o (g \o b)
  BY <1>1, <1>12, <1>13, FlattenAppend
<1>15. Bodies(s, r) \in Seq(Seq(Nat)) /\ r \in Seq(Chunks)
  <2> DEFINE T == Seq(Nat)
             A == Bodies(s, q)
             v == g \o b
  <2>1. A \in Seq(T) /\ v \in T
    BY <1>1, <1>12
  <2> HIDE DEF T, A, v
  <2>2. Append(A, v) \in Seq(T)
    BY <2>1, AppendProperties
  <2>3. QED
    BY <1>1, <1>9, <1>13, <2>2, AppendProperties DEF T, A, v
<1>16. t = WithChunk(o, i, b)
  <2>1. h \o (F \o (g \o b)) = ((h \o F) \o g) \o b
    <3> DEFINE u == h \o F
               v == g \o b
    <3>1. \A p1, p2, p3 \in Seq(Nat) : Joined(p1, p2, p3)
      BY Joins
    <3>2. u \in Seq(Nat) /\ v \in Seq(Nat)
      BY <1>12, <1>14, ConcatProperties
    <3>3. u \o v = (u \o g) \o b
      <4> HIDE DEF u
      <4>1. QED
        BY <1>8, <1>11, <3>1, <3>2 DEF Joined
    <3>4. u \o v = h \o (F \o v)
      <4> HIDE DEF v, F
      <4>1. QED
        BY <1>14, <3>1, <3>2 DEF Joined
    <3>5. QED
      BY <3>3, <3>4
  <2>2. t = h \o (F \o (g \o b))
    BY <1>14 DEF Image
  <2>3. o = h \o F
    BY DEF Image
  <2>4. WithChunk(o, i, b) = (o \o g) \o b
    BY <1>8 DEF WithChunk, g
  <2>5. QED
    BY <2>1, <2>2, <2>3, <2>4
<1> HIDE DEF t, o, r, F
<1>17. Grew(o, t, i, l) /\ \A j \in 1 .. l : t[n + 2 + j] = b[j]
  <2>1. Grew(o, t, i, Len(b)) /\ \A j \in 1 .. Len(b) : t[Len(o) + 2 + j] = b[j]
    BY <1>1, <1>2, <1>8, <1>16, ChunkAdded
  <2>2. QED
    BY <1>8, <2>1
<1> HIDE DEF n, a
<1>18. /\ t \in Seq(Nat) /\ Len(t) = n + 2 + l /\ Agree(o, t, n) /\ t[n + 1] = i /\ t[n + 2] = l
  BY <1>17 DEF Grew, n
<1>19. y \in Extents /\ y.len = l /\ y.off = n + 2
  BY <1>2 DEF Extent, Extents
<1>20. Tiles(Z, t, a, n + 2 + l)
  BY <1>1, <1>2, <1>18, TilesGrow
<1>21. Sized(Z, a, n + 2 + l)
  <2> HIDE DEF y
  <2>1. Sized(Added(X, i, y), a, n + 2 + y.len)
    BY <1>1, <1>2, <1>3, <1>19, SizedGrow
  <2>2. QED
    BY <1>19, <2>1
<1>22. Agree(h, t, a) /\ a <= Len(t)
  <2>1. \A z \in 1 .. a : z \in 1 .. n
    BY <1>1, <1>2
  <2>2. a <= Len(t)
    BY <1>1, <1>2, <1>18
  <2>3. QED
    BY <1>1, <1>18, <2>1, <2>2 DEF Agree
<1>23. Z[i] = Append(X[i], y) /\ \A j \in Pos : j # i => Z[j] = X[j]
  <2> HIDE DEF y
  <2>1. QED
    BY <1>2, <1>3, <1>19, AddedFacts
<1>24. LenOf(Z[i]) = f + l
  <2> HIDE DEF y
  <2>1. LenOf(Append(X[i], y)) = LenOf(X[i]) + y.len
    BY <1>3, <1>19, PackedAppend
  <2>2. QED
    BY <1>19, <1>23, <2>1 DEF f
<1>32. \A j \in Pos : \A at \in Nat : at < LenOf(X[j]) => Shows(X[j], t, at) = Shows(X[j], o, at)
  <2> SUFFICES ASSUME NEW j \in Pos, NEW at \in Nat, at < LenOf(X[j])
               PROVE  Shows(X[j], t, at) = Shows(X[j], o, at)
    OBVIOUS
  <2>1. Tiles(X, o, a, n) /\ Agree(o, t, n) /\ n \in Nat /\ a \in Nat
    BY <1>1, <1>2, <1>18
  <2>2. QED
    BY <2>1, ShowsStay
<1> HIDE DEF y, Z
<1>31. \A at \in Nat :
        /\ at < LenOf(X[i]) => Shows(Append(X[i], y), t, at) = Shows(X[i], t, at)
        /\ \A j \in 1 .. y.len :
             at = LenOf(X[i]) + j - 1 => Shows(Append(X[i], y), t, at) = t[y.off + j]
  <2> DEFINE x == X[i]
  <2>1. Packed(x) /\ LastFull(x) /\ y \in Extents
    BY <1>3, <1>19
  <2> HIDE DEF x
  <2>2. \A at \in Nat :
          /\ at < LenOf(x) => Shows(Append(x, y), t, at) = Shows(x, t, at)
          /\ \A j \in 1 .. y.len :
               at = LenOf(x) + j - 1 => Shows(Append(x, y), t, at) = t[y.off + j]
    <3> SUFFICES ASSUME NEW at \in Nat
                 PROVE  /\ at < LenOf(x) => Shows(Append(x, y), t, at) = Shows(x, t, at)
                        /\ \A j \in 1 .. y.len :
                             at = LenOf(x) + j - 1 => Shows(Append(x, y), t, at) = t[y.off + j]
      OBVIOUS
    <3>1. QED
      BY <2>1, ShowsMore
  <2>3. QED
    BY <2>2 DEF x
<1>25. ASSUME NEW j \in 1 .. Len(s), NEW at \in Nat, at < LenOf(Z[j])
       PROVE  Shows(Z[j], t, at) = s[j].data[at + 1]
  <2>1. j \in Pos
    BY <1>2 DEF Pos
  <2>2. CASE j # i
    <3>1. Z[j] = X[j] /\ at < LenOf(X[j])
      BY <1>23, <1>25, <2>1, <2>2
    <3>2. QED
      BY <1>1, <1>32, <2>1, <3>1
  <2>3. CASE j = i /\ at < f
    <3>1. at < LenOf(X[i])
      BY <2>3 DEF f
    <3>2. Shows(Append(X[i], y), t, at) = Shows(X[i], t, at)
      BY <1>31, <3>1
    <3>3. QED
      BY <1>1, <1>2, <1>23, <1>32, <2>3, <3>1, <3>2
  <2>4. CASE j = i /\ ~(at < f)
    <3> DEFINE k == at - f + 1
    <3>1. k \in 1 .. l /\ at = f + k - 1 /\ f + k = at + 1
      BY <1>2, <1>4, <1>24, <1>25, <2>4
    <3> HIDE DEF k
    <3>2. k \in 1 .. y.len /\ at = LenOf(X[i]) + k - 1
      BY <1>19, <3>1 DEF f
    <3>3. Shows(Append(X[i], y), t, at) = t[y.off + k]
      BY <1>31, <3>2
    <3>4. t[y.off + k] = b[k] /\ b[k] = d[f + k]
      BY <1>17, <1>19, <3>1 DEF b
    <3>5. QED
      BY <1>23, <2>4, <3>1, <3>3, <3>4 DEF d
  <2>5. QED
    BY <2>2, <2>3, <2>4
<1>26. Laid(s, r, Z, h)
  <2>1. t = Image(s, r, h) /\ Len(t) = n + 2 + l
    BY <1>18 DEF t
  <2>2. Tiles(Z, t, a, Len(t)) /\ Sized(Z, a, Len(t))
    BY <1>18, <1>20, <1>21 DEF Z
  <2>3. QED
    BY <1>15, <1>18, <1>22, <1>25, <2>1, <2>2 DEF Laid, a
<1>27. QED
  BY <1>23, <1>24, <1>26 DEF r, f

(* The chunks of one stream.                                               *)
Sections(st, i) ==
  [c \in 1 .. 1 + (st.len - 1) \div Chunk |->
     LET off == (c - 1) * Chunk IN [stream |-> i, off |-> off, len |-> Lesser(Chunk, st.len - off)]]

(* How much of len bytes the first c chunks have.                          *)
Filled(c, len) == Lesser(Chunk * c, len)

FillsUp(c, len) ==
  /\ Filled(c, len) = Chunk * c /\ Chunk * c \in Nat
  /\ Lesser(Chunk, len - Chunk * c) \in 1 .. Chunk
  /\ Chunk * c + Lesser(Chunk, len - Chunk * c) <= len
  /\ Filled(c + 1, len) = Chunk * c + Lesser(Chunk, len - Chunk * c)

(* The chunks of a stream, counted: all are full but the last.             *)
LEMMA FilledFacts ==
  ASSUME NEW len \in Nat \ {0}, NEW m, m = 1 + (len - 1) \div Chunk
  PROVE  /\ m \in Nat \ {0} /\ Filled(0, len) = 0 /\ Filled(m, len) = len
         /\ \A c \in 0 .. m - 1 : FillsUp(c, len)
<1> DEFINE d == (len - 1) \div Chunk
           r == (len - 1) % Chunk
           f == Chunk * d
<1>1. len - 1 \in Nat /\ Chunk \in Nat \ {0}
  BY ChunkAssumption
<1>2. d \in Nat /\ r \in 0 .. Chunk - 1 /\ len - 1 = f + r
  BY <1>1, Divides
<1>3. m = 1 + d
  OBVIOUS
<1> HIDE DEF d, r
<1>4. f \in Nat
  BY <1>1, <1>2
<1>5. \A c \in 0 .. m - 1 :
        Chunk * c \in Nat /\ Chunk * c <= f /\ Chunk * (c + 1) = Chunk * c + Chunk
  <2> SUFFICES ASSUME NEW c \in 0 .. m - 1
               PROVE  Chunk * c \in Nat /\ Chunk * c <= f /\ Chunk * (c + 1) = Chunk * c + Chunk
    OBVIOUS
  <2> DEFINE k == d - c
  <2>1. k \in Nat /\ d = c + k /\ c \in Nat
    BY <1>2, <1>3
  <2> HIDE DEF k
  <2>2. f = Chunk * c + Chunk * k
    BY <1>1, <2>1
  <2>3. Chunk * c \in Nat /\ Chunk * k \in Nat
    BY <1>1, <2>1
  <2>4. Chunk * (c + 1) = Chunk * c + Chunk
    BY <1>1, <2>1
  <2> DEFINE x == Chunk * c
             y == Chunk * k
  <2>5. f = x + y /\ x \in Nat /\ y \in Nat
    BY <2>2, <2>3
  <2> HIDE DEF x, y
  <2>6. x <= f
    BY <2>5
  <2>7. QED
    BY <2>3, <2>4, <2>6 DEF x
<1> HIDE DEF f
<1>6. ASSUME NEW c \in 0 .. m - 1
      PROVE  /\ Filled(c, len) = Chunk * c /\ Chunk * c \in Nat
             /\ Lesser(Chunk, len - Chunk * c) \in 1 .. Chunk
             /\ Chunk * c + Lesser(Chunk, len - Chunk * c) <= len
             /\ Filled(c + 1, len) = Chunk * c + Lesser(Chunk, len - Chunk * c)
  <2> DEFINE x == Chunk * c
             y == Chunk * (c + 1)
  <2>1. x \in Nat /\ x <= f /\ y = x + Chunk
    BY <1>5
  <2>2. Filled(c, len) = Lesser(x, len) /\ Filled(c + 1, len) = Lesser(y, len)
    BY DEF Filled
  <2> HIDE DEF x, y
  <2>3. Lesser(x, len) = x /\ Lesser(Chunk, len - x) \in 1 .. Chunk
    BY <1>1, <1>2, <1>4, <2>1 DEF Lesser
  <2>4. x + Lesser(Chunk, len - x) <= len /\ Lesser(y, len) = x + Lesser(Chunk, len - x)
    BY <1>1, <1>2, <1>4, <2>1 DEF Lesser
  <2>5. QED
    BY <2>1, <2>2, <2>3, <2>4 DEF x
<1>7. Filled(0, len) = 0
  <2>1. Chunk * 0 = 0
    BY <1>1
  <2>2. QED
    BY <1>1, <2>1 DEF Filled, Lesser
<1>8. Filled(m, len) = len
  <2> DEFINE z == Chunk * m
  <2>1. z = f + Chunk
    BY <1>1, <1>2, <1>3 DEF f
  <2>2. Filled(m, len) = Lesser(z, len)
    BY DEF Filled
  <2> HIDE DEF z
  <2>3. QED
    BY <1>1, <1>2, <1>4, <2>1, <2>2 DEF Lesser
<1>9. QED
  BY <1>2, <1>3, <1>6, <1>7, <1>8 DEF FillsUp

(* The chunks of a stream in memory, one by one.                           *)
LEMMA SectionsAre ==
  ASSUME NEW st \in Held, NEW i \in Pos, NEW m, m = 1 + (st.len - 1) \div Chunk
  PROVE  /\ m \in Nat \ {0} /\ Sections(st, i) \in Seq(Chunks) /\ Len(Sections(st, i)) = m
         /\ \A c \in 0 .. m - 1 :
              Sections(st, i)[c + 1] = [stream |-> i, off |-> Filled(c, st.len),
                                        len |-> Lesser(Chunk, st.len - Chunk * c)]
<1> DEFINE n == st.len
           S == Sections(st, i)
           l(c) == Lesser(Chunk, n - Chunk * c)
<1>1. n \in Nat \ {0}
  BY HeldFacts
<1>2. m \in Nat \ {0}
  <2> HIDE DEF n
  <2>1. m = 1 + (n - 1) \div Chunk
    BY DEF n
  <2>2. QED
    BY <1>1, <2>1, FilledFacts
<1>3. \A c \in 0 .. m - 1 : Filled(c, n) = Chunk * c /\ Chunk * c \in Nat /\ l(c) \in 1 .. Chunk
  <2> HIDE DEF n
  <2>1. m = 1 + (n - 1) \div Chunk
    BY DEF n
  <2> SUFFICES ASSUME NEW c \in 0 .. m - 1
               PROVE  Filled(c, n) = Chunk * c /\ Chunk * c \in Nat /\ l(c) \in 1 .. Chunk
    OBVIOUS
  <2>2. FillsUp(c, n)
    BY <1>1, <2>1, FilledFacts
  <2>3. QED
    BY <2>2 DEF FillsUp
<1>4. S = [c \in 1 .. m |-> [stream |-> i, off |-> (c - 1) * Chunk,
                             len |-> Lesser(Chunk, n - (c - 1) * Chunk)]]
  BY DEF Sections
<1> HIDE DEF S
<1>5. \A c \in 0 .. m - 1 : S[c + 1] = [stream |-> i, off |-> Filled(c, n), len |-> l(c)]
  <2> SUFFICES ASSUME NEW c \in 0 .. m - 1
               PROVE  S[c + 1] = [stream |-> i, off |-> Filled(c, n), len |-> l(c)]
    OBVIOUS
  <2>1. c + 1 \in 1 .. m /\ (c + 1) - 1 = c /\ c \in Nat
    BY <1>2
  <2>2. c * Chunk = Chunk * c
    BY <2>1, ChunkAssumption
  <2>3. S[c + 1] = [stream |-> i, off |-> c * Chunk, len |-> Lesser(Chunk, n - c * Chunk)]
    BY <1>4, <2>1
  <2>4. QED
    BY <1>3, <2>2, <2>3
<1> HIDE DEF l
<1>6. \A k \in 1 .. m : S[k] \in Chunks
  <2> SUFFICES ASSUME NEW k \in 1 .. m PROVE S[k] \in Chunks
    OBVIOUS
  <2> DEFINE c == k - 1
  <2>1. c \in 0 .. m - 1 /\ k = c + 1
    BY <1>2
  <2> HIDE DEF c
  <2> DEFINE f == Filled(c, n)
  <2>2. f \in Nat /\ l(c) \in 1 .. Chunk
    BY <1>3, <2>1
  <2>3. S[k] = [stream |-> i, off |-> f, len |-> l(c)]
    BY <1>5, <2>1
  <2> HIDE DEF f
  <2>4. QED
    BY <2>2, <2>3 DEF Chunks
<1>7. S \in [1 .. m -> Chunks]
  <2>1. S = [k \in 1 .. m |-> S[k]]
    BY <1>4
  <2>2. QED
    BY <1>6, <2>1
<1>8. S \in Seq(Chunks) /\ Len(S) = m
  BY <1>2, <1>7
<1>9. QED
  BY <1>2, <1>5, <1>8 DEF S, l

(* q with the first c elements of r behind it.                             *)
Behind(q, r, c) ==
  [k \in 1 .. Len(q) + c |-> IF k <= Len(q) THEN q[k] ELSE r[k - Len(q)]]

BehindIs(q, r, c) == Behind(q, r, c + 1) = Append(Behind(q, r, c), r[c + 1])
BehindEnds(q, r) == Behind(q, r, 0) = q /\ Behind(q, r, Len(r)) = q \o r

(* From no elements of r behind q to all of them.                          *)
LEMMA BehindFacts ==
  ASSUME NEW S, NEW q \in Seq(S), NEW r \in Seq(S)
  PROVE  BehindEnds(q, r) /\ \A c \in 0 .. Len(r) - 1 : BehindIs(q, r, c)
<1> DEFINE n == Len(q)
           m == Len(r)
<1>1. n \in Nat /\ m \in Nat
  BY LenProperties
<1>2. \A k \in 1 .. n : q[k] \in S
  BY ElementOfSeq
<1>3. \A k \in 1 .. m : r[k] \in S
  BY ElementOfSeq
<1>4. q = [k \in 1 .. n |-> q[k]] /\ q \in [1 .. n -> S]
  BY LenProperties
<1>5. q \o r \in Seq(S) /\ Len(q \o r) = n + m
      /\ \A k \in 1 .. n + m : (q \o r)[k] = IF k <= n THEN q[k] ELSE r[k - n]
  BY ConcatProperties
<1>6. q \o r = [k \in 1 .. n + m |-> (q \o r)[k]]
  <2> DEFINE t == q \o r
  <2>1. t \in [1 .. n + m -> S]
    BY <1>5, LenProperties
  <2> HIDE DEF t, n, m
  <2>2. t = [k \in 1 .. n + m |-> t[k]]
    BY <2>1
  <2>3. QED
    BY <2>2 DEF t
<1>7. Behind(q, r, m) = q \o r
  BY <1>5, <1>6 DEF Behind
<1>8. Behind(q, r, 0) = q
  <2>1. Behind(q, r, 0) = [k \in 1 .. n |-> q[k]]
    <3>1. n + 0 = n /\ \A k \in 1 .. n : k <= n
      BY <1>1
    <3> HIDE DEF n
    <3>2. QED
      BY <3>1 DEF Behind, n
  <2>2. QED
    BY <1>4, <2>1
<1>9. ASSUME NEW c \in 0 .. m - 1
      PROVE  Behind(q, r, c + 1) = Append(Behind(q, r, c), r[c + 1])
  <2> DEFINE A == Behind(q, r, c)
             B == Append(A, r[c + 1])
             h(k) == IF k <= n THEN q[k] ELSE r[k - n]
  <2>0. A = [k \in 1 .. n + c |-> h(k)] /\ Behind(q, r, c + 1) = [k \in 1 .. n + (c + 1) |-> h(k)]
    BY DEF Behind
  <2>1. c \in Nat /\ c + 1 \in 1 .. m /\ n + (c + 1) = (n + c) + 1 /\ n + c \in Nat
    BY <1>1
  <2>2. \A k \in 1 .. n + (c + 1) : h(k) \in S
    <3> SUFFICES ASSUME NEW k \in 1 .. n + (c + 1) PROVE h(k) \in S
      OBVIOUS
    <3>1. CASE k <= n
      <4>1. k \in 1 .. n
        BY <1>1, <3>1
      <4>2. QED
        BY <1>2, <3>1, <4>1
    <3>2. CASE ~(k <= n)
      <4>1. k - n \in 1 .. m
        BY <1>1, <2>1, <3>2
      <4>2. QED
        BY <1>3, <3>2, <4>1
    <3>3. QED
      BY <3>1, <3>2
  <2>3. h(n + (c + 1)) = r[c + 1]
    <3>1. ~(n + (c + 1) <= n) /\ (n + (c + 1)) - n = c + 1
      BY <1>1, <2>1
    <3>2. QED
      BY <3>1
  <2> HIDE DEF h, n, m
  <2>4. A \in Seq(S) /\ Len(A) = n + c
    <3>1. \A k \in 1 .. n + c : k \in 1 .. n + (c + 1)
      BY <2>1
    <3>2. A \in [1 .. n + c -> S]
      BY <2>0, <2>2, <3>1
    <3> HIDE DEF A
    <3>3. QED
      BY <2>1, <3>2
  <2>5. r[c + 1] \in S
    BY <1>3, <2>1
  <2> HIDE DEF A
  <2>6. /\ B \in Seq(S) /\ Len(B) = n + c + 1 /\ B[n + c + 1] = r[c + 1]
        /\ \A k \in 1 .. n + c : B[k] = A[k]
    BY <2>4, <2>5, AppendProperties
  <2>7. B = [k \in 1 .. n + c + 1 |-> B[k]]
    <3> HIDE DEF B
    <3>1. B \in [1 .. n + c + 1 -> S]
      BY <2>6, LenProperties
    <3>2. QED
      BY <3>1
  <2> HIDE DEF B
  <2>8. \A k \in 1 .. n + c + 1 : B[k] = h(k)
    <3> SUFFICES ASSUME NEW k \in 1 .. n + c + 1 PROVE B[k] = h(k)
      OBVIOUS
    <3>1. CASE k = n + c + 1
      BY <2>1, <2>3, <2>6, <3>1
    <3>2. CASE k # n + c + 1
      <4>1. k \in 1 .. n + c
        BY <2>1, <3>2
      <4>2. QED
        BY <2>0, <2>6, <4>1
    <3>3. QED
      BY <3>1, <3>2
  <2>9. Behind(q, r, c + 1) = B
    BY <2>0, <2>1, <2>7, <2>8
  <2>10. QED
    BY <2>9 DEF B, A
<1>10. QED
  BY <1>7, <1>8, <1>9 DEF BehindIs, BehindEnds

(* Z is X with the stream i complete.                                      *)
Completes(s, i, X, Z) == LenOf(Z[i]) = s[i].len /\ \A j \in Pos : j # i => Z[j] = X[j]

(* The chunks of a stream lie behind those of the streams before it.       *)
LEMMA SectionsLaid ==
  ASSUME NEW s \in Seq(Held), NEW q, NEW X, NEW h \in Seq(Nat), Laid(s, q, X, h),
         NEW i \in 1 .. Len(s), X[i] = <<>>
  PROVE  \E Z : Laid(s, q \o Sections(s[i], i), Z, h) /\ Completes(s, i, X, Z)
<1> DEFINE st == s[i]
           S == Sections(st, i)
           n == st.len
           m == 1 + (n - 1) \div Chunk
           V(c) == Behind(q, S, c)
           l(c) == Lesser(Chunk, n - Chunk * c)
           P(c, Z) == /\ Laid(s, V(c), Z, h) /\ LenOf(Z[i]) = Filled(c, n)
                      /\ \A j \in Pos : j # i => Z[j] = X[j]
           B == {c \in Nat : c <= m => \E Z : P(c, Z)}
<1>1. i \in Pos /\ st \in Held /\ Len(s) \in Nat
  BY ElementOfSeq, LenProperties DEF Pos
<1>2. n \in Nat \ {0} /\ n = Len(st.data)
  BY <1>1, HeldFacts
<1> HIDE DEF n
<1>3. /\ m \in Nat \ {0} /\ S \in Seq(Chunks) /\ Len(S) = m
      /\ \A c \in 0 .. m - 1 :
           S[c + 1] = [stream |-> i, off |-> Filled(c, n), len |-> l(c)]
  <2> DEFINE k == m
  <2>1. k = 1 + (st.len - 1) \div Chunk
    BY DEF n
  <2> HIDE DEF k, st
  <2>2. /\ k \in Nat \ {0} /\ S \in Seq(Chunks) /\ Len(S) = k
        /\ \A c \in 0 .. k - 1 :
             S[c + 1] = [stream |-> i, off |-> Filled(c, n), len |-> l(c)]
    BY <1>1, <2>1, SectionsAre DEF n
  <2>3. QED
    BY <2>2 DEF k
<1>4. /\ Filled(0, n) = 0 /\ Filled(m, n) = n
      /\ \A c \in 0 .. m - 1 :
           /\ Filled(c, n) = Chunk * c /\ Chunk * c \in Nat /\ l(c) \in 1 .. Chunk
           /\ Chunk * c + l(c) <= n /\ Filled(c + 1, n) = Chunk * c + l(c)
  <2> DEFINE k == m
  <2>1. k = 1 + (n - 1) \div Chunk
    OBVIOUS
  <2> HIDE DEF k
  <2>2. Filled(0, n) = 0 /\ Filled(k, n) = n
    BY <1>2, <2>1, FilledFacts
  <2>3. ASSUME NEW c \in 0 .. k - 1
        PROVE  /\ Filled(c, n) = Chunk * c /\ Chunk * c \in Nat /\ l(c) \in 1 .. Chunk
               /\ Chunk * c + l(c) <= n /\ Filled(c + 1, n) = Chunk * c + l(c)
    <3>1. FillsUp(c, n)
      BY <1>2, <2>1, FilledFacts
    <3>2. QED
      BY <3>1 DEF FillsUp, l
  <2>4. QED
    BY <2>2, <2>3 DEF k
<1> HIDE DEF m, S, l
<1>5. q \in Seq(Chunks)
  BY DEF Laid
<1>6. /\ V(0) = q /\ V(m) = q \o S
      /\ \A c \in 0 .. m - 1 : V(c + 1) = Append(V(c), S[c + 1])
  <2>1. BehindEnds(q, S) /\ \A c \in 0 .. Len(S) - 1 : BehindIs(q, S, c)
    BY <1>3, <1>5, BehindFacts
  <2>2. QED
    BY <1>3, <2>1 DEF BehindEnds, BehindIs
<1> HIDE DEF V
<1>7. 0 \in B
  <2>1. LenOf(X[i]) = 0
    BY EmptyPacked
  <2>2. P(0, X)
    BY <1>4, <1>6, <2>1
  <2>3. QED
    BY <2>2
<1>8. ASSUME NEW c \in Nat, c \in B PROVE c + 1 \in B
  <2> SUFFICES ASSUME c + 1 <= m PROVE \E Z : P(c + 1, Z)
    OBVIOUS
  <2>1. c \in 0 .. m - 1 /\ c <= m
    BY <1>3
  <2>2. PICK Y : P(c, Y)
    BY <1>8, <2>1
  <2> DEFINE f == Chunk * c
             k == l(c)
             v == S[c + 1]
  <2>3. /\ Filled(c, n) = f /\ f \in Nat /\ k \in 1 .. Chunk
        /\ f + k <= n /\ Filled(c + 1, n) = f + k
    BY <1>4, <2>1
  <2>4. v = [stream |-> i, off |-> f, len |-> k] /\ V(c + 1) = Append(V(c), v)
    BY <1>3, <1>6, <2>1, <2>3
  <2>5. LenOf(Y[i]) = f
    BY <2>2, <2>3
  <2>6. Packed(Y[i])
    BY <1>1, <2>2, MapFacts DEF Laid, Tiles
  <2>7. LastFull(Y[i])
    <3>1. 0 \in 0 .. Chunk - 1 /\ f + 0 = f
      BY <2>3, ChunkAssumption
    <3>2. (Chunk * c + 0) % Chunk = 0
      BY <3>1, Divided
    <3>3. f % Chunk = 0
      BY <3>1, <3>2
    <3> HIDE DEF f
    <3>4. QED
      BY <2>5, <2>6, <3>3, LenOfFacts
  <2> HIDE DEF f, k, v
  <2>8. LenOf(Y[i]) + k <= Len(s[i].data) /\ v = [stream |-> i, off |-> LenOf(Y[i]), len |-> k]
    BY <1>2, <2>3, <2>4, <2>5
  <2>9. PICK Z : /\ Laid(s, Append(V(c), v), Z, h) /\ LenOf(Z[i]) = LenOf(Y[i]) + k
                 /\ \A j \in Pos : j # i => Z[j] = Y[j]
    BY <2>2, <2>3, <2>7, <2>8, LaidGrows
  <2>10. P(c + 1, Z)
    BY <2>2, <2>3, <2>4, <2>5, <2>9
  <2>11. QED
    BY <2>10
<1> HIDE DEF B
<1>9. \A c \in Nat : c \in B
  BY <1>7, <1>8, Inducts
<1>10. PICK Z : P(m, Z)
  BY <1>3, <1>9 DEF B
<1>11. Laid(s, q \o S, Z, h) /\ Completes(s, i, X, Z)
  BY <1>4, <1>6, <1>10 DEF Completes, n
<1>12. QED
  BY <1>11 DEF S

Shelves(s) == [i \in DOMAIN s |-> Sections(s[i], i)]

(* The chunks of all streams lie behind the header.                        *)
LEMMA AllLaid ==
  ASSUME NEW s \in Seq(Held), NEW h \in Seq(Nat)
  PROVE  \E X : /\ Laid(s, FlattenSeq(Shelves(s)), X, h)
                /\ \A i \in 1 .. Len(s) : LenOf(X[i]) = s[i].len
                /\ \A i \in Pos : i > Len(s) => X[i] = <<>>
<1> DEFINE n == Len(s)
           Q == Shelves(s)
           T == Seq(Chunks)
           P(k, X) == /\ \A i \in 1 .. k : LenOf(X[i]) = s[i].len
                      /\ \A i \in Pos : i > k => X[i] = <<>>
<1>1. n \in Nat /\ DOMAIN s = 1 .. n /\ \A i \in 1 .. n : s[i] \in Held /\ i \in Pos
  BY LenProperties, ElementOfSeq DEF Pos
<1>2. Q = [i \in 1 .. n |-> Sections(s[i], i)]
  BY <1>1 DEF Shelves
<1>3. \A i \in 1 .. n : Sections(s[i], i) \in T
  <2> SUFFICES ASSUME NEW i \in 1 .. n PROVE Sections(s[i], i) \in T
    OBVIOUS
  <2> DEFINE m == 1 + (s[i].len - 1) \div Chunk
             st == s[i]
  <2>1. m = 1 + (st.len - 1) \div Chunk /\ st \in Held /\ i \in Pos
    BY <1>1
  <2> HIDE DEF m, st
  <2>2. Sections(st, i) \in Seq(Chunks)
    BY <2>1, SectionsAre
  <2>3. QED
    BY <2>2 DEF st
<1>4. Q \in Seq(T) /\ Len(Q) = n /\ \A i \in 1 .. n : Q[i] = Sections(s[i], i)
  <2> HIDE DEF T, Q
  <2>1. Q \in [1 .. n -> T]
    BY <1>2, <1>3
  <2>2. QED
    BY <1>1, <1>2, <2>1
<1> HIDE DEF Q
<1>5. PICK p : Flat(p, Q, Chunks)
  BY <1>4, FlatExists
<1>6. FlattenSeq(Q) = p[n]
  <2>1. FlattenSeq(Q) = p[Len(Q)]
    BY <1>4, <1>5, FlattenIs
  <2>2. QED
    BY <1>4, <2>1
<1>7. p[0] = <<>> /\ \A k \in Nat : k < n => p[k + 1] = p[k] \o Q[k + 1]
  BY <1>4, <1>5 DEF Flat
<1> DEFINE B == {k \in Nat : k <= n => \E X : Laid(s, p[k], X, h) /\ P(k, X)}
<1>8. 0 \in B
  <2> DEFINE X == [i \in Pos |-> <<>>]
  <2>1. Laid(s, <<>>, X, h)
    BY LaidNone
  <2>2. P(0, X)
    OBVIOUS
  <2> HIDE DEF X
  <2>3. QED
    BY <1>7, <2>1, <2>2
<1>9. ASSUME NEW k \in Nat, k \in B PROVE k + 1 \in B
  <2> DEFINE i == k + 1
  <2> SUFFICES ASSUME i <= n PROVE \E Z : Laid(s, p[i], Z, h) /\ P(i, Z)
    OBVIOUS
  <2>1. k <= n /\ k < n /\ i \in 1 .. n /\ i \in Pos /\ i > k
    BY <1>1
  <2>2. PICK X : Laid(s, p[k], X, h) /\ P(k, X)
    BY <1>9, <2>1
  <2>3. X[i] = <<>> /\ p[i] = p[k] \o Sections(s[i], i)
    BY <1>4, <1>7, <2>1, <2>2
  <2>31. i = k + 1
    OBVIOUS
  <2> HIDE DEF i
  <2>4. PICK Z : Laid(s, p[k] \o Sections(s[i], i), Z, h) /\ Completes(s, i, X, Z)
    BY <2>1, <2>2, <2>3, SectionsLaid
  <2>5. \A j \in 1 .. i : LenOf(Z[j]) = s[j].len
    <3> SUFFICES ASSUME NEW j \in 1 .. i PROVE LenOf(Z[j]) = s[j].len
      OBVIOUS
    <3>1. CASE j = i
      BY <2>4, <3>1 DEF Completes
    <3>2. CASE j # i
      <4>1. j \in 1 .. k /\ j \in Pos
        BY <2>31, <3>2 DEF Pos
      <4>2. QED
        BY <2>2, <2>4, <3>2, <4>1 DEF Completes
    <3>3. QED
      BY <3>1, <3>2
  <2>6. \A j \in Pos : j > i => Z[j] = <<>>
    <3> SUFFICES ASSUME NEW j \in Pos, j > i PROVE Z[j] = <<>>
      OBVIOUS
    <3>1. j # i /\ j > k
      BY <2>31 DEF Pos
    <3>2. QED
      BY <2>2, <2>4, <3>1 DEF Completes
  <2>7. QED
    BY <2>3, <2>4, <2>5, <2>6
<1> HIDE DEF B
<1>10. \A k \in Nat : k \in B
  BY <1>8, <1>9, Inducts
<1>11. PICK X : Laid(s, p[n], X, h) /\ P(n, X)
  BY <1>1, <1>10 DEF B
<1>12. QED
  BY <1>6, <1>11 DEF Q

-----------------------------------------------------------------------------
(* Files that are archives: P has the offsets of the chunks of o.          *)

WellBegun(o) == Len(o) >= 3 /\ o[1] = Magic /\ o[2] <= TuneMax

Cut(o, P) ==
  LET first == 2 + o[2]
      last == Len(o) - 1
  IN  /\ P \subseteq first .. last - 1 /\ o[last + 1] = 0 /\ (first = last \/ first \in P)
      /\ \A p \in P :
           /\ p + 2 < last /\ o[p + 1] > 0 /\ o[p + 2] \in 1 .. Chunk
           /\ p + 2 + o[p + 2] \in P \cup {last}
           /\ P \cap p + 1 .. p + 1 + o[p + 2] = {}
           /\ o[p + 2] < Chunk => \A q \in P : q > p => o[q + 1] # o[p + 1]
           /\ \A i \in 1 .. o[p + 1] : \E q \in P : o[q + 1] = i

(* Archive, of the image as it is.                                         *)
LEMMA ArchiveIs ==
  ASSUME output \in Seq(Nat)
  PROVE  Archive <=> WellBegun(output) /\ \E P : Cut(output, P)
<1> DEFINE first == 2 + Cell(1)
           last == Len(output) - 1
           C(P) == /\ P \subseteq first .. last - 1
                   /\ Cell(last) = 0 /\ (first = last \/ first \in P)
                   /\ \A p \in P :
                        /\ p + 2 < last /\ Cell(p) > 0 /\ Cell(p + 1) \in 1 .. Chunk
                        /\ p + 2 + Cell(p + 1) \in P \cup {last}
                        /\ P \cap p + 1 .. p + 1 + Cell(p + 1) = {}
                        /\ Cell(p + 1) < Chunk => \A q \in P : q > p => Cell(q) # Cell(p)
                        /\ \A i \in 1 .. Cell(p) : \E q \in P : Cell(q) = i
<1>1. Archive <=> /\ Len(output) >= 3 /\ Cell(0) = Magic /\ Cell(1) <= TuneMax
                  /\ \E P : C(P)
  BY DEF Archive
<1>2. Cell(0) = output[1] /\ Cell(1) = output[2] /\ Len(output) \in Nat
  BY LenProperties DEF Cell
<1>3. ASSUME NEW P PROVE C(P) <=> Cut(output, P)
  <2>1. CASE P \subseteq first .. last - 1
    <3>1. \A p \in P : p \in Int
      BY <2>1
    <3>2. \A p \in P : Cell(p) = output[p + 1] /\ Cell(p + 1) = output[p + 2]
      <4>1. \A p \in P : (p + 1) + 1 = p + 2
        BY <3>1
      <4>2. QED
        BY <4>1 DEF Cell
    <3>3. Cell(last) = output[last + 1] /\ first = 2 + output[2]
      BY <1>2 DEF Cell
    <3> HIDE DEF first, last
    <3> DEFINE I(p) == /\ p + 2 < last /\ Cell(p) > 0 /\ Cell(p + 1) \in 1 .. Chunk
                       /\ p + 2 + Cell(p + 1) \in P \cup {last}
                       /\ P \cap p + 1 .. p + 1 + Cell(p + 1) = {}
                       /\ Cell(p + 1) < Chunk => \A q \in P : q > p => Cell(q) # Cell(p)
                       /\ \A i \in 1 .. Cell(p) : \E q \in P : Cell(q) = i
               J(p) == /\ p + 2 < last /\ output[p + 1] > 0 /\ output[p + 2] \in 1 .. Chunk
                       /\ p + 2 + output[p + 2] \in P \cup {last}
                       /\ P \cap p + 1 .. p + 1 + output[p + 2] = {}
                       /\ output[p + 2] < Chunk =>
                            \A q \in P : q > p => output[q + 1] # output[p + 1]
                       /\ \A i \in 1 .. output[p + 1] : \E q \in P : output[q + 1] = i
    <3>31. ASSUME NEW p \in P PROVE I(p) <=> J(p)
      <4>1. Cell(p) = output[p + 1] /\ Cell(p + 1) = output[p + 2]
        BY <3>2
      <4>2. \A q \in P : Cell(q) = output[q + 1]
        BY <3>2
      <4>3. (Cell(p + 1) < Chunk => \A q \in P : q > p => Cell(q) # Cell(p))
            <=> (output[p + 2] < Chunk => \A q \in P : q > p => output[q + 1] # output[p + 1])
        BY <4>1, <4>2
      <4>4. (\A i \in 1 .. Cell(p) : \E q \in P : Cell(q) = i)
            <=> \A i \in 1 .. output[p + 1] : \E q \in P : output[q + 1] = i
        <5>1. \A i : (\E q \in P : Cell(q) = i) <=> \E q \in P : output[q + 1] = i
          BY <4>2
        <5>2. QED
          BY <4>1, <5>1
      <4>5. QED
        BY <4>1, <4>3, <4>4
    <3>32. C(P) <=> /\ P \subseteq first .. last - 1
                   /\ Cell(last) = 0 /\ (first = last \/ first \in P)
                   /\ \A p \in P : I(p)
      OBVIOUS
    <3>33. Cut(output, P) <=> /\ P \subseteq first .. last - 1
                             /\ output[last + 1] = 0 /\ (first = last \/ first \in P)
                             /\ \A p \in P : J(p)
      BY <3>3 DEF Cut, last
    <3> HIDE DEF I, J, C
    <3>5. QED
      BY <3>3, <3>31, <3>32, <3>33
  <2>2. CASE ~(P \subseteq first .. last - 1)
    <3>1. first = 2 + output[2]
      BY <1>2
    <3> HIDE DEF first
    <3>2. ~Cut(output, P)
      BY <2>2, <3>1 DEF Cut
    <3>3. ~C(P)
      BY <2>2
    <3>4. QED
      BY <3>2, <3>3
  <2>3. QED
    BY <2>1, <2>2
<1> HIDE DEF C
<1>4. QED
  BY <1>1, <1>2, <1>3 DEF WellBegun

(* What the cells of a chunk say.                                          *)
CutAt(o, P, p) ==
  /\ p \in Nat /\ 2 + o[2] <= p /\ p + 2 < Len(o) - 1
  /\ o[p + 1] \in Pos /\ o[p + 2] \in 1 .. Chunk
  /\ p + 2 + o[p + 2] \in P \cup {Len(o) - 1} /\ p + 2 + o[p + 2] <= Len(o) - 1
  /\ \A q \in P : q > p => q >= p + 2 + o[p + 2]
  /\ o[p + 2] < Chunk => \A q \in P : q > p => o[q + 1] # o[p + 1]
  /\ \A i \in 1 .. o[p + 1] : \E q \in P : o[q + 1] = i

(* What an archive's cells say at the start of a chunk.                    *)
LEMMA CutFacts ==
  ASSUME NEW o \in Seq(Nat), WellBegun(o), NEW P, Cut(o, P), NEW p \in P
  PROVE  CutAt(o, P, p)
<1> DEFINE n == Len(o)
           first == 2 + o[2]
           last == n - 1
           l == o[p + 2]
<1>1. n \in Nat /\ n >= 3 /\ \A k \in 1 .. n : o[k] \in Nat
  BY LenProperties, ElementOfSeq DEF WellBegun
<1>2. first \in Nat /\ last \in Nat /\ 2 + o[2] = first /\ Len(o) - 1 = last
  BY <1>1
<1> HIDE DEF first, last
<1>3. /\ P \subseteq first .. last - 1
      /\ p + 2 < last /\ o[p + 1] > 0 /\ o[p + 2] \in 1 .. Chunk
      /\ p + 2 + o[p + 2] \in P \cup {last}
      /\ P \cap p + 1 .. p + 1 + o[p + 2] = {}
      /\ o[p + 2] < Chunk => \A q \in P : q > p => o[q + 1] # o[p + 1]
      /\ \A i \in 1 .. o[p + 1] : \E q \in P : o[q + 1] = i
  BY <1>2 DEF Cut
<1>4. p \in Nat /\ first <= p /\ \A q \in P : q \in Nat /\ q <= last
  BY <1>2, <1>3
<1>5. p + 1 \in 1 .. n
  BY <1>1, <1>2, <1>3, <1>4
<1>6. o[p + 1] \in Pos /\ l \in Nat /\ l \in 1 .. Chunk
  BY <1>1, <1>3, <1>5, ChunkAssumption DEF Pos
<1>7. \A q \in P : q > p => q >= p + 2 + l
  <2> SUFFICES ASSUME NEW q \in P, q > p PROVE q >= p + 2 + l
    OBVIOUS
  <2>1. ~(q \in p + 1 .. p + 1 + l)
    BY <1>3
  <2> HIDE DEF l
  <2>2. QED
    BY <1>4, <1>6, <2>1
<1>8. p + 2 + l <= last
  <2>1. p + 2 + l \in P \/ p + 2 + l = last
    BY <1>3
  <2>2. \A q \in P : q <= last
    BY <1>4
  <2>3. last <= last
    BY <1>2
  <2> HIDE DEF l
  <2>4. QED
    BY <2>1, <2>2, <2>3
<1>9. QED
  BY <1>2, <1>3, <1>4, <1>6, <1>7, <1>8 DEF CutAt

(* The streams of the chunks take three cells of the file each, or more.   *)
LEMMA CutCounts ==
  ASSUME NEW o \in Seq(Nat), WellBegun(o), NEW P, Cut(o, P), NEW p \in P
  PROVE  o[p + 1] <= Len(o) \div 3
<1> DEFINE id == o[p + 1]
           n == Len(o)
           F == [i \in 1 .. id |-> CHOOSE q \in P : o[q + 1] = i]
           D == 1 .. 3 * id
           at(z) == (z - 1) \div 3 + 1
           M == [z \in D |-> F[at(z)] + ((z - 1) % 3) + 1]
<1>1. n \in Nat /\ n >= 3
  BY LenProperties DEF WellBegun
<1>2. \A q \in P : CutAt(o, P, q)
  BY CutFacts
<1>3. id \in Nat /\ \A i \in 1 .. id : \E q \in P : o[q + 1] = i
  BY <1>2 DEF CutAt, Pos
<1>4. \A i \in 1 .. id : F[i] \in P /\ o[F[i] + 1] = i
  BY <1>3
<1> HIDE DEF F, id
<1>5. \A i \in 1 .. id : F[i] \in Nat /\ F[i] + 3 <= n - 1 /\ \A q \in P : q > F[i] => q >= F[i] + 3
  <2> SUFFICES ASSUME NEW i \in 1 .. id
               PROVE  /\ F[i] \in Nat /\ F[i] + 3 <= n - 1
                      /\ \A q \in P : q > F[i] => q >= F[i] + 3
    OBVIOUS
  <2> DEFINE f == F[i]
             l == o[f + 2]
  <2>1. /\ f \in Nat /\ f + 2 < n - 1 /\ l \in 1 .. Chunk
        /\ \A q \in P : q > f => q >= f + 2 + l
    BY <1>2, <1>4 DEF CutAt
  <2>2. \A q \in P : q \in Nat
    BY <1>2 DEF CutAt
  <2> HIDE DEF f, l
  <2>3. f \in Nat /\ f + 3 <= n - 1 /\ \A q \in P : q > f => q >= f + 3
    BY <1>1, <2>1, <2>2, ChunkAssumption
  <2>4. QED
    BY <2>3 DEF f
<1>6. \A z \in D : /\ at(z) \in 1 .. id /\ (z - 1) % 3 \in 0 .. 2
                  /\ z = 3 * (at(z) - 1) + ((z - 1) % 3) + 1
  BY <1>3
<1> HIDE DEF at
<1>7. M \in [D -> 1 .. n]
  <2> SUFFICES ASSUME NEW z \in D PROVE F[at(z)] + ((z - 1) % 3) + 1 \in 1 .. n
    OBVIOUS
  <2> DEFINE f == F[at(z)]
             r == (z - 1) % 3
  <2>1. f \in Nat /\ f + 3 <= n - 1 /\ r \in 0 .. 2
    BY <1>5, <1>6
  <2> HIDE DEF f, r
  <2>2. f + r + 1 \in 1 .. n
    BY <1>1, <2>1
  <2>3. QED
    BY <2>2 DEF f, r
<1>8. ASSUME NEW z \in D, NEW y \in D, M[z] = M[y] PROVE z = y
  <2> DEFINE f == F[at(z)]
             r == (z - 1) % 3
             g == F[at(y)]
             s == (y - 1) % 3
  <2>1. f + r + 1 = g + s + 1
    BY <1>8
  <2>2. /\ f \in Nat /\ g \in Nat /\ r \in 0 .. 2 /\ s \in 0 .. 2 /\ f \in P /\ g \in P
        /\ (g > f => g >= f + 3) /\ (f > g => f >= g + 3)
        /\ o[f + 1] = at(z) /\ o[g + 1] = at(y)
    BY <1>4, <1>5, <1>6
  <2>3. z = 3 * (at(z) - 1) + r + 1 /\ y = 3 * (at(y) - 1) + s + 1
    BY <1>6
  <2> HIDE DEF f, g, r, s
  <2>4. f = g /\ r = s
    BY <2>1, <2>2
  <2>5. at(z) = at(y)
    BY <2>2, <2>4
  <2>6. QED
    BY <2>3, <2>4, <2>5
<1>9. M \in Injection(D, 1 .. n)
  <2>1. DOMAIN M = D
    OBVIOUS
  <2> HIDE DEF M
  <2>2. QED
    BY <1>7, <1>8, <2>1 DEF Injection, IsInjective
<1> HIDE DEF M, D
<1>10. Cardinality(D) <= Cardinality(1 .. n)
  <2>1. IsFiniteSet(1 .. n)
    BY <1>1, FS_Interval
  <2>2. QED
    BY <1>9, <2>1, FS_Injection
<1>11. Cardinality(1 .. n) = n
  <2>1. 1 \in Int /\ n \in Int /\ ~(1 > n) /\ n - 1 + 1 = n
    BY <1>1
  <2> HIDE DEF n
  <2>2. QED
    BY <2>1, FS_Interval
<1>12. Cardinality(D) = 3 * id
  <2> DEFINE k == 3 * id
  <2>1. k \in Nat
    BY <1>3
  <2> HIDE DEF k
  <2>2. Cardinality(1 .. k) = k
    BY <2>1, FS_Interval
  <2>3. QED
    BY <2>2 DEF D, k
<1>13. 3 * id <= n
  BY <1>10, <1>11, <1>12
<1>14. id <= n \div 3
  BY <1>1, <1>3, <1>13
<1>15. QED
  BY <1>14 DEF id

-----------------------------------------------------------------------------
(* The reader's way along the chunks of an archive: it stands at one of    *)
(* them or at the end, and has seen those that it has passed.              *)

Follows(P, X, n, last) ==
  /\ n \in P \cup {last}
  /\ \A j \in Pos : \A k \in 1 .. Len(X[j]) : X[j][k].off - 2 \in P
  /\ \A q \in P : q < n => \E j \in Pos : \E k \in 1 .. Len(X[j]) : X[j][k].off - 2 = q

(* The reader starts at the first chunk, or at the end.                    *)
LEMMA FollowsFirst ==
  ASSUME NEW o \in Seq(Nat), WellBegun(o), NEW P, Cut(o, P),
         NEW X, X = [i \in Pos |-> <<>>]
  PROVE  Follows(P, X, 2 + o[2], Len(o) - 1)
<1>1. \A j \in Pos : Len(X[j]) = 0
  BY EmptySeq
<1>2. \A q \in P : q \in Nat /\ 2 + o[2] <= q
  BY CutFacts DEF CutAt
<1>3. 2 + o[2] \in P \cup {Len(o) - 1}
  BY DEF Cut
<1>4. 2 + o[2] \in Nat
  <2>1. Len(o) \in Nat /\ Len(o) >= 3
    BY LenProperties DEF WellBegun
  <2>2. o[2] \in Nat
    BY <2>1, ElementOfSeq
  <2>3. QED
    BY <2>2
<1>5. \A q \in P : ~(q < 2 + o[2])
  BY <1>2, <1>4
<1>6. 1 .. 0 = {}
  OBVIOUS
<1>7. QED
  BY <1>1, <1>3, <1>5, <1>6 DEF Follows

(* At a chunk the reader goes on, and it comes to the next or to the end.  *)
GoesOn(o, P, X, n) ==
  LET id == o[n + 1]
      l == o[n + 2]
  IN  /\ id \in Pos /\ id <= Len(o) \div 3 /\ l \in 1 .. Chunk /\ n + 2 + l <= Len(o) - 1
      /\ LastFull(X[id])
      /\ Follows(P, Added(X, id, Extent(n + 2, l)), n + 2 + l, Len(o) - 1)

(* The chunk that is next is legal, and the reader comes to the next.      *)
LEMMA CutGoes ==
  ASSUME NEW o \in Seq(Nat), WellBegun(o), NEW P, Cut(o, P),
         NEW X, NEW a \in Nat, NEW n \in Nat, Tiles(X, o, a, n),
         Follows(P, X, n, Len(o) - 1), n \in P
  PROVE  GoesOn(o, P, X, n)
<1> DEFINE id == o[n + 1]
           l == o[n + 2]
           last == Len(o) - 1
           y == Extent(n + 2, l)
           Z == Added(X, id, y)
           x == X[id]
<1>1. /\ id \in Pos /\ l \in 1 .. Chunk
      /\ n + 2 + l \in P \cup {last} /\ n + 2 + l <= last
      /\ \A q \in P : q > n => q >= n + 2 + l
  BY CutFacts DEF CutAt
<1>2. id <= Len(o) \div 3
  BY CutCounts
<1>3. X \in Maps /\ FieldsTell(X, o, a, n)
  BY DEF Tiles
<1>4. Packed(x) /\ Len(x) \in Nat
  BY <1>1, <1>3, MapFacts
<1>5. LastFull(x)
  <2> SUFFICES ASSUME x # <<>>, x[Len(x)].len # Chunk PROVE FALSE
    BY DEF LastFull
  <2> DEFINE m == Len(x)
             f == x[m].off
             g == x[m].len
             p == f - 2
  <2>1. m \in 1 .. Len(x)
    BY <1>4, ExtentFacts DEF Packed
  <2> HIDE DEF m, id
  <2>2. /\ f \in Nat /\ g \in 1 .. Chunk /\ g \in Nat
        /\ a + 2 <= f /\ f + g <= n /\ o[f - 1] = id /\ o[f] = g
    BY <1>1, <1>3, <2>1, MapFacts DEF FieldsTell
  <2>3. p \in P
    BY <1>1, <2>1 DEF Follows
  <2>32. g # Chunk
    BY DEF m
  <2> HIDE DEF f, g, x
  <2>4. p \in Nat /\ p < n /\ p + 1 = f - 1 /\ p + 2 = f /\ g < Chunk
    BY <2>2, <2>32, ChunkAssumption
  <2>5. o[p + 1] = id /\ o[p + 2] = g
    BY <2>2, <2>4
  <2>6. o[p + 2] < Chunk => \A q \in P : q > p => o[q + 1] # o[p + 1]
    <3> HIDE DEF p
    <3>1. CutAt(o, P, p)
      BY <2>3, CutFacts
    <3>2. QED
      BY <3>1 DEF CutAt
  <2> HIDE DEF p
  <2>7. n > p
    BY <2>4
  <2>8. o[n + 1] # id
    BY <2>4, <2>5, <2>6, <2>7
  <2>9. QED
    BY <2>8 DEF id
<1>6. l \in Nat /\ l >= 1 /\ y \in Extents /\ y.off = n + 2
  <2> HIDE DEF l
  <2>1. l \in Nat /\ l >= 1
    BY <1>1, ChunkAssumption
  <2>2. QED
    BY <1>1, <2>1 DEF Extent, Extents
<1> HIDE DEF y, l, last
<1>7. /\ Z[id] = Append(x, y) /\ Len(Z[id]) = Len(x) + 1 /\ Z[id][Len(x) + 1] = y
      /\ \A j \in Pos : \A k \in 1 .. Len(X[j]) :
           k \in 1 .. Len(Z[j]) /\ Z[j][k] = X[j][k]
      /\ \A j \in Pos : \A k \in 1 .. Len(Z[j]) :
           \/ j = id /\ k = Len(x) + 1
           \/ k \in 1 .. Len(X[j])
  <2> HIDE DEF id
  <2>1. QED
    BY <1>1, <1>3, <1>5, <1>6, AddedFacts
<1> HIDE DEF Z, x
<1>31. y.off - 2 = n
  BY <1>6
<1>8. ASSUME NEW j \in Pos, NEW k \in 1 .. Len(Z[j]) PROVE Z[j][k].off - 2 \in P
  <2>1. CASE j = id /\ k = Len(x) + 1
    <3>1. Z[j][k] = y
      BY <1>7, <2>1
    <3>2. QED
      BY <1>31, <3>1
  <2>2. CASE k \in 1 .. Len(X[j])
    <3>1. Z[j][k] = X[j][k]
      BY <1>7, <2>2
    <3>2. QED
      BY <2>2, <3>1 DEF Follows
  <2>3. QED
    BY <1>7, <2>1, <2>2
<1>9. ASSUME NEW q \in P, q < n + 2 + l
      PROVE  \E j \in Pos : \E k \in 1 .. Len(Z[j]) : Z[j][k].off - 2 = q
  <2>1. q \in Nat
    BY CutFacts DEF CutAt
  <2>2. ~(q > n)
    BY <1>1, <1>6, <1>9, <2>1
  <2>3. CASE q < n
    <3>1. PICK j \in Pos : \E k \in 1 .. Len(X[j]) : X[j][k].off - 2 = q
      BY <2>3 DEF Follows
    <3>2. PICK k \in 1 .. Len(X[j]) : X[j][k].off - 2 = q
      BY <3>1
    <3>3. k \in 1 .. Len(Z[j]) /\ Z[j][k] = X[j][k]
      BY <1>7
    <3>4. QED
      BY <3>2, <3>3
  <2>4. CASE q = n
    <3>1. Len(x) + 1 \in 1 .. Len(Z[id])
      BY <1>4, <1>7
    <3>2. Z[id][Len(x) + 1].off - 2 = q
      BY <1>7, <1>31, <2>4
    <3>3. QED
      BY <1>1, <3>1, <3>2
  <2>5. QED
    BY <2>1, <2>2, <2>3, <2>4
<1>10. Follows(P, Z, n + 2 + l, last)
  BY <1>1, <1>8, <1>9 DEF Follows
<1>11. QED
  BY <1>1, <1>2, <1>5, <1>10 DEF GoesOn, Z, y, l, last, x

(* At the end the reader has the streams below each stream it has.         *)
EndsWell(o, X) ==
  /\ o[Len(o)] = 0
  /\ \A j \in Pos : X[j] # <<>> => \A i \in 1 .. j : X[i] # <<>>

(* At the end no stream is missing.                                        *)
LEMMA CutEnds ==
  ASSUME NEW o \in Seq(Nat), WellBegun(o), NEW P, Cut(o, P),
         NEW X, NEW a \in Nat, NEW n \in Nat, Tiles(X, o, a, n), n = Len(o) - 1,
         Follows(P, X, n, Len(o) - 1)
  PROVE  EndsWell(o, X)
<1>1. Len(o) \in Nat /\ X \in Maps /\ FieldsTell(X, o, a, n)
  BY LenProperties DEF Tiles
<1>2. o[Len(o)] = 0
  <2>1. o[(Len(o) - 1) + 1] = 0
    BY DEF Cut
  <2>2. (Len(o) - 1) + 1 = Len(o)
    BY <1>1
  <2>3. QED
    BY <2>1, <2>2
<1>3. ASSUME NEW j \in Pos, X[j] # <<>>, NEW i \in 1 .. j PROVE X[i] # <<>>
  <2>1. i \in Pos /\ Packed(X[i]) /\ X[j] \in Seq(Extents)
    BY <1>1, MapFacts DEF Pos
  <2>2. 1 \in 1 .. Len(X[j])
    BY <1>3, <2>1, ExtentFacts
  <2> DEFINE f == X[j][1].off
             p == f - 2
  <2>3. f \in Nat /\ o[f - 1] = j /\ p \in P
    BY <1>1, <2>2, MapFacts DEF FieldsTell, Follows
  <2>4. p + 1 = f - 1
    <3> HIDE DEF f
    <3>1. QED
      BY <2>3
  <2>5. o[p + 1] = j
    BY <2>3, <2>4
  <2> HIDE DEF p
  <2>6. PICK q \in P : o[q + 1] = i
    <3>1. CutAt(o, P, p)
      BY <2>3, CutFacts
    <3>2. QED
      BY <2>5, <3>1 DEF CutAt
  <2>7. q \in Nat /\ q < n
    <3>1. q \in Nat /\ q + 2 < Len(o) - 1
      BY CutFacts DEF CutAt
    <3>2. QED
      BY <1>1, <3>1
  <2>8. PICK h \in Pos : \E k \in 1 .. Len(X[h]) : X[h][k].off - 2 = q
    BY <2>7 DEF Follows
  <2>9. PICK k \in 1 .. Len(X[h]) : X[h][k].off - 2 = q
    BY <2>8
  <2> DEFINE g == X[h][k].off
  <2>10. g \in Nat /\ o[g - 1] = h
    BY <1>1, MapFacts DEF FieldsTell
  <2>11. g - 1 = q + 1
    <3>1. g - 2 = q
      BY <2>9
    <3> HIDE DEF g
    <3>2. QED
      BY <2>7, <2>10, <3>1
  <2>12. h = i
    BY <2>6, <2>10, <2>11
  <2>13. Len(X[i]) # 0
    BY <2>12
  <2>14. QED
    BY <2>1, <2>13, ExtentFacts DEF Packed
<1>4. QED
  BY <1>2, <1>3 DEF EndsWell

-----------------------------------------------------------------------------
(* An image whose chunks are those of X, of the first m streams, can be    *)
(* cut at the starts of its chunks.                                        *)

Starts(X) == {p \in Nat : \E i \in Pos : \E k \in 1 .. Len(X[i]) : X[i][k].off - 2 = p}

Seals(X, m, o) ==
  /\ WellBegun(o) /\ 2 + o[2] <= Len(o) - 1 /\ o[Len(o)] = 0
  /\ Tiles(X, o, 2 + o[2], Len(o) - 1)
  /\ \A i \in Pos : X[i] # <<>> <=> i <= m

(* One extent: where it starts, and what is behind it.                     *)
StartsAt(o, X, a, n, i, k, p) ==
  /\ p \in Starts(X) /\ p \in Nat /\ a <= p /\ p + 2 < n
  /\ o[p + 1] = i /\ o[p + 2] = X[i][k].len
  /\ p + 2 + X[i][k].len <= n
  /\ X[i][k].len \in 1 .. Chunk /\ X[i][k].len \in Nat /\ X[i][k].len >= 1
  /\ Takes(X[i][k]) = p .. p + 1 + X[i][k].len

(* The start of an extent, and what is behind it.                          *)
LEMMA StartFacts ==
  ASSUME NEW o \in Seq(Nat), NEW X, NEW a \in Nat, NEW n \in Nat, Tiles(X, o, a, n),
         NEW i \in Pos, NEW k \in 1 .. Len(X[i]), NEW p, p = X[i][k].off - 2
  PROVE  StartsAt(o, X, a, n, i, k, p)
<1> DEFINE f == X[i][k].off
           g == X[i][k].len
<1>1. /\ f \in Nat /\ g \in 1 .. Chunk /\ g \in Nat /\ Takes(X[i][k]) = f - 2 .. f + g - 1
      /\ a + 2 <= f /\ f + g <= n /\ o[f - 1] = i /\ o[f] = g
  BY MapFacts DEF Tiles, FieldsTell
<1>2. p = f - 2
  OBVIOUS
<1>31. p \in Nat => p \in Starts(X)
  BY DEF Starts
<1> HIDE DEF f, g
<1>3. /\ g >= 1 /\ p \in Nat /\ a <= p /\ p + 2 < n /\ p + 2 + g <= n
      /\ p + 1 = f - 1 /\ p + 2 = f /\ f + g - 1 = p + 1 + g
  <2>1. g >= 1 /\ g \in Nat /\ f \in Nat
    BY <1>1, ChunkAssumption
  <2>2. a + 2 <= f /\ f + g <= n
    BY <1>1
  <2>3. g >= 1 /\ g \in Nat /\ f \in Nat /\ a \in Nat /\ n \in Nat
    BY <2>1
  <2>4. a + 2 <= f
    BY <2>2
  <2>5. f + g <= n
    BY <2>2
  <2>6. p = f - 2
    BY <1>2
  <2>7. p \in Nat
    BY <2>3, <2>6, <2>4
  <2>8. p + 2 < n
    BY <2>3, <2>6, <2>4, <2>5
  <2>9. p + 2 = f
    BY <2>3, <2>6
  <2>10. f + g - 1 = p + 1 + g
    BY <2>3, <2>6
  <2>11. a <= p
    BY <2>3, <2>6, <2>4
  <2>12. p + 2 + g <= n
    BY <2>3, <2>6, <2>4, <2>5
  <2>13. p + 1 = f - 1
    BY <2>3, <2>6
  <2>14. QED
    BY <2>3, <2>7, <2>8, <2>9, <2>10, <2>11, <2>12, <2>13
<1>4. QED
  BY <1>31, <1>1, <1>2, <1>3 DEF g, StartsAt

(* A start among the cells of an extent is its own.                        *)
LEMMA StartApart ==
  ASSUME NEW o \in Seq(Nat), NEW X, NEW a \in Nat, NEW n \in Nat, Tiles(X, o, a, n),
         NEW i \in Pos, NEW k \in 1 .. Len(X[i]),
         NEW q \in Starts(X), q \in Takes(X[i][k])
  PROVE  q = X[i][k].off - 2
<1>1. PICK j \in Pos : \E l \in 1 .. Len(X[j]) : X[j][l].off - 2 = q
  BY DEF Starts
<1>2. PICK l \in 1 .. Len(X[j]) : X[j][l].off - 2 = q
  BY <1>1
<1>3. q \in Nat /\ q \in Takes(X[j][l])
  <2>1. /\ q \in Nat /\ X[j][l].len \in Nat /\ X[j][l].len >= 1
        /\ Takes(X[j][l]) = q .. q + 1 + X[j][l].len
    BY <1>2, StartFacts DEF StartsAt
  <2> DEFINE g == X[j][l].len
  <2> HIDE DEF g
  <2>2. g \in Nat => q \in q .. q + 1 + g
    BY <2>1
  <2>3. QED
    BY <2>1, <2>2 DEF g
<1>4. i = j /\ k = l
  BY <1>3 DEF Tiles, Apart
<1>5. QED
  BY <1>2, <1>4

(* Where an extent ends, another starts, or the end is.                    *)
LEMMA NextStarts ==
  ASSUME NEW o \in Seq(Nat), NEW X, NEW a \in Nat, NEW n \in Nat, Tiles(X, o, a, n),
         NEW z \in a .. n - 1, z = a \/ \E i \in Pos : \E k \in 1 .. Len(X[i]) :
                                          z = X[i][k].off + X[i][k].len
  PROVE  z \in Starts(X)
<1>1. PICK j \in Pos : \E l \in 1 .. Len(X[j]) : z \in Takes(X[j][l])
  BY DEF Tiles, Covers
<1>2. PICK l \in 1 .. Len(X[j]) : z \in Takes(X[j][l])
  BY <1>1
<1> DEFINE q == X[j][l].off - 2
           h == X[j][l].len
<1>3. /\ q \in Nat /\ a <= q /\ h \in Nat /\ h >= 1 /\ q \in Starts(X)
      /\ Takes(X[j][l]) = q .. q + 1 + h
  BY StartFacts DEF StartsAt
<1> HIDE DEF q, h
<1>4. z \in q .. q + 1 + h /\ z \in Nat
  BY <1>2, <1>3
<1>5. CASE z = a
  BY <1>3, <1>4, <1>5
<1>6. CASE \E i \in Pos : \E k \in 1 .. Len(X[i]) : z = X[i][k].off + X[i][k].len
  <2>1. PICK i \in Pos : \E k \in 1 .. Len(X[i]) : z = X[i][k].off + X[i][k].len
    BY <1>6
  <2>2. PICK k \in 1 .. Len(X[i]) : z = X[i][k].off + X[i][k].len
    BY <2>1
  <2> DEFINE p == X[i][k].off - 2
             g == X[i][k].len
  <2>3. /\ p \in Nat /\ g \in Nat /\ g >= 1 /\ Takes(X[i][k]) = p .. p + 1 + g
    BY StartFacts DEF StartsAt
  <2>4. z = p + 2 + g
    <3> DEFINE f == X[i][k].off
    <3>1. z = f + g /\ p = f - 2 /\ f \in Nat
      BY <2>2, MapFacts DEF Tiles
    <3> HIDE DEF f, g, p
    <3>2. QED
      BY <2>3, <3>1
  <2> HIDE DEF p, g
  <2>5. z - 1 \in Nat /\ z - 1 \in Takes(X[i][k]) /\ ~(z \in Takes(X[i][k]))
    BY <2>3, <2>4
  <2>6. CASE z = q
    BY <1>3, <2>6
  <2>7. CASE z # q
    <3>1. z - 1 \in Takes(X[j][l])
      BY <1>3, <1>4, <2>7
    <3>2. i = j /\ k = l
      BY <2>5, <3>1 DEF Tiles, Apart
    <3>3. QED
      BY <1>2, <2>5, <3>2
  <2>8. QED
    BY <2>6, <2>7
<1>7. QED
  BY <1>5, <1>6

(* A sealed image is an archive, cut where its extents start.              *)
LEMMA SealedCuts ==
  ASSUME NEW o \in Seq(Nat), NEW X, NEW m \in Nat, Seals(X, m, o)
  PROVE  WellBegun(o) /\ Cut(o, Starts(X))
<1> DEFINE P == Starts(X)
           a == 2 + o[2]
           n == Len(o) - 1
<1>1. /\ WellBegun(o) /\ Tiles(X, o, a, n) /\ o[Len(o)] = 0 /\ a <= n
      /\ \A i \in Pos : X[i] # <<>> <=> i <= m
  BY DEF Seals
<1>2. a \in Nat /\ n \in Nat /\ n + 1 = Len(o) /\ a = 2 + o[2]
  <2>1. Len(o) \in Nat /\ Len(o) >= 3
    BY <1>1, LenProperties DEF WellBegun
  <2>2. o[2] \in Nat
    BY <2>1, ElementOfSeq
  <2>3. QED
    BY <2>1, <2>2
<1> HIDE DEF a, n, P
<1>3. ASSUME NEW p \in P
      PROVE  /\ p \in a .. n - 1
             /\ p + 2 < n /\ o[p + 1] > 0 /\ o[p + 2] \in 1 .. Chunk
             /\ p + 2 + o[p + 2] \in P \cup {n}
             /\ P \cap p + 1 .. p + 1 + o[p + 2] = {}
             /\ o[p + 2] < Chunk => \A q \in P : q > p => o[q + 1] # o[p + 1]
             /\ \A i \in 1 .. o[p + 1] : \E q \in P : o[q + 1] = i
  <2>1. PICK i \in Pos : \E k \in 1 .. Len(X[i]) : X[i][k].off - 2 = p
    BY DEF P, Starts
  <2>2. PICK k \in 1 .. Len(X[i]) : p = X[i][k].off - 2
    BY <2>1
  <2> DEFINE g == X[i][k].len
  <2>3. /\ p \in Nat /\ a <= p /\ p + 2 < n /\ o[p + 1] = i /\ o[p + 2] = g /\ p + 2 + g <= n
        /\ g \in 1 .. Chunk /\ g \in Nat /\ g >= 1 /\ Takes(X[i][k]) = p .. p + 1 + g
    <3>1. StartsAt(o, X, a, n, i, k, p)
      <4> HIDE DEF g
      <4>1. QED
        BY <1>1, <1>2, <2>2, StartFacts
    <3>2. QED
      BY <3>1 DEF StartsAt
  <2> HIDE DEF g
  <2>4. p \in a .. n - 1 /\ i > 0 /\ i \in Nat
    <3>1. p \in Int /\ n \in Int /\ a \in Int /\ a <= p /\ p + 2 < n
      BY <1>2, <2>3
    <3>2. p \in a .. n - 1
      BY <3>1
    <3>3. QED
      BY <3>2 DEF Pos
  <2>5. p + 2 + g \in P \cup {n}
    <3> SUFFICES ASSUME p + 2 + g # n PROVE p + 2 + g \in P
      OBVIOUS
    <3>1. p + 2 + g \in a .. n - 1
      <4>1. /\ p \in Nat /\ g \in Nat /\ n \in Nat /\ a \in Nat /\ a <= p
            /\ p + 2 + g <= n /\ p + 2 + g # n
        BY <1>2, <2>3
      <4>2. QED
        BY <4>1
    <3>2. p + 2 + g = X[i][k].off + X[i][k].len
      <4> DEFINE f == X[i][k].off
      <4>1. f \in Nat /\ p = f - 2
        BY <1>1, <2>2, MapFacts DEF Tiles
      <4> HIDE DEF f
      <4>2. p + 2 + g = f + g
        BY <2>3, <4>1
      <4>3. QED
        BY <4>2 DEF f, g
    <3> DEFINE z == p + 2 + g
    <3>3. z \in a .. n - 1 /\ z = X[i][k].off + X[i][k].len
      BY <3>1, <3>2
    <3> HIDE DEF z
    <3>4. z \in Starts(X)
      BY <1>1, <1>2, <3>3, NextStarts
    <3>5. QED
      BY <3>4 DEF z, P
  <2>6. ASSUME NEW q \in P, q \in p + 1 .. p + 1 + g PROVE FALSE
    <3>1. q \in Takes(X[i][k])
      BY <2>3, <2>6
    <3>2. q = X[i][k].off - 2
      BY <1>1, <1>2, <3>1, StartApart DEF P
    <3>3. q = p
      BY <2>2, <3>2
    <3>4. QED
      BY <2>3, <2>6, <3>3
  <2>7. ASSUME g < Chunk, NEW q \in P, q > p PROVE o[q + 1] # o[p + 1]
    <3>1. PICK j \in Pos : \E l \in 1 .. Len(X[j]) : X[j][l].off - 2 = q
      BY DEF P, Starts
    <3>2. PICK l \in 1 .. Len(X[j]) : q = X[j][l].off - 2
      BY <3>1
    <3>3. o[q + 1] = j
      <4>1. StartsAt(o, X, a, n, j, l, q)
        BY <1>1, <1>2, <3>2, StartFacts
      <4>2. QED
        BY <4>1 DEF StartsAt
    <3> SUFFICES ASSUME j = i PROVE FALSE
      BY <2>3, <3>3
    <3>4. Packed(X[i]) /\ X[i][k].len = g /\ Len(X[i]) \in Nat
      BY <1>1, MapFacts DEF Tiles, g
    <3>5. k = Len(X[i])
      <4>1. k < Len(X[i]) => X[i][k].len = Chunk
        BY <3>4 DEF Packed
      <4>2. ~(k < Len(X[i]))
        BY <2>3, <2>7, <3>4, <4>1, ChunkAssumption
      <4>3. QED
        BY <3>4, <4>2
    <3>6. l # k
      <4>1. l = k => q = p
        BY <2>2, <3>2
      <4>2. QED
        BY <2>3, <2>7, <4>1
    <3>7. l < k
      BY <3>4, <3>5, <3>6
    <3>8. X[i][l].off + X[i][l].len <= X[i][k].off - 2
      BY <1>1, <3>7 DEF Tiles, Follow
    <3> DEFINE f == X[i][l].off
               h == X[i][l].len
    <3>9. f \in Nat /\ h \in Nat /\ q = f - 2
      BY <1>1, <3>2, MapFacts DEF Tiles
    <3>10. f + h <= p
      BY <2>2, <3>8
    <3> HIDE DEF f, h
    <3>11. QED
      BY <2>3, <2>7, <3>9, <3>10
  <2>8. ASSUME NEW h \in 1 .. i PROVE \E q \in P : o[q + 1] = h
    <3>1. X[i] # <<>> /\ X[i] \in Seq(Extents)
      <4>1. X[i] \in Seq(Extents)
        BY <1>1, MapFacts DEF Tiles
      <4>2. Len(X[i]) # 0
        OBVIOUS
      <4>3. QED
        BY <4>1, <4>2, ExtentFacts
    <3>2. i <= m
      BY <1>1, <3>1
    <3>3. h \in Pos /\ h <= m
      BY <2>4, <3>2 DEF Pos
    <3>4. X[h] # <<>> /\ X[h] \in Seq(Extents)
      BY <1>1, <3>3, MapFacts DEF Tiles
    <3>5. 1 \in 1 .. Len(X[h])
      BY <3>4, ExtentFacts
    <3> DEFINE q == X[h][1].off - 2
    <3>6. q = X[h][1].off - 2
      OBVIOUS
    <3> HIDE DEF q
    <3>7. q \in Starts(X) /\ o[q + 1] = h
      <4>1. StartsAt(o, X, a, n, h, 1, q)
        BY <1>1, <1>2, <3>3, <3>5, <3>6, StartFacts
      <4>2. QED
        BY <4>1 DEF StartsAt
    <3>8. QED
      BY <3>7 DEF P
  <2>9. QED
    BY <2>3, <2>4, <2>5, <2>6, <2>7, <2>8
<1>4. a = n \/ a \in P
  <2> SUFFICES ASSUME a # n PROVE a \in P
    OBVIOUS
  <2>1. a \in a .. n - 1
    BY <1>1, <1>2
  <2>2. QED
    BY <1>1, <1>2, <2>1, NextStarts DEF P
<1>5. o[n + 1] = 0
  BY <1>1, <1>2
<1>6. Cut(o, P)
  BY <1>2, <1>3, <1>4, <1>5 DEF Cut, n
<1>7. QED
  BY <1>1, <1>6 DEF P

-----------------------------------------------------------------------------
(* The extents the reader has are the first of those that were written.    *)

PrefixAt(R, X, n, i) ==
  /\ Len(R[i]) <= Len(X[i])
  /\ \A k \in 1 .. Len(R[i]) : R[i][k] = X[i][k]
  /\ Len(R[i]) < Len(X[i]) => X[i][Len(R[i]) + 1].off - 2 >= n

Prefix(R, X, n) == \A i \in Pos : PrefixAt(R, X, n, i)

(* A reader that has nothing has the first none of them.                   *)
LEMMA PrefixNone ==
  ASSUME NEW R, R = [i \in Pos |-> <<>>], NEW o \in Seq(Nat), NEW X,
         NEW a \in Nat, NEW n \in Nat, Tiles(X, o, a, n)
  PROVE  Prefix(R, X, a)
<1> SUFFICES ASSUME NEW i \in Pos PROVE PrefixAt(R, X, a, i)
  BY DEF Prefix
<1>1. R[i] = <<>> /\ Len(R[i]) = 0
  BY EmptySeq
<1>2. Len(X[i]) \in Nat
  BY MapFacts DEF Tiles
<1>3. ASSUME 0 < Len(X[i]) PROVE X[i][0 + 1].off - 2 >= a
  <2> DEFINE p == X[i][1].off - 2
  <2>1. 1 \in 1 .. Len(X[i])
    BY <1>2, <1>3
  <2>2. StartsAt(o, X, a, n, i, 1, p)
    BY <2>1, StartFacts
  <2>3. p \in Nat /\ a <= p
    BY <2>2 DEF StartsAt
  <2> HIDE DEF p
  <2>4. p >= a
    BY <2>3
  <2>5. QED
    BY <2>4 DEF p
<1> DEFINE f(k) == X[i][k + 1].off - 2
<1>4. 0 < Len(X[i]) => f(0) >= a
  BY <1>3
<1> HIDE DEF f
<1>5. Len(R[i]) < Len(X[i]) => f(Len(R[i])) >= a
  BY <1>1, <1>4
<1>6. 0 <= Len(X[i]) /\ 1 .. 0 = {}
  BY <1>2
<1>7. QED
  BY <1>1, <1>5, <1>6 DEF PrefixAt, f

(* The extent that is read is the next that was written.                   *)
LEMMA PrefixGrows ==
  ASSUME NEW o \in Seq(Nat), NEW X, NEW a \in Nat, NEW N \in Nat, Tiles(X, o, a, N),
         NEW R, NEW n \in Nat, Tiles(R, o, a, n), Prefix(R, X, n), n \in Starts(X),
         NEW id \in Pos, id = o[n + 1], NEW l \in 1 .. Chunk, l = o[n + 2], LastFull(R[id]),
         \A q \in Starts(X) : q > n => q >= n + 2 + l
  PROVE  Prefix(Added(R, id, Extent(n + 2, l)), X, n + 2 + l)
<1> DEFINE y == Extent(n + 2, l)
           Z == Added(R, id, y)
           m == Len(R[id])
           w == n + 2 + l
<1>1. PICK j \in Pos : \E k \in 1 .. Len(X[j]) : X[j][k].off - 2 = n
  BY DEF Starts
<1>2. PICK v \in 1 .. Len(X[j]) : n = X[j][v].off - 2
  BY <1>1
<1>3. StartsAt(o, X, a, N, j, v, n)
  BY <1>2, StartFacts
<1>4. /\ j = id /\ X[id][v].len = l /\ l \in Nat /\ l >= 1
      /\ Takes(X[id][v]) = n .. n + 1 + l
  BY <1>3 DEF StartsAt
<1>5. /\ X \in Maps /\ R \in Maps /\ m \in Nat /\ Len(X[id]) \in Nat /\ X[id] \in Seq(Extents)
      /\ v \in 1 .. Len(X[id]) /\ v \in Nat
  <2>1. X \in Maps /\ R \in Maps
    BY DEF Tiles
  <2>2. m \in Nat /\ Len(X[id]) \in Nat /\ X[id] \in Seq(Extents)
    BY <2>1, MapFacts
  <2>3. v \in 1 .. Len(X[id])
    BY <1>2, <1>4
  <2>4. v \in Nat
    BY <2>3
  <2>5. QED
    BY <2>1, <2>2, <2>3, <2>4
<1>31. /\ m \in Nat /\ Len(X[id]) \in Nat /\ v \in Nat /\ 1 <= v /\ v <= Len(X[id])
  <2> HIDE DEF m
  <2>1. QED
    BY <1>5
<1>6. X[id][v].off \in Nat /\ X[id][v].off = n + 2
  <2> DEFINE f == X[id][v].off
  <2>1. f \in Nat /\ n = f - 2
    BY <1>2, <1>4, <1>5, MapFacts
  <2> HIDE DEF f
  <2>2. f \in Nat /\ f = n + 2
    BY <2>1
  <2>3. QED
    BY <2>2 DEF f
<1>7. X[id][v] = y
  <2>1. X[id][v] \in Extents
    BY <1>5, ElementOfSeq
  <2>2. \A e \in Extents : e = Extent(e.off, e.len)
    BY DEF Extents, Extent
  <2>3. QED
    BY <1>4, <1>6, <2>1, <2>2
<1>8. PrefixAt(R, X, n, id)
  BY DEF Prefix
<1>9. v = m + 1
  <2>1. ASSUME v <= m PROVE FALSE
    <3>1. v \in 1 .. m
      BY <1>5, <2>1
    <3>2. R[id][v] = X[id][v]
      BY <1>8, <3>1 DEF PrefixAt
    <3>3. R[id][v].off + R[id][v].len <= n
      BY <3>1 DEF Tiles, FieldsTell
    <3>4. n + 2 + l <= n
      BY <1>4, <1>6, <3>2, <3>3
    <3>5. QED
      BY <1>4, <3>4
  <2>2. ASSUME v > m + 1 PROVE FALSE
    <3> DEFINE u == m + 1
               f == X[id][u].off
               g == X[id][u].len
    <3>1. u \in 1 .. Len(X[id]) /\ u < v /\ m < Len(X[id])
      <4> DEFINE b == Len(X[id])
      <4>1. m \in Nat /\ b \in Nat /\ v \in Nat /\ v <= b
        BY <1>31
      <4> HIDE DEF m, b
      <4>2. u \in 1 .. b /\ u < v /\ m < b
        BY <2>2, <4>1
      <4>3. QED
        BY <4>2 DEF b
    <3>2. f - 2 >= n
      BY <1>8, <3>1 DEF PrefixAt
    <3> HIDE DEF u
    <3>3. f \in Nat /\ g \in Nat /\ f + g <= X[id][v].off - 2
      BY <1>5, <3>1, MapFacts DEF Tiles, Follow
    <3> HIDE DEF f, g
    <3>4. f + g <= n + 2 - 2 /\ g >= 0
      BY <1>6, <3>3
    <3>5. QED
      BY <3>2, <3>3, <3>4
  <2> HIDE DEF m
  <2>3. QED
    BY <1>31, <2>1, <2>2
<1>10. y \in Extents
  BY <1>5, <1>7, ElementOfSeq
<1> HIDE DEF y
<1>11. /\ Z[id] = Append(R[id], y) /\ Len(Z[id]) = m + 1 /\ Z[id][m + 1] = y
       /\ \A i \in Pos : \A k \in 1 .. Len(R[i]) : Z[i][k] = R[i][k]
       /\ \A i \in Pos : i # id => Z[i] = R[i]
  <2> HIDE DEF m
  <2>1. /\ Z[id] = Append(R[id], y)
        /\ Len(Z[id]) = Len(R[id]) + 1 /\ Z[id][Len(R[id]) + 1] = y
        /\ \A i \in Pos : \A k \in 1 .. Len(R[i]) :
             k \in 1 .. Len(Z[i]) /\ Z[i][k] = R[i][k]
        /\ \A i \in Pos : i # id => Z[i] = R[i]
    <3>1. R \in Maps /\ id \in Pos /\ LastFull(R[id]) /\ y \in Extents
      BY <1>5, <1>10
    <3>2. Z = Added(R, id, y)
      OBVIOUS
    <3> HIDE DEF Z
    <3>3. HasAdded(R, id, y, Z)
      BY <3>1, <3>2, AddedHas
    <3>4. QED
      BY <3>3 DEF HasAdded
  <2>2. QED
    BY <2>1 DEF m
<1>33. w \in Nat /\ w = n + 2 + l
  BY <1>4
<1>32. \A q \in Starts(X) : q > n => q >= w
  OBVIOUS
<1> HIDE DEF Z, m, w
<1>12. PrefixAt(Z, X, w, id)
  <2>1. Len(Z[id]) <= Len(X[id])
    BY <1>5, <1>9, <1>11
  <2>2. ASSUME NEW k \in 1 .. Len(Z[id]) PROVE Z[id][k] = X[id][k]
    <3>1. CASE k = m + 1
      BY <1>7, <1>9, <1>11, <3>1
    <3>2. CASE k # m + 1
      <4>1. k \in 1 .. m /\ k \in 1 .. Len(R[id])
        <5>1. k \in 1 .. m + 1
          BY <1>11
        <5>2. k \in 1 .. m
          BY <1>31, <3>2, <5>1
        <5>3. QED
          BY <5>2 DEF m
      <4>2. R[id][k] = X[id][k]
        BY <1>8, <4>1 DEF PrefixAt
      <4>3. QED
        BY <1>11, <4>1, <4>2
    <3>3. QED
      BY <3>1, <3>2
  <2>3. ASSUME Len(Z[id]) < Len(X[id]) PROVE X[id][Len(Z[id]) + 1].off - 2 >= w
    <3> DEFINE u == v + 1
               f == X[id][u].off
    <3>1. u \in 1 .. Len(X[id]) /\ v < u
      BY <1>5, <1>9, <1>11, <2>3
    <3> HIDE DEF u
    <3>2. X[id][v].off + X[id][v].len <= f - 2
      BY <1>5, <3>1 DEF Tiles, Follow
    <3>3. f - 2 >= w
      <4>1. f \in Nat
        BY <1>5, <3>1, MapFacts
      <4> HIDE DEF f
      <4>2. n + 2 + l <= f - 2
        BY <1>4, <1>6, <3>2
      <4>3. QED
        BY <1>33, <4>1, <4>2
    <3>4. Len(Z[id]) + 1 = u
      BY <1>9, <1>11 DEF u
    <3>5. QED
      BY <3>3, <3>4
  <2>4. QED
    BY <2>1, <2>2, <2>3 DEF PrefixAt
<1>13. ASSUME NEW i \in Pos, i # id PROVE PrefixAt(Z, X, w, i)
  <2>1. Z[i] = R[i] /\ PrefixAt(R, X, n, i)
    BY <1>11, <1>13 DEF Prefix
  <2>2. ASSUME Len(R[i]) < Len(X[i]) PROVE X[i][Len(R[i]) + 1].off - 2 >= w
    <3> DEFINE u == Len(R[i]) + 1
               q == X[i][u].off - 2
    <3>1. u \in 1 .. Len(X[i])
      BY <1>5, <2>2, MapFacts
    <3>2. q >= n
      BY <2>1, <2>2 DEF PrefixAt
    <3> HIDE DEF u
    <3>3. StartsAt(o, X, a, N, i, u, q)
      BY <3>1, StartFacts
    <3>4. q \in Starts(X) /\ q \in Nat
      BY <3>3 DEF StartsAt
    <3>5. q # n
      <4> SUFFICES ASSUME q = n PROVE FALSE
        OBVIOUS
      <4>1. o[n + 1] = i
        BY <3>3 DEF StartsAt
      <4>2. QED
        BY <1>13, <4>1
    <3> HIDE DEF q
    <3>6. q >= w
      BY <1>32, <3>2, <3>4, <3>5
    <3>7. QED
      BY <3>6 DEF q, u
  <2>3. QED
    BY <2>1, <2>2 DEF PrefixAt
<1>14. \A i \in Pos : PrefixAt(Z, X, w, i)
  BY <1>12, <1>13
<1>15. QED
  BY <1>14 DEF Prefix, Z, w, y

(* At the end the reader has all that were written.                        *)
LEMMA PrefixEnds ==
  ASSUME NEW o \in Seq(Nat), NEW X, NEW a \in Nat, NEW n \in Nat, Tiles(X, o, a, n),
         NEW R, Tiles(R, o, a, n), Prefix(R, X, n), NEW i \in Pos
  PROVE  R[i] = X[i]
<1>1. PrefixAt(R, X, n, i)
  BY DEF Prefix
<1>2. R[i] \in Seq(Extents) /\ X[i] \in Seq(Extents) /\ Len(R[i]) \in Nat /\ Len(X[i]) \in Nat
  BY MapFacts DEF Tiles
<1>3. ~(Len(R[i]) < Len(X[i]))
  <2> SUFFICES ASSUME Len(R[i]) < Len(X[i]) PROVE FALSE
    OBVIOUS
  <2> DEFINE u == Len(R[i]) + 1
             p == X[i][u].off - 2
  <2>1. u \in 1 .. Len(X[i]) /\ p >= n
    BY <1>1, <1>2 DEF PrefixAt
  <2> HIDE DEF u
  <2>2. StartsAt(o, X, a, n, i, u, p)
    BY <2>1, StartFacts
  <2>3. p \in Nat /\ p + 2 < n
    BY <2>2 DEF StartsAt
  <2> HIDE DEF p
  <2>4. QED
    BY <2>1, <2>3
<1>4. Len(R[i]) = Len(X[i])
  BY <1>1, <1>2, <1>3 DEF PrefixAt
<1>5. \A k \in 1 .. Len(R[i]) : R[i][k] = X[i][k]
  BY <1>1 DEF PrefixAt
<1>6. DOMAIN R[i] = 1 .. Len(R[i]) /\ DOMAIN X[i] = 1 .. Len(X[i])
  BY <1>2, LenProperties
<1> DEFINE r == R[i]
           x == X[i]
<1>7. r = [k \in DOMAIN r |-> r[k]] /\ x = [k \in DOMAIN x |-> x[k]] /\ DOMAIN r = DOMAIN x
  <2>1. r \in [1 .. Len(r) -> Extents] /\ x \in [1 .. Len(x) -> Extents]
    BY <1>2, LenProperties
  <2>2. QED
    BY <1>4, <1>6, <2>1
<1>8. QED
  BY <1>5, <1>6, <1>7

-----------------------------------------------------------------------------
(* What the reader has, of the image o and up to n: the streams s, the     *)
(* list q of their chunks and the tune.  Nothing of it depends on the      *)
(* state.                                                                  *)

BodyOf(s, c, o) ==
  <<c.stream, c.len>> \o [k \in 1 .. c.len |-> ByteAt(s[c.stream], c.off + k - 1, o)]

ParsedOf(s, q, a, n, o) ==
  /\ s \in Seq(ReadStreams) /\ Tiles(Exts(s), o, a, n) /\ Sized(Exts(s), a, n)
  /\ q \in Seq(Chunks) /\ Listed(s, q) /\ (q = <<>> => s = <<>>)
  /\ [c \in DOMAIN q |-> BodyOf(s, q[c], o)] \in Seq(Seq(Nat))
  /\ FlattenSeq([c \in DOMAIN q |-> BodyOf(s, q[c], o)]) = SubSeq(o, a + 1, n)

ReadTo(s, q, tune, n, o) ==
  /\ Len(o) >= 2 /\ o[1] = Magic /\ o[2] <= TuneMax
  /\ tune = SubSeq(o, 3, 2 + o[2]) /\ tune \in Seq(Nat) /\ Len(tune) = o[2]
  /\ n \in Nat /\ n <= Len(o) /\ 2 + o[2] <= n
  /\ ParsedOf(s, q, 2 + o[2], n, o)
  /\ s # <<>> => Exts(s)[Len(s)] # <<>>
  /\ \A P : WellBegun(o) /\ Cut(o, P) => Follows(P, Exts(s), n, Len(o) - 1)
  /\ \A X : \A m \in Nat : Seals(X, m, o) => Prefix(Exts(s), X, n)

(* What has been parsed, of the image as it is.                            *)
LEMMA ParsedNow == \A s, q, a, n : Parsed(s, q, a, n) <=> ParsedOf(s, q, a, n, output)
<1>1. \A st, at : StreamByte(st, at) = ByteAt(st, at, output)
  BY DEF StreamByte, ByteAt, Cell
<1>2. \A s, c : Body(s, c) = BodyOf(s, c, output)
  BY <1>1 DEF Body, BodyOf
<1>3. \A s, q : Bodies(s, q) = [c \in DOMAIN q |-> BodyOf(s, q[c], output)]
  BY <1>2 DEF Bodies
<1> SUFFICES ASSUME NEW s, NEW q, NEW a, NEW n
             PROVE  Parsed(s, q, a, n) <=> ParsedOf(s, q, a, n, output)
  OBVIOUS
<1> DEFINE B == [c \in DOMAIN q |-> BodyOf(s, q[c], output)]
<1>4. Bodies(s, q) = B
  BY <1>3
<1>5. ParsedOf(s, q, a, n, output)
      <=> /\ s \in Seq(ReadStreams) /\ Tiles(Exts(s), output, a, n) /\ Sized(Exts(s), a, n)
          /\ q \in Seq(Chunks) /\ Listed(s, q) /\ (q = <<>> => s = <<>>)
          /\ B \in Seq(Seq(Nat))
          /\ FlattenSeq(B) = SubSeq(output, a + 1, n)
  BY DEF ParsedOf
<1> HIDE DEF B
<1>6. QED
  BY <1>4, <1>5 DEF Parsed

(* A reader that has read the header.                                      *)
LEMMA ReadStart ==
  ASSUME output \in Seq(Nat), Len(output) >= 2, output[1] = Magic, output[2] <= TuneMax,
         output[2] <= Len(output) - 2
  PROVE  ReadTo(<<>>, <<>>, SubSeq(output, 3, 2 + output[2]), 2 + output[2], output)
<1> DEFINE o == output
           a == 2 + o[2]
           E == Exts(<<>>)
<1>1. Len(o) \in Nat /\ o[2] \in Nat
  BY LenProperties, ElementOfSeq
<1>2. a \in Nat /\ a <= Len(o)
  BY <1>1
<1>3. /\ SubSeq(o, 3, a) \in Seq(Nat) /\ Len(SubSeq(o, 3, a)) = o[2]
  <2>1. \A i \in 3 .. a : o[i] \in Nat
    <3>1. \A i \in 3 .. a : i \in 1 .. Len(o)
      BY <1>1, <1>2
    <3>2. QED
      BY <3>1, ElementOfSeq
  <2>2. 3 <= a + 1 /\ a - 3 + 1 = o[2]
    <3> DEFINE t == o[2]
    <3>1. t \in Nat /\ a = 2 + t
      BY <1>1
    <3> HIDE DEF t, a
    <3>2. 3 <= a + 1 /\ a - 3 + 1 = t
      BY <3>1
    <3>3. QED
      BY <3>2 DEF t
  <2> HIDE DEF a
  <2>3. a \in Int /\ 3 \in Int
    BY <1>2
  <2>4. QED
    BY <2>1, <2>2, <2>3, SubSeqProperties
<1>4. ParsedOf(<<>>, <<>>, a, a, o)
  <2> HIDE DEF a
  <2>1. QED
    BY <1>2, ParsedNone, ParsedNow
<1>5. E = [i \in Pos |-> <<>>]
  <2>1. DOMAIN <<>> = {}
    OBVIOUS
  <2>2. QED
    BY <2>1 DEF Exts
<1> HIDE DEF E
<1>6. \A P : WellBegun(o) /\ Cut(o, P) => Follows(P, E, a, Len(o) - 1)
  BY <1>5, FollowsFirst
<1>7. \A X : \A m \in Nat : Seals(X, m, o) => Prefix(E, X, a)
  <2> SUFFICES ASSUME NEW X, NEW m \in Nat, Seals(X, m, o) PROVE Prefix(E, X, a)
    OBVIOUS
  <2> DEFINE n == Len(o) - 1
  <2>1. Tiles(X, o, a, n) /\ n \in Nat
    BY <1>1 DEF Seals
  <2> HIDE DEF n, a
  <2>2. QED
    BY <1>2, <1>5, <2>1, PrefixNone
<1>8. a <= a
  BY <1>2
<1>9. QED
  BY <1>1, <1>2, <1>3, <1>4, <1>6, <1>7, <1>8 DEF ReadTo, E

(* At a chunk that is not the end marker, an archive has its next start.   *)
LEMMA AtStart ==
  ASSUME output \in Seq(Nat), NEW s, NEW q, NEW tune, NEW n, ReadTo(s, q, tune, n, output),
         WellBegun(output), NEW P, Cut(output, P)
  PROVE  /\ Tiles(Exts(s), output, 2 + output[2], n) /\ 2 + output[2] \in Nat /\ n \in Nat
         /\ Follows(P, Exts(s), n, Len(output) - 1)
         /\ n \in P \/ (n = Len(output) - 1 /\ EndsWell(output, Exts(s)))
         /\ n \in P => GoesOn(output, P, Exts(s), n)
<1> DEFINE a == 2 + output[2]
           X == Exts(s)
           last == Len(output) - 1
<1>1. Tiles(X, output, a, n) /\ n \in Nat /\ Follows(P, X, n, last)
  BY DEF ReadTo, ParsedOf
<1>2. a \in Nat
  <2>1. Len(output) \in Nat /\ Len(output) >= 3
    BY LenProperties DEF WellBegun
  <2>2. output[2] \in Nat
    BY <2>1, ElementOfSeq
  <2>3. QED
    BY <2>2
<1>3. n \in P \/ n = last
  BY <1>1 DEF Follows
<1> HIDE DEF a, X
<1>4. n = last => EndsWell(output, X)
  BY <1>1, <1>2, CutEnds
<1>5. n \in P => GoesOn(output, P, X, n)
  BY <1>1, <1>2, CutGoes
<1>6. QED
  BY <1>1, <1>2, <1>3, <1>4, <1>5 DEF a, X

(* A reader that has read a chunk more.                                    *)
LEMMA ReadStep ==
  ASSUME output \in Seq(Nat), NEW s, NEW q, NEW tune, NEW n, ReadTo(s, q, tune, n, output),
         NEW id \in Pos, output[n + 1] = id, NEW l \in 1 .. Chunk, output[n + 2] = l,
         n + 2 + l <= Len(output), id <= Len(s) => s[id].len % Chunk = 0,
         NEW g, g = Grown(s, id),
         NEW t, t = ReadAlso(s, id, n + 2, l),
         NEW c, c = [stream |-> id, off |-> g[id].len, len |-> l]
  PROVE  ReadTo(t, Append(q, c), tune, n + 2 + l, output)
<1> DEFINE o == output
           a == 2 + o[2]
           X == Exts(s)
           last == Len(o) - 1
           w == n + 2 + l
           y == Extent(n + 2, l)
           r == Append(q, c)
<1>1. /\ Len(o) >= 2 /\ o[1] = Magic /\ o[2] <= TuneMax
      /\ tune = SubSeq(o, 3, 2 + o[2]) /\ tune \in Seq(Nat) /\ Len(tune) = o[2]
      /\ n \in Nat /\ n <= Len(o) /\ a <= n
      /\ ParsedOf(s, q, a, n, o)
      /\ s # <<>> => X[Len(s)] # <<>>
      /\ \A P : WellBegun(o) /\ Cut(o, P) => Follows(P, X, n, last)
      /\ \A Y : \A m \in Nat : Seals(Y, m, o) => Prefix(X, Y, n)
  BY DEF ReadTo
<1>2. Len(o) \in Nat /\ o[2] \in Nat
  BY <1>1, LenProperties, ElementOfSeq
<1>3. a \in Nat /\ l \in Nat /\ l >= 1 /\ w \in Nat /\ w <= Len(o) /\ a <= w /\ n + 2 \in Nat
  <2> DEFINE h == o[2]
  <2>1. h \in Nat /\ a = 2 + h
    BY <1>2
  <2>2. l \in Nat /\ l >= 1
    BY ChunkAssumption
  <2> HIDE DEF h, a
  <2>3. QED
    BY <1>1, <1>2, <2>1, <2>2
<1>4. s \in Seq(ReadStreams) /\ Tiles(X, o, a, n) /\ X \in Maps
  BY <1>1 DEF ParsedOf, Tiles
<1>5. /\ t \in Seq(ReadStreams) /\ t # <<>> /\ Len(t) = Len(g)
      /\ Exts(t) = Added(X, id, y) /\ LastFull(X[id])
      /\ Len(s) <= Len(t) /\ id \in 1 .. Len(t)
  <2> DEFINE v == n + 2
  <2>1. v \in Nat /\ t = ReadAlso(s, id, v, l)
    BY <1>3
  <2> HIDE DEF v
  <2>2. /\ t \in Seq(ReadStreams) /\ t # <<>> /\ Len(t) = Len(g)
        /\ Exts(t) = Added(X, id, Extent(v, l)) /\ LastFull(X[id])
        /\ Len(s) <= Len(t) /\ id \in 1 .. Len(t)
    BY <1>4, <2>1, ReaderAdds
  <2>3. QED
    BY <2>2 DEF v
<1>6. ParsedOf(t, r, a, w, o)
  <2>1. Parsed(s, q, a, n)
    BY <1>1, ParsedNow
  <2> HIDE DEF a
  <2>2. Parsed(t, r, a, n + 2 + l)
    BY <1>1, <1>3, <2>1, ParsedGrows
  <2>3. QED
    BY <2>2, ParsedNow
<1>7. Exts(t)[Len(t)] # <<>>
  <2>1. y \in Extents
    BY <1>3 DEF Extent, Extents
  <2>2. X[id] \in Seq(Extents) /\ Len(X[id]) \in Nat
    BY <1>4, MapFacts
  <2> HIDE DEF y, X
  <2>3. Added(X, id, y)[id] = Append(X[id], y) /\ \A j \in Pos : j # id => Added(X, id, y)[j] = X[j]
    BY <1>4 DEF Added, Maps
  <2>4. CASE Len(t) = id
    <3>1. Len(Append(X[id], y)) = Len(X[id]) + 1
      BY <2>1, <2>2, AppendProperties
    <3>2. Append(X[id], y) # <<>>
      <4> SUFFICES ASSUME Append(X[id], y) = <<>> PROVE FALSE
        OBVIOUS
      <4>1. Len(Append(X[id], y)) = 0
        BY EmptySeq
      <4>2. QED
        BY <2>2, <3>1, <4>1
    <3>3. QED
      BY <1>5, <2>3, <2>4, <3>2
  <2>5. CASE Len(t) # id
    <3>1. Len(s) \in Nat /\ Len(t) \in Nat
      BY <1>4, <1>5, LenProperties
    <3>2. Len(g) = IF Len(s) < id THEN id ELSE Len(s)
      BY <3>1 DEF Grown, Pos
    <3>3. Len(t) = Len(s) /\ Len(t) \in Pos
      BY <1>5, <2>5, <3>1, <3>2 DEF Pos
    <3>4. s # <<>>
      <4> SUFFICES ASSUME s = <<>> PROVE FALSE
        OBVIOUS
      <4>1. Len(s) = 0
        BY EmptySeq
      <4>2. QED
        BY <3>3, <4>1 DEF Pos
    <3>5. X[Len(t)] # <<>>
      BY <1>1, <3>3, <3>4 DEF X
    <3>6. QED
      BY <1>5, <2>3, <2>5, <3>3, <3>5
  <2>6. QED
    BY <2>4, <2>5
<1>8. ASSUME NEW P, WellBegun(o), Cut(o, P)
      PROVE  n \in P /\ Follows(P, Exts(t), w, last)
  <2>1. /\ n \in P \/ (n = last /\ EndsWell(o, X))
        /\ n \in P => GoesOn(o, P, X, n)
    BY <1>8, AtStart
  <2>2. n \in P
    <3> SUFFICES ASSUME n = last, o[Len(o)] = 0 PROVE FALSE
      BY <2>1 DEF EndsWell
    <3>1. n + 1 = Len(o)
      BY <1>2
    <3>2. QED
      BY <3>1 DEF Pos
  <2>3. Follows(P, Added(X, id, y), w, last)
    BY <2>1, <2>2 DEF GoesOn
  <2>4. QED
    BY <1>5, <2>2, <2>3
<1>9. ASSUME NEW Y, NEW m \in Nat, Seals(Y, m, o) PROVE Prefix(Exts(t), Y, w)
  <2>1. WellBegun(o) /\ Cut(o, Starts(Y))
    BY <1>9, SealedCuts
  <2>2. n \in Starts(Y)
    BY <1>8, <2>1
  <2>3. CutAt(o, Starts(Y), n)
    BY <2>1, <2>2, CutFacts
  <2>4. \A z \in Starts(Y) : z > n => z >= n + 2 + l
    BY <2>3 DEF CutAt
  <2>5. Prefix(X, Y, n)
    BY <1>1, <1>9
  <2> DEFINE N == last
  <2>6. N \in Nat /\ Tiles(Y, o, a, N)
    BY <1>2, <2>1, <1>9 DEF Seals, WellBegun
  <2> HIDE DEF N, a, X
  <2>7. Prefix(Added(X, id, Extent(n + 2, l)), Y, n + 2 + l)
    BY <1>1, <1>3, <1>4, <1>5, <2>2, <2>4, <2>5, <2>6, PrefixGrows
  <2>8. QED
    BY <1>5, <2>7
<1>10. QED
  BY <1>1, <1>3, <1>6, <1>7, <1>8, <1>9 DEF ReadTo

(* Of an archive, the reader takes the next chunk or finds the end.        *)
LEMMA NotRefused ==
  ASSUME output \in Seq(Nat), NEW s, NEW q, NEW tune, NEW n, ReadTo(s, q, tune, n, output),
         WellBegun(output), NEW P, Cut(output, P)
  PROVE  \/ /\ Len(output) - n >= 2 /\ output[n + 1] > 0
            /\ LegalChunk(s, output[n + 1], output[n + 2], Len(output) - n - 2)
         \/ /\ n + 1 = Len(output) /\ output[n + 1] = 0
            /\ \A i \in DOMAIN s : s[i].len > 0
<1> DEFINE o == output
           X == Exts(s)
           last == Len(o) - 1
<1>1. /\ n \in Nat
      /\ n \in P \/ (n = last /\ EndsWell(o, X))
      /\ n \in P => GoesOn(o, P, X, n)
  BY AtStart
<1>2. Len(o) \in Nat
  BY LenProperties
<1>3. s \in Seq(ReadStreams) /\ (s # <<>> => X[Len(s)] # <<>>)
  BY DEF ReadTo, ParsedOf
<1>4. /\ Len(s) \in Nat /\ DOMAIN s = 1 .. Len(s)
      /\ \A i \in 1 .. Len(s) : i \in Pos /\ s[i].ext \in Packs /\ X[i] = s[i].ext
                                /\ s[i].len = LenOf(s[i].ext)
  BY <1>3, ReadFacts
<1> HIDE DEF X
<1>5. \A i \in 1 .. Len(s) :
        /\ s[i].len \in Nat /\ (s[i].len = 0 <=> X[i] = <<>>)
        /\ LastFull(X[i]) => s[i].len % Chunk = 0
  BY <1>4, LenOfFacts DEF Packs
<1>6. CASE n \in P
  <2> DEFINE id == o[n + 1]
             l == o[n + 2]
  <2>1. /\ id \in Pos /\ id <= Len(o) \div 3 /\ l \in 1 .. Chunk /\ n + 2 + l <= last
        /\ LastFull(X[id])
    BY <1>1, <1>6 DEF GoesOn
  <2>2. id <= Len(s) => s[id].len % Chunk = 0
    <3> HIDE DEF id
    <3>1. id <= Len(s) => id \in 1 .. Len(s)
      BY <1>4, <2>1 DEF Pos
    <3>2. QED
      BY <1>5, <2>1, <3>1
  <2>3. l \in Nat
    BY <2>1, ChunkAssumption
  <2> HIDE DEF l
  <2>4. l <= Len(o) - n - 2 /\ Len(o) - n >= 2
    BY <1>1, <1>2, <2>1, <2>3
  <2>5. LegalChunk(s, id, l, Len(o) - n - 2)
    BY <2>1, <2>2, <2>4 DEF LegalChunk
  <2>6. id > 0
    <3> HIDE DEF id
    <3>1. QED
      BY <2>1 DEF Pos
  <2>7. QED
    BY <2>4, <2>5, <2>6 DEF l
<1>7. CASE n = last /\ EndsWell(o, X)
  <2>1. n + 1 = Len(o)
    BY <1>2, <1>7
  <2>2. ASSUME NEW i \in DOMAIN s PROVE s[i].len > 0
    <3>1. i \in 1 .. Len(s) /\ Len(s) \in Pos
      BY <1>4 DEF Pos
    <3>2. s # <<>>
      BY <2>2
    <3>3. X[i] # <<>>
      BY <1>3, <1>7, <3>1, <3>2 DEF EndsWell
    <3>4. QED
      BY <1>5, <3>1, <3>3
  <2>3. QED
    BY <1>7, <2>1, <2>2 DEF EndsWell
<1>8. QED
  BY <1>1, <1>6, <1>7

-----------------------------------------------------------------------------
(* The finished archive: the image o has the streams s and the tune.       *)

Shown(st, x, o) ==
  st.len = LenOf(x) /\ \A k \in 1 .. st.len : ByteAt(st, k - 1, o) = Shows(x, o, k - 1)

SealedBy(X, s, tune, o) ==
  /\ Seals(X, Len(s), o) /\ Header(tune, o) /\ Sized(X, 2 + Len(tune), Len(o) - 1)
  /\ \A i \in 1 .. Len(s) : Shown(s[i], X[i], o)

Sealed(s, tune, o) == \E X : SealedBy(X, s, tune, o)

(* The end marker behind the chunks.                                       *)
Capped(X, m, tune, o, t) ==
  /\ t \in Seq(Nat) /\ Agree(o, t, Len(o)) /\ Len(t) - 1 = Len(o)
  /\ Seals(X, m, t) /\ Header(tune, t) /\ Sized(X, 2 + Len(tune), Len(t) - 1)

(* The end marker seals the image.                                         *)
LEMMA Caps ==
  ASSUME NEW X, NEW o \in Seq(Nat), NEW tune, Header(tune, o),
         Tiles(X, o, 2 + Len(tune), Len(o)), Sized(X, 2 + Len(tune), Len(o)),
         NEW m \in Nat, \A i \in Pos : X[i] # <<>> <=> i <= m,
         NEW t, t = o \o << 0 >>
  PROVE  Capped(X, m, tune, o, t)
<1> DEFINE e == <<0>>
           n == Len(o)
           a == 2 + Len(tune)
<1>1. n \in Nat /\ Len(tune) \in Nat /\ a \in Nat /\ Len(tune) <= TuneMax /\ a <= n
  BY LenProperties DEF Header
<1>2. e \in Seq(Nat) /\ Len(e) = 1 /\ e[1] = 0
  OBVIOUS
<1>3. t = o \o e
  OBVIOUS
<1> HIDE DEF e
<1>4. t \in Seq(Nat) /\ Len(t) = n + 1 /\ (\A z \in 1 .. n : t[z] = o[z]) /\ t[n + 1] = 0
  <2>1. t \in Seq(Nat) /\ Len(t) = n + Len(e)
    BY <1>2, <1>3, ConcatProperties
  <2>2. \A z \in 1 .. Len(o) + Len(e) : t[z] = IF z <= Len(o) THEN o[z] ELSE e[z - Len(o)]
    BY <1>2, <1>3, ConcatProperties
  <2>3. \A z \in 1 .. n + 1 : t[z] = IF z <= n THEN o[z] ELSE e[z - n]
    BY <1>2, <2>2
  <2> HIDE DEF n
  <2>4. n + 1 \in 1 .. n + 1 /\ ~(n + 1 <= n) /\ (n + 1) - n = 1
    BY <1>1
  <2>5. t[n + 1] = 0
    BY <1>2, <2>3, <2>4
  <2>6. \A z \in 1 .. n : t[z] = o[z]
    <3> SUFFICES ASSUME NEW z \in 1 .. n PROVE t[z] = o[z]
      OBVIOUS
    <3>1. z \in 1 .. n + 1 /\ z <= n
      BY <1>1
    <3>2. QED
      BY <2>3, <3>1
  <2>7. QED
    BY <1>2, <2>1, <2>5, <2>6
<1>5. Agree(o, t, n) /\ Len(t) - 1 = n /\ Len(o) <= Len(t)
  BY <1>1, <1>4 DEF Agree
<1>6. Header(tune, t)
  BY <1>4, <1>5, HeaderStays
<1>7. Tiles(X, t, a, n)
  <2> HIDE DEF a, n
  <2>1. Tiles(X, o, a, n)
    BY DEF a, n
  <2>2. QED
    BY <1>1, <1>5, <2>1, TilesStay
<1>8. WellBegun(t)
  <2>1. t[1] = Magic /\ t[2] <= TuneMax
    BY <1>1, <1>6 DEF Header
  <2>2. Len(t) >= 3
    BY <1>1, <1>4
  <2>3. QED
    BY <2>1, <2>2 DEF WellBegun
<1>9. 2 + t[2] = a /\ t[Len(t)] = 0 /\ a <= Len(t) - 1
  BY <1>1, <1>4, <1>5, <1>6 DEF Header
<1>10. Seals(X, m, t)
  <2>1. Tiles(X, t, 2 + t[2], Len(t) - 1)
    BY <1>5, <1>7, <1>9
  <2> HIDE DEF a
  <2>2. QED
    BY <1>8, <1>9, <2>1 DEF Seals
<1>11. Sized(X, a, Len(t) - 1)
  BY <1>5
<1>12. QED
  BY <1>4, <1>5, <1>6, <1>10, <1>11 DEF Capped

(* The archive that has been streamed is finished.                         *)
LEMMA FinishSeals ==
  ASSUME NEW s \in Seq(Resting), NEW tune, NEW o, Streamed(s, tune, o),
         \A i \in 1 .. Len(s) : s[i].len > 0, NEW t, t = Append(o, 0)
  PROVE  Sealed(s, tune, t) /\ t \in Seq(Nat) /\ Agree(o, t, Len(o))
<1> DEFINE X == Exts(s)
           m == Len(s)
<1>1. /\ s \in Seq(Stored) /\ o \in Seq(Nat) /\ Header(tune, o)
      /\ Tiles(X, o, 2 + Len(tune), Len(o)) /\ Sized(X, 2 + Len(tune), Len(o))
  BY DEF Streamed
<1>2. /\ m \in Nat
      /\ \A i \in 1 .. Len(s) : X[i] = s[i].ext /\ s[i] \in Resting
      /\ \A i \in Pos : i > m => X[i] = <<>>
  BY <1>1, ExtsFacts, ElementOfSeq
<1>3. \A i \in 1 .. Len(s) : s[i].len = LenOf(X[i]) /\ X[i] # <<>>
  <2> SUFFICES ASSUME NEW i \in 1 .. Len(s) PROVE s[i].len = LenOf(X[i]) /\ X[i] # <<>>
    OBVIOUS
  <2>1. s[i].len = LenOf(s[i].ext) /\ Packed(s[i].ext)
    BY <1>2, RestingFacts DEF Packs
  <2>2. QED
    BY <1>2, <2>1, EmptyPacked
<1>4. \A i \in Pos : X[i] # <<>> <=> i <= m
  BY <1>2, <1>3 DEF Pos
<1>5. t = o \o <<0>>
  BY <1>1, AppendIsConcat
<1> HIDE DEF X
<1>6. Capped(X, m, tune, o, t)
  BY <1>1, <1>2, <1>4, <1>5, Caps
<1>7. \A i \in 1 .. Len(s) : Shown(s[i], X[i], t)
  <2> SUFFICES ASSUME NEW i \in 1 .. Len(s) PROVE Shown(s[i], X[i], t)
    OBVIOUS
  <2>1. \A at : ByteAt(s[i], at, t) = Shows(X[i], t, at)
    BY <1>2, RestingByte
  <2>2. QED
    BY <1>3, <2>1 DEF Shown
<1>8. SealedBy(X, s, tune, t)
  BY <1>6, <1>7 DEF SealedBy, Capped
<1>9. QED
  BY <1>6, <1>8 DEF Sealed, Capped

(* The image that is emitted, of an archive in memory.                     *)
LEMMA EmittedIs ==
  ASSUME NEW a, a.chunks = <<>>
  PROVE  Emitted(a) = Image(a.s, FlattenSeq(Shelves(a.s)), <<Magic, Len(a.tune)>> \o a.tune)
                      \o <<0>>
<1>1. ChunkList(a) = FlattenSeq(Shelves(a.s))
  BY DEF ChunkList, Shelves, Sections
<1>2. QED
  BY <1>1 DEF Emitted, Image, Bodies, Body

(* arc_write seals the image of the streams in memory.                     *)
LEMMA WriteSeals ==
  ASSUME NEW a, a.chunks = <<>>, a.tune = <<>>, a.s \in Seq(Held), NEW t, t = Emitted(a)
  PROVE  Sealed(a.s, a.tune, t) /\ t \in Seq(Nat)
<1> DEFINE s == a.s
           q == FlattenSeq(Shelves(s))
           h == <<Magic, 0>>
           o == Image(s, q, h)
           m == Len(s)
           e == <<>>
<1>1. h \in Seq(Nat) /\ Len(h) = 2 /\ h[1] = Magic /\ h[2] = 0
  BY CellAssumption
<1>2. Len(e) = 0 /\ e \in Seq(Bytes) /\ a.tune = e
  OBVIOUS
<1>3. t = o \o <<0>>
  <2>1. <<Magic, Len(a.tune)>> \o a.tune = h
    <3>1. <<Magic, Len(a.tune)>> = h
      BY <1>2
    <3> HIDE DEF h
    <3>2. QED
      BY <1>1, <3>1, ConcatEmptySeq
  <2>2. QED
    BY <2>1, EmittedIs
<1> HIDE DEF h, q, e
<1>4. PICK X : /\ Laid(s, q, X, h)
               /\ \A i \in 1 .. Len(s) : LenOf(X[i]) = s[i].len
               /\ \A i \in Pos : i > Len(s) => X[i] = <<>>
  <2> DEFINE r == a.s
  <2>1. r \in Seq(Held)
    OBVIOUS
  <2> HIDE DEF r
  <2>2. \E X : /\ Laid(r, FlattenSeq(Shelves(r)), X, h)
               /\ \A i \in 1 .. Len(r) : LenOf(X[i]) = r[i].len
               /\ \A i \in Pos : i > Len(r) => X[i] = <<>>
    BY <1>1, <2>1, AllLaid
  <2>3. QED
    BY <2>2 DEF r, q
<1>5. /\ o \in Seq(Nat) /\ Agree(h, o, Len(h)) /\ Len(h) <= Len(o)
      /\ Tiles(X, o, Len(h), Len(o)) /\ Sized(X, Len(h), Len(o))
      /\ \A i \in 1 .. Len(s) : \A at \in Nat :
           at < LenOf(X[i]) => Shows(X[i], o, at) = s[i].data[at + 1]
  BY <1>4 DEF Laid
<1> HIDE DEF o
<1>6. Header(e, o)
  <2>1. o[1] = Magic /\ o[2] = 0
    BY <1>1, <1>5 DEF Agree
  <2>2. 0 <= TuneMax /\ 2 + 0 <= Len(o)
    BY <1>1, <1>5, CellAssumption
  <2>3. QED
    BY <1>2, <2>1, <2>2 DEF Header
<1>7. Tiles(X, o, 2 + Len(e), Len(o)) /\ Sized(X, 2 + Len(e), Len(o))
  <2>1. 2 + Len(e) = Len(h)
    BY <1>1, <1>2
  <2>2. QED
    BY <1>5, <2>1
<1>8. /\ m \in Nat /\ \A i \in 1 .. Len(s) : /\ s[i] \in Held /\ i \in Pos /\ s[i].len \in Nat \ {0}
                                             /\ s[i].len = LenOf(X[i])
  BY <1>4, LenProperties, ElementOfSeq, HeldFacts DEF Pos
<1>9. \A i \in Pos : X[i] # <<>> <=> i <= m
  <2>1. \A i \in 1 .. m : X[i] # <<>>
    BY <1>8, EmptyPacked
  <2>2. QED
    BY <1>4, <1>8, <2>1 DEF Pos
<1>10. Capped(X, m, e, o, t)
  <2> HIDE DEF m
  <2>1. QED
    BY <1>3, <1>5, <1>6, <1>7, <1>8, <1>9, Caps
<1>11. \A i \in 1 .. Len(s) : Shown(s[i], X[i], t)
  <2> SUFFICES ASSUME NEW i \in 1 .. Len(s) PROVE Shown(s[i], X[i], t)
    OBVIOUS
  <2> DEFINE st == s[i]
             n == Len(o)
  <2>1. st \in Held /\ i \in Pos /\ st.len = LenOf(X[i]) /\ st.len \in Nat
    BY <1>8
  <2>2. Agree(o, t, n) /\ n \in Nat /\ Tiles(X, o, 2, n)
    BY <1>1, <1>5, <1>10, LenProperties DEF Capped
  <2> HIDE DEF n, s
  <2>3. ASSUME NEW k \in 1 .. st.len PROVE ByteAt(st, k - 1, t) = Shows(X[i], t, k - 1)
    <3> DEFINE at == k - 1
    <3>1. at \in Nat /\ at < LenOf(X[i])
      BY <2>1
    <3>2. ByteAt(st, at, t) = st.data[at + 1]
      <4> HIDE DEF at, st
      <4>1. QED
        BY <2>1, HeldFacts
    <3> HIDE DEF at
    <3>3. Shows(X[i], o, at) = st.data[at + 1]
      BY <1>5, <3>1
    <3>4. Shows(X[i], t, at) = Shows(X[i], o, at)
      BY <2>1, <2>2, <3>1, ShowsStay
    <3>5. QED
      BY <3>2, <3>3, <3>4 DEF at
  <2>4. QED
    BY <2>1, <2>3 DEF Shown
<1>12. SealedBy(X, s, e, t)
  BY <1>10, <1>11 DEF SealedBy, Capped
<1>13. QED
  BY <1>2, <1>10, <1>12 DEF Sealed, Capped, e

-----------------------------------------------------------------------------
(* The invariant.                                                          *)

Kept == Stored \cup Held
Mades == [s : Seq(Kept), chunks : {<<>>}, tune : Seq(Bytes)]
Arcs == [s : Seq(ReadStreams), chunks : Seq(Chunks), tune : Seq(Nat)]
Phases ==
  {"begin", "streaming", "taking", "given", "sealed", "reading", "read", "fatal"}

IsArchive(o) == WellBegun(o) /\ \E P : Cut(o, P)

Typed ==
  /\ output \in Seq(Nat) /\ made \in Mades /\ arc \in Arcs /\ pos \in 0 .. Len(output)
  /\ phase \in Phases /\ foreign \in BOOLEAN
  /\ foreign => phase \in {"given", "reading", "read", "fatal"}
  /\ ~foreign => phase # "given"

(* The writer.                                                             *)
WritesWell ==
  /\ phase = "begin" => output = <<>> /\ made = Empty
  /\ phase = "streaming" => made.s \in Seq(Written) /\ Streamed(made.s, made.tune, output)
  /\ phase = "taking" => made.tune = <<>> /\ made.s \in Seq(Held)
  /\ ~foreign /\ phase \in {"sealed", "reading", "read"} => Sealed(made.s, made.tune, output)

(* The reader.                                                             *)
ReadsWell ==
  /\ phase \in {"begin", "streaming", "taking", "given", "sealed"} => arc = Empty /\ pos = 0
  /\ phase \in {"reading", "read"} => ReadTo(arc.s, arc.chunks, arc.tune, pos, output)
  /\ phase = "read" => /\ pos + 1 = Len(output) /\ output[Len(output)] = 0
                       /\ \A i \in DOMAIN arc.s : arc.s[i].len > 0
  /\ foreign /\ phase = "fatal" => ~IsArchive(output)

IInv == Typed /\ WritesWell /\ ReadsWell

(* A sequence over a set is one over any larger set.                       *)
LEMMA SeqOfMore ==
  ASSUME NEW S, NEW T, S \subseteq T, NEW s \in Seq(S)
  PROVE  s \in Seq(T)
<1>1. Len(s) \in Nat /\ s \in [1 .. Len(s) -> S]
  BY LenProperties
<1>2. s \in [1 .. Len(s) -> T]
  BY <1>1
<1>3. QED
  BY <1>1, <1>2

(* The kinds of streams, one in another.                                   *)
LEMMA WrittenStored == Written \subseteq Stored /\ Held \subseteq Kept /\ Stored \subseteq Kept
                       /\ Resting \subseteq Stored
BY DEF Written, Stored, Kept

(* An archive without streams.                                             *)
LEMMA EmptyIs == Empty \in Mades /\ Empty \in Arcs
BY EmptySeq DEF Empty, Mades, Arcs

(* The invariant holds at first.                                           *)
LEMMA InitInv == Init => IInv
<1> SUFFICES ASSUME Init PROVE IInv
  OBVIOUS
<1>1. made = Empty /\ arc = Empty /\ pos = 0
  BY DEF Init
<1>2. CASE output = <<>> /\ phase = "begin" /\ foreign = FALSE
  <2>1. output \in Seq(Nat) /\ Len(output) = 0
    BY <1>2, EmptySeq
  <2>31. pos \in 0 .. Len(output)
    BY <1>1, <2>1
  <2>2. Typed
    BY <1>1, <1>2, <2>1, <2>31, EmptyIs DEF Typed, Phases
  <2>3. WritesWell /\ ReadsWell
    BY <1>1, <1>2 DEF WritesWell, ReadsWell
  <2>4. QED
    BY <2>2, <2>3 DEF IInv
<1>3. CASE output \in Given /\ phase = "given" /\ foreign = TRUE
  <2>1. output \in Seq(Nat) /\ Len(output) \in Nat
    BY <1>3, GivenAssumption, LenProperties
  <2>2. Typed
    BY <1>1, <1>3, <2>1, EmptyIs DEF Typed, Phases
  <2>3. WritesWell /\ ReadsWell
    BY <1>1, <1>3 DEF WritesWell, ReadsWell
  <2>4. QED
    BY <2>2, <2>3 DEF IInv
<1>4. QED
  BY <1>2, <1>3 DEF Init

(* arc_begin keeps it.                                                     *)
LEMMA BeginInv == IInv /\ arc_begin => IInv'
<1> SUFFICES ASSUME IInv, arc_begin PROVE IInv'
  OBVIOUS
<1>1. PICK n \in 0 .. TuneMax : \E tune \in [1 .. n -> Bytes] :
        /\ made' = [made EXCEPT !.tune = tune]
        /\ output' = output \o <<Magic, n>> \o tune
  BY DEF arc_begin
<1>2. PICK tune \in [1 .. n -> Bytes] :
        /\ made' = [made EXCEPT !.tune = tune]
        /\ output' = output \o <<Magic, n>> \o tune
  BY <1>1
<1>3. /\ phase = "begin" /\ phase' = "streaming" /\ arc' = arc /\ pos' = pos /\ foreign' = foreign
      /\ output = <<>> /\ made = Empty /\ arc = Empty /\ pos = 0 /\ foreign = FALSE
  BY DEF arc_begin, IInv, Typed, WritesWell, ReadsWell
<1>4. /\ n \in Nat /\ n <= TuneMax /\ tune \in Seq(Bytes) /\ Len(tune) = n /\ tune \in Seq(Nat)
  <2>1. n \in Nat /\ n <= TuneMax
    BY CellAssumption
  <2>2. tune \in Seq(Bytes) /\ Len(tune) = n
    BY <2>1
  <2>3. QED
    BY <2>1, <2>2, CellAssumption, SeqOfMore
<1> DEFINE h == <<Magic, n>>
           s == <<>>
<1>5. h \in Seq(Nat) /\ Len(h) = 2 /\ h[1] = Magic /\ h[2] = n
  BY <1>4, CellAssumption
<1> HIDE DEF h
<1>6. output' = h \o tune
  <2>1. output' = (<<>> \o h) \o tune
    BY <1>2, <1>3 DEF h
  <2>2. <<>> \o h = h
    BY <1>5, ConcatEmptySeq
  <2>3. QED
    BY <2>1, <2>2
<1>7. /\ output' \in Seq(Nat) /\ Len(output') = 2 + n
      /\ \A k \in 1 .. 2 + n : output'[k] = IF k <= 2 THEN h[k] ELSE tune[k - 2]
  <2>1. /\ output' \in Seq(Nat) /\ Len(output') = Len(h) + Len(tune)
        /\ \A k \in 1 .. Len(h) + Len(tune) :
             output'[k] = IF k <= Len(h) THEN h[k] ELSE tune[k - Len(h)]
    BY <1>4, <1>5, <1>6, ConcatProperties
  <2>2. QED
    BY <1>4, <1>5, <2>1
<1>8. Header(tune, output')
  <2>1. 1 \in 1 .. 2 + n /\ 2 \in 1 .. 2 + n /\ 1 <= 2 /\ 2 <= 2
    BY <1>4
  <2>2. output'[1] = Magic /\ output'[2] = n
    BY <1>5, <1>7, <2>1
  <2>3. \A k \in 1 .. n : 2 + k \in 1 .. 2 + n /\ ~(2 + k <= 2) /\ (2 + k) - 2 = k
    BY <1>4
  <2>4. \A k \in 1 .. n : output'[2 + k] = tune[k]
    BY <1>7, <2>3
  <2>5. 2 + n <= Len(output')
    BY <1>4, <1>7
  <2>6. QED
    BY <1>4, <2>2, <2>4, <2>5 DEF Header
<1>9. Streamed(s, tune, output')
  <2>1. s \in Seq(Stored) /\ Exts(s) = [i \in Pos |-> <<>>]
    <3>1. DOMAIN <<>> = {}
      OBVIOUS
    <3>2. QED
      BY <3>1, EmptySeq DEF Exts
  <2> DEFINE X == Exts(s)
             a == 2 + n
  <2>2. a \in Nat /\ a = 2 + Len(tune) /\ a = Len(output')
    BY <1>4, <1>7
  <2> HIDE DEF X, a, s
  <2>3. Tiles(X, output', a, a) /\ Sized(X, a, a)
    BY <2>1, <2>2, TilesNone, SizedNone DEF X
  <2>4. QED
    BY <1>7, <1>8, <2>1, <2>2, <2>3 DEF Streamed, X
<1>10. made' = [s |-> s, chunks |-> <<>>, tune |-> tune]
  BY <1>2, <1>3 DEF Empty
<1>11. s \in Seq(Written) /\ s \in Seq(Kept)
  BY EmptySeq
<1> HIDE DEF s
<1>12. made'.s = s /\ made'.tune = tune /\ made' \in Mades
  BY <1>4, <1>10, <1>11 DEF Mades
<1>13. WritesWell'
  BY <1>3, <1>9, <1>11, <1>12 DEF WritesWell
<1>14. Typed'
  <2>1. 2 + n \in Nat /\ 0 \in 0 .. 2 + n
    BY <1>4
  <2>2. pos' \in 0 .. Len(output')
    BY <1>3, <1>7, <2>1
  <2>3. QED
    BY <1>3, <1>7, <1>12, <2>2, EmptyIs DEF Typed, Phases
<1>15. ReadsWell'
  BY <1>3 DEF ReadsWell
<1>16. QED
  BY <1>13, <1>14, <1>15 DEF IInv

(* While it is streamed, the archive stays one.                            *)
StreamsOn(t, u) ==
  /\ phase = "streaming" /\ phase' = "streaming"
  /\ UNCHANGED <<arc, pos, foreign>>
  /\ made' = [made EXCEPT !.s = t] /\ output' = u
  /\ t \in Seq(Written) /\ Streamed(t, made.tune, u)

(* Any step that keeps the archive streamed keeps it.                      *)
LEMMA StreamingInv == \A t, u : IInv /\ StreamsOn(t, u) => IInv'
<1> SUFFICES ASSUME NEW t, NEW u, IInv, StreamsOn(t, u) PROVE IInv'
  OBVIOUS
<1>1. /\ phase = "streaming" /\ phase' = "streaming"
      /\ arc' = arc /\ pos' = pos /\ foreign' = foreign
      /\ made' = [made EXCEPT !.s = t] /\ output' = u
      /\ t \in Seq(Written) /\ Streamed(t, made.tune, u)
  BY DEF StreamsOn
<1>2. /\ made \in Mades /\ foreign = FALSE /\ arc \in Arcs /\ arc = Empty /\ pos = 0
  BY <1>1 DEF IInv, Typed, ReadsWell
<1>3. t \in Seq(Kept)
  <2>1. Written \subseteq Kept
    BY WrittenStored
  <2>2. QED
    BY <1>1, <2>1, SeqOfMore
<1>4. made' \in Mades /\ made'.s = t /\ made'.tune = made.tune
  BY <1>1, <1>2, <1>3 DEF Mades
<1>5. WritesWell'
  BY <1>1, <1>4 DEF WritesWell
<1>6. ReadsWell'
  BY <1>1, <1>2 DEF ReadsWell
<1>7. u \in Seq(Nat) /\ 0 \in 0 .. Len(u)
  <2>1. u \in Seq(Nat)
    BY <1>1 DEF Streamed
  <2>2. Len(u) \in Nat
    BY <2>1, LenProperties
  <2>3. QED
    BY <2>1, <2>2
<1>8. Typed'
  BY <1>1, <1>2, <1>4, <1>7 DEF Typed, Phases
<1>9. QED
  BY <1>5, <1>6, <1>8 DEF IInv

(* A stream replaced in place, in either form.                             *)
LEMMA SetOne == \A i, w : [made EXCEPT !.s[i] = w] = [made EXCEPT !.s = With(made.s, i, w)]
BY DEF With

(* The streams of an archive that is streamed, and where they are.         *)
LEMMA NowStreaming ==
  IInv /\ phase = "streaming" =>
    /\ made.s \in Seq(Written) /\ Streamed(made.s, made.tune, output)
    /\ Len(made.s) \in Nat /\ DOMAIN made.s = 1 .. Len(made.s)
    /\ made \in Mades /\ output \in Seq(Nat)
BY LenProperties DEF IInv, Typed, WritesWell

(* arc_newstream keeps the invariant.                                      *)
LEMMA NewStreamInv == IInv /\ arc_newstream => IInv'
<1> SUFFICES ASSUME IInv, arc_newstream PROVE IInv'
  OBVIOUS
<1>1. /\ phase = "streaming" /\ phase' = phase /\ UNCHANGED <<arc, pos, foreign>>
      /\ made' = [made EXCEPT !.s = Append(@, Stream(<<>>))] /\ output' = output
  BY DEF arc_newstream
<1>2. made.s \in Seq(Written) /\ Streamed(made.s, made.tune, output)
  BY <1>1, NowStreaming
<1> DEFINE t == Append(made.s, Stream(<<>>))
<1>3. Streamed(t, made.tune, output) /\ Stream(<<>>) \in Written
  BY <1>2, NewStep
<1>4. t \in Seq(Written)
  BY <1>2, <1>3, AppendProperties
<1>5. made' = [made EXCEPT !.s = t]
  BY <1>1
<1> HIDE DEF t
<1>6. StreamsOn(t, output)
  BY <1>1, <1>3, <1>4, <1>5 DEF StreamsOn
<1>7. QED
  BY <1>6, StreamingInv

(* What bf_put does to the streams.                                        *)
LEMMA PutGoes ==
  IInv /\ bf_put =>
    \E i \in DOMAIN made.s, b \in Bytes : \E t, u :
      ~made.s[i].done /\ Puts(made.s, i, output, b, t, u) /\ StreamsOn(t, u)
<1> SUFFICES ASSUME IInv, bf_put
             PROVE \E i \in DOMAIN made.s, b \in Bytes : \E t, u :
                     ~made.s[i].done /\ Puts(made.s, i, output, b, t, u) /\ StreamsOn(t, u)
  OBVIOUS
<1>1. phase = "streaming" /\ arc' = arc /\ pos' = pos /\ foreign' = foreign
  BY DEF bf_put
<1> DEFINE s == made.s
           M(i) == IF NeedsWindow(s[i])
                     THEN Flushed(i, s[i], output) ELSE [st |-> s[i], out |-> output]
           W(i) == IF NeedsWindow(s[i]) THEN Opened(M(i).st) ELSE s[i]
<1>2. PICK i \in DOMAIN s, b \in Bytes :
        /\ ~s[i].done
        /\ IF NeedsWindow(s[i]) /\ ~Appends(s[i])
             THEN phase' = "fatal" /\ UNCHANGED <<output, made>>
             ELSE /\ output' = M(i).out
                  /\ made' = [made EXCEPT !.s[i] =
                                [W(i) EXCEPT !.buf = Append(@, b), !.len = @ + 1, !.dirty = TRUE]]
                  /\ UNCHANGED phase
  BY DEF bf_put
<1>3. M(i) = Moved(i, s[i], output) /\ W(i) = Window(i, s[i], output)
  BY DEF Moved, Window
<1> HIDE DEF M, W
<1>4. /\ s \in Seq(Written) /\ Streamed(s, made.tune, output) /\ i \in 1 .. Len(s)
  BY <1>1, NowStreaming
<1> DEFINE t == With(s, i, Put(Window(i, s[i], output), b))
           u == Moved(i, s[i], output).out
<1>5. Puts(s, i, output, b, t, u)
  BY DEF Puts
<1> HIDE DEF t, u
<1>6. Appends(s[i]) /\ Streamed(t, made.tune, u) /\ t \in Seq(Written)
  <2> HIDE DEF s
  <2>1. QED
    BY <1>2, <1>4, <1>5, PutStep
<1>7. /\ output' = u /\ phase' = phase
      /\ made' = [made EXCEPT !.s[i] = Put(Window(i, s[i], output), b)]
  <2>1. ~(NeedsWindow(s[i]) /\ ~Appends(s[i]))
    BY <1>6
  <2>2. /\ output' = M(i).out
        /\ made' = [made EXCEPT !.s[i] =
                      [W(i) EXCEPT !.buf = Append(@, b), !.len = @ + 1, !.dirty = TRUE]]
        /\ phase' = phase
    BY <1>2, <2>1
  <2>3. QED
    BY <1>3, <2>2 DEF u, Put
<1>8. made' = [made EXCEPT !.s = t]
  BY <1>7, SetOne DEF t
<1>9. StreamsOn(t, u)
  BY <1>1, <1>6, <1>7, <1>8 DEF StreamsOn
<1>10. QED
  BY <1>2, <1>5, <1>9

(* bf_put keeps the invariant.                                             *)
LEMMA PutInv == IInv /\ bf_put => IInv'
BY PutGoes, StreamingInv

(* What bf_dropcache does to them.                                         *)
LEMMA DropGoes ==
  IInv /\ bf_dropcache =>
    \E i \in DOMAIN made.s : \E t, u : Drops(made.s, i, output, t, u) /\ StreamsOn(t, u)
<1> SUFFICES ASSUME IInv, bf_dropcache
             PROVE \E i \in DOMAIN made.s : \E t, u :
                     Drops(made.s, i, output, t, u) /\ StreamsOn(t, u)
  OBVIOUS
<1>1. phase = "streaming" /\ arc' = arc /\ pos' = pos /\ foreign' = foreign
  BY DEF bf_dropcache
<1> DEFINE s == made.s
           R(i) == Flushed(i, s[i], output)
<1>2. PICK i \in DOMAIN s :
        IF Appends(s[i])
          THEN /\ output' = R(i).out
               /\ made' = [made EXCEPT !.s[i] = [R(i).st EXCEPT !.live = FALSE, !.done = TRUE]]
               /\ UNCHANGED phase
          ELSE phase' = "fatal" /\ UNCHANGED <<output, made>>
  BY DEF bf_dropcache
<1>3. s \in Seq(Written) /\ Streamed(s, made.tune, output) /\ i \in 1 .. Len(s)
  BY <1>1, NowStreaming
<1> DEFINE t == With(s, i, Dropped(R(i).st))
           u == R(i).out
<1>4. Drops(s, i, output, t, u)
  BY DEF Drops
<1> HIDE DEF t, u, R
<1>5. Appends(s[i]) /\ Streamed(t, made.tune, u) /\ t \in Seq(Written)
  <2> HIDE DEF s
  <2>1. QED
    BY <1>3, <1>4, DropStep
<1>6. output' = u /\ phase' = phase /\ made' = [made EXCEPT !.s[i] = Dropped(R(i).st)]
  BY <1>2, <1>5 DEF u, Dropped
<1>7. made' = [made EXCEPT !.s = t]
  BY <1>6, SetOne DEF t
<1>8. StreamsOn(t, u)
  BY <1>1, <1>5, <1>6, <1>7 DEF StreamsOn
<1>9. QED
  BY <1>4, <1>8

(* bf_dropcache keeps the invariant.                                       *)
LEMMA DropInv == IInv /\ bf_dropcache => IInv'
BY DropGoes, StreamingInv

(* What arc_finish does: the archive is sealed, or has an empty stream.    *)
FinishOf(all) ==
  /\ phase = "streaming" /\ UNCHANGED <<arc, pos, foreign>>
  /\ all = Finished(made.s, output)
  /\ Streamed(all.s, made.tune, all.out) /\ all.s \in Seq(Resting)
  /\ Len(all.s) = Len(made.s) /\ SameBytes(made.s, output, all.s, all.out)
  /\ \A i \in 1 .. Len(made.s) : made.s[i].len \in Nat
  /\ \/ /\ \A i \in 1 .. Len(made.s) : made.s[i].len > 0
        /\ made' = [made EXCEPT !.s = all.s] /\ output' = Append(all.out, 0) /\ phase' = "sealed"
     \/ /\ \E i \in 1 .. Len(made.s) : made.s[i].len = 0
        /\ phase' = "fatal" /\ UNCHANGED <<output, made>>

(* arc_finish is such a step.                                              *)
LEMMA FinishGoes == IInv /\ arc_finish => \E all : FinishOf(all)
<1> SUFFICES ASSUME IInv, arc_finish PROVE \E all : FinishOf(all)
  OBVIOUS
<1> DEFINE s == made.s
           all == Finished(s, output)
<1>1. phase = "streaming" /\ UNCHANGED <<arc, pos, foreign>>
  BY DEF arc_finish
<1>2. IF \A i \in DOMAIN s : s[i].len > 0 /\ Appends(s[i])
        THEN /\ made' = [made EXCEPT !.s = all.s]
             /\ output' = Append(all.out, 0)
             /\ phase' = "sealed"
        ELSE phase' = "fatal" /\ UNCHANGED <<output, made>>
  BY DEF arc_finish, Finished
<1>3. /\ s \in Seq(Written) /\ Streamed(s, made.tune, output) /\ DOMAIN s = 1 .. Len(s)
  BY <1>1, NowStreaming
<1>4. s \in Seq(Stored)
  BY <1>3 DEF Streamed
<1>5. \A i \in 1 .. Len(s) : Appends(s[i]) /\ s[i].len \in Nat
  BY <1>4, StoredFacts, ElementOfSeq
<1>31. all = Finished(s, output)
  OBVIOUS
<1> HIDE DEF all
<1>6. /\ Streamed(all.s, made.tune, all.out) /\ all.s \in Seq(Resting) /\ Len(all.s) = Len(s)
      /\ SameBytes(s, output, all.s, all.out)
  <2> HIDE DEF s
  <2>1. QED
    BY <1>3, <1>4, <1>31, FinishStep
<1>7. CASE \A i \in 1 .. Len(s) : s[i].len > 0
  <2>1. FinishOf(all)
    BY <1>1, <1>2, <1>3, <1>5, <1>6, <1>7, <1>31 DEF FinishOf
  <2>2. QED
    BY <2>1
<1>8. CASE \E i \in 1 .. Len(s) : ~(s[i].len > 0)
  <2>1. \E i \in 1 .. Len(s) : s[i].len = 0
    BY <1>5, <1>8
  <2>2. phase' = "fatal" /\ UNCHANGED <<output, made>>
    BY <1>2, <1>3, <1>8
  <2>3. FinishOf(all)
    BY <1>1, <1>5, <1>6, <1>31, <2>1, <2>2 DEF FinishOf
  <2>4. QED
    BY <2>3
<1>9. QED
  BY <1>7, <1>8

(* arc_finish keeps the invariant.                                         *)
LEMMA FinishInv == IInv /\ arc_finish => IInv'
<1> SUFFICES ASSUME IInv, arc_finish PROVE IInv'
  OBVIOUS
<1>1. PICK all : FinishOf(all)
  BY FinishGoes
<1>2. /\ phase = "streaming" /\ arc' = arc /\ pos' = pos /\ foreign' = foreign
      /\ Streamed(all.s, made.tune, all.out) /\ all.s \in Seq(Resting)
      /\ Len(all.s) = Len(made.s) /\ SameBytes(made.s, output, all.s, all.out)
  BY <1>1 DEF FinishOf
<1>3. /\ made \in Mades /\ foreign = FALSE /\ arc \in Arcs /\ arc = Empty /\ pos = 0
      /\ output \in Seq(Nat) /\ pos \in 0 .. Len(output)
  BY <1>2 DEF IInv, Typed, ReadsWell
<1>4. CASE /\ \A i \in 1 .. Len(made.s) : made.s[i].len > 0
           /\ made' = [made EXCEPT !.s = all.s] /\ output' = Append(all.out, 0)
           /\ phase' = "sealed"
  <2> DEFINE t == all.s
             o == all.out
             u == Append(o, 0)
  <2>1. \A i \in 1 .. Len(t) : t[i].len > 0
    BY <1>2, <1>4 DEF SameBytes, Same
  <2>2. Sealed(t, made.tune, u) /\ u \in Seq(Nat)
    <3> HIDE DEF t, o
    <3>1. t \in Seq(Resting) /\ Streamed(t, made.tune, o)
      BY <1>2 DEF t, o
    <3>2. QED
      BY <2>1, <3>1, FinishSeals
  <2>3. t \in Seq(Kept)
    <3>1. Resting \subseteq Kept
      BY WrittenStored
    <3>2. QED
      BY <1>2, <3>1, SeqOfMore
  <2> HIDE DEF t, u
  <2>4. made' = [made EXCEPT !.s = t] /\ output' = u /\ phase' = "sealed"
    BY <1>4 DEF t, u
  <2>5. made' \in Mades /\ made'.s = t /\ made'.tune = made.tune
    BY <1>3, <2>3, <2>4 DEF Mades
  <2>6. 0 \in 0 .. Len(u)
    BY <2>2, LenProperties
  <2>7. Typed'
    BY <1>2, <1>3, <2>2, <2>4, <2>5, <2>6 DEF Typed, Phases
  <2>8. WritesWell'
    BY <2>2, <2>4, <2>5 DEF WritesWell
  <2>9. ReadsWell'
    BY <1>2, <1>3, <2>4 DEF ReadsWell
  <2>10. QED
    BY <2>7, <2>8, <2>9 DEF IInv
<1>5. CASE phase' = "fatal" /\ UNCHANGED <<output, made>>
  <2>1. Typed'
    BY <1>2, <1>3, <1>5 DEF Typed, Phases
  <2>2. WritesWell' /\ ReadsWell'
    BY <1>2, <1>3, <1>5 DEF WritesWell, ReadsWell
  <2>3. QED
    BY <2>1, <2>2 DEF IInv
<1>6. QED
  BY <1>1, <1>4, <1>5 DEF FinishOf

(* An archive of whole streams.                                            *)
LEMMA TakeGoes ==
  IInv /\ arc_take =>
    \E n \in 1 .. ByteMax : \E data \in [1 .. n -> Bytes] :
      /\ Len(made.s) < StreamMax /\ made.s \in Seq(Held) /\ made.tune = <<>>
      /\ made' = [made EXCEPT !.s = Append(@, Stream(data))]
      /\ Stream(data) \in Held /\ data \in Seq(Bytes)
<1> SUFFICES ASSUME IInv, arc_take
             PROVE  \E n \in 1 .. ByteMax : \E data \in [1 .. n -> Bytes] :
                      /\ Len(made.s) < StreamMax /\ made.s \in Seq(Held) /\ made.tune = <<>>
                      /\ made' = [made EXCEPT !.s = Append(@, Stream(data))]
                      /\ Stream(data) \in Held /\ data \in Seq(Bytes)
  OBVIOUS
<1>1. PICK n \in 1 .. ByteMax : \E data \in [1 .. n -> Bytes] :
        made' = [made EXCEPT !.s = Append(@, Stream(data))]
  BY DEF arc_take
<1>2. PICK data \in [1 .. n -> Bytes] : made' = [made EXCEPT !.s = Append(@, Stream(data))]
  BY <1>1
<1>3. n \in Nat \ {0}
  OBVIOUS
<1>4. data \in Seq(Bytes) /\ Len(data) = n
  BY <1>3
<1>5. data # <<>>
  <2> SUFFICES ASSUME data = <<>> PROVE FALSE
    OBVIOUS
  <2>1. Len(data) = 0
    BY EmptySeq
  <2>2. QED
    BY <1>3, <1>4, <2>1
<1>6. Stream(data) \in Held
  BY <1>4, <1>5 DEF Held
<1>7. Len(made.s) < StreamMax
  BY DEF arc_take
<1>8. made.s \in Seq(Held) /\ made.tune = <<>>
  <2>1. phase \in {"begin", "taking"}
    BY DEF arc_take
  <2>2. CASE phase = "begin"
    <3>1. made.s = <<>> /\ made.tune = <<>>
      BY <2>2 DEF IInv, WritesWell, Empty
    <3>2. QED
      BY <3>1, EmptySeq
  <2>3. CASE phase = "taking"
    BY <2>3 DEF IInv, WritesWell
  <2>4. QED
    BY <2>1, <2>2, <2>3
<1>9. QED
  BY <1>2, <1>4, <1>6, <1>7, <1>8

(* arc_take keeps the invariant.                                           *)
LEMMA TakeInv == IInv /\ arc_take => IInv'
<1> SUFFICES ASSUME IInv, arc_take PROVE IInv'
  OBVIOUS
<1>1. PICK n \in 1 .. ByteMax : \E data \in [1 .. n -> Bytes] :
        /\ made.s \in Seq(Held) /\ made.tune = <<>>
        /\ made' = [made EXCEPT !.s = Append(@, Stream(data))]
        /\ Stream(data) \in Held
  BY TakeGoes
<1>2. PICK data \in [1 .. n -> Bytes] :
        /\ made.s \in Seq(Held) /\ made.tune = <<>>
        /\ made' = [made EXCEPT !.s = Append(@, Stream(data))]
        /\ Stream(data) \in Held
  BY <1>1
<1>3. /\ phase \in {"begin", "taking"} /\ phase' = "taking"
      /\ output' = output /\ arc' = arc /\ pos' = pos /\ foreign' = foreign
  BY DEF arc_take
<1>4. /\ made \in Mades /\ foreign = FALSE /\ arc \in Arcs /\ arc = Empty /\ pos = 0
      /\ output \in Seq(Nat) /\ pos \in 0 .. Len(output)
  BY <1>3 DEF IInv, Typed, ReadsWell
<1> DEFINE t == Append(made.s, Stream(data))
<1>5. t \in Seq(Held)
  BY <1>2, AppendProperties
<1>6. made' = [made EXCEPT !.s = t]
  BY <1>2
<1> HIDE DEF t
<1>7. t \in Seq(Kept)
  BY <1>5, WrittenStored, SeqOfMore
<1>8. made' \in Mades /\ made'.s = t /\ made'.tune = made.tune
  BY <1>4, <1>6, <1>7 DEF Mades
<1>9. Typed'
  BY <1>3, <1>4, <1>8 DEF Typed, Phases
<1>10. WritesWell' /\ ReadsWell'
  BY <1>2, <1>3, <1>4, <1>5, <1>8 DEF WritesWell, ReadsWell
<1>11. QED
  BY <1>9, <1>10 DEF IInv

(* arc_write keeps the invariant.                                          *)
LEMMA WriteInv == IInv /\ arc_write => IInv'
<1> SUFFICES ASSUME IInv, arc_write PROVE IInv'
  OBVIOUS
<1>1. /\ phase = "taking" /\ phase' = "sealed" /\ output' = Emitted(made)
      /\ made' = made /\ arc' = arc /\ pos' = pos /\ foreign' = foreign
  BY DEF arc_write
<1>2. /\ made \in Mades /\ foreign = FALSE /\ arc \in Arcs /\ arc = Empty /\ pos = 0
      /\ made.tune = <<>> /\ made.s \in Seq(Held) /\ made.chunks = <<>>
  BY <1>1 DEF IInv, Typed, WritesWell, ReadsWell, Mades
<1> DEFINE u == Emitted(made)
<1>3. output' = u
  BY <1>1
<1>4. Sealed(made.s, made.tune, u) /\ u \in Seq(Nat)
  BY <1>2, WriteSeals
<1> HIDE DEF u
<1>5. 0 \in 0 .. Len(u)
  BY <1>4, LenProperties
<1>6. Typed'
  BY <1>1, <1>2, <1>3, <1>4, <1>5 DEF Typed, Phases
<1>7. WritesWell' /\ ReadsWell'
  BY <1>1, <1>2, <1>3, <1>4 DEF WritesWell, ReadsWell
<1>8. QED
  BY <1>6, <1>7 DEF IInv

(* The header of an archive is one the reader accepts.                     *)
Starting(o) == Len(o) >= 2 /\ o[1] = Magic /\ o[2] <= TuneMax /\ o[2] <= Len(o) - 2

(* An archive has such a header.                                           *)
LEMMA ArchiveStarts ==
  ASSUME NEW o \in Seq(Nat), IsArchive(o)
  PROVE  Starting(o)
<1>1. WellBegun(o) /\ \E P : Cut(o, P)
  BY DEF IsArchive
<1>2. PICK P : Cut(o, P)
  BY <1>1
<1>3. Len(o) \in Nat /\ Len(o) >= 3 /\ o[1] = Magic /\ o[2] <= TuneMax
  BY <1>1, LenProperties DEF WellBegun
<1>4. o[2] \in Nat
  BY <1>3, ElementOfSeq
<1> DEFINE first == 2 + o[2]
           last == Len(o) - 1
<1>5. first \in P => first < last
  <2> SUFFICES ASSUME first \in P PROVE first < last
    OBVIOUS
  <2> DEFINE p == first
  <2>1. p \in P
    OBVIOUS
  <2> HIDE DEF p
  <2>2. p \in Nat /\ p + 2 < last
    BY <1>1, <1>2, <2>1, CutFacts DEF CutAt
  <2>3. p < last
    BY <1>3, <2>2
  <2>4. QED
    BY <2>3 DEF p
<1>6. first = last \/ first \in P
  BY <1>2 DEF Cut
<1>7. o[2] <= Len(o) - 2
  BY <1>3, <1>4, <1>5, <1>6
<1>8. QED
  BY <1>3, <1>7 DEF Starting

(* arc_read accepts the header or refuses the file.                        *)
LEMMA ReadGoes ==
  IInv /\ arc_read =>
    \/ /\ Starting(output) /\ phase' = "reading"
       /\ arc' = [arc EXCEPT !.tune = SubSeq(output, 3, 2 + output[2])] /\ pos' = 2 + output[2]
    \/ ~Starting(output) /\ phase' = "fatal" /\ UNCHANGED <<arc, pos>>
<1>1. Cell(0) = output[1] /\ Cell(1) = output[2]
  BY DEF Cell
<1>2. QED
  BY <1>1 DEF arc_read, Starting

(* arc_read keeps the invariant.                                           *)
LEMMA ReadInv == IInv /\ arc_read => IInv'
<1> SUFFICES ASSUME IInv, arc_read PROVE IInv'
  OBVIOUS
<1>1. /\ phase \in {"sealed", "given"} /\ output' = output /\ made' = made /\ foreign' = foreign
  BY DEF arc_read
<1>2. /\ made \in Mades /\ arc \in Arcs /\ arc = Empty /\ pos = 0 /\ output \in Seq(Nat)
      /\ pos \in 0 .. Len(output) /\ foreign \in BOOLEAN
      /\ foreign => phase = "given"
      /\ ~foreign => phase = "sealed" /\ Sealed(made.s, made.tune, output)
  BY <1>1 DEF IInv, Typed, WritesWell, ReadsWell
<1>3. CASE /\ Starting(output) /\ phase' = "reading"
           /\ arc' = [arc EXCEPT !.tune = SubSeq(output, 3, 2 + output[2])]
           /\ pos' = 2 + output[2]
  <2> DEFINE tune == SubSeq(output, 3, 2 + output[2])
             n == 2 + output[2]
             e == <<>>
  <2>1. ReadTo(e, e, tune, n, output)
    BY <1>2, <1>3, ReadStart DEF Starting
  <2>2. tune \in Seq(Nat) /\ n \in 0 .. Len(output)
    <3>1. tune \in Seq(Nat) /\ n \in Nat /\ n <= Len(output)
      BY <2>1 DEF ReadTo
    <3>2. Len(output) \in Nat
      BY <1>2, LenProperties
    <3>3. QED
      BY <3>1, <3>2
  <2>3. arc' = [arc EXCEPT !.tune = tune] /\ pos' = n /\ arc = [s |-> e, chunks |-> e, tune |-> e]
    BY <1>2, <1>3 DEF Empty
  <2>4. e \in Seq(ReadStreams) /\ e \in Seq(Chunks)
    BY EmptySeq
  <2> HIDE DEF tune, n, e
  <2>5. /\ arc' \in Arcs /\ arc'.s = e /\ arc'.chunks = e /\ arc'.tune = tune
    BY <2>2, <2>3, <2>4 DEF Arcs
  <2>6. Typed'
    BY <1>1, <1>2, <1>3, <2>2, <2>3, <2>5 DEF Typed, Phases
  <2>7. WritesWell'
    BY <1>1, <1>2, <1>3 DEF WritesWell
  <2>8. ReadsWell'
    BY <1>1, <1>3, <2>1, <2>3, <2>5 DEF ReadsWell
  <2>9. QED
    BY <2>6, <2>7, <2>8 DEF IInv
<1>4. CASE ~Starting(output) /\ phase' = "fatal" /\ arc' = arc /\ pos' = pos
  <2>1. ~IsArchive(output)
    BY <1>2, <1>4, ArchiveStarts
  <2>2. Typed'
    BY <1>1, <1>2, <1>4 DEF Typed, Phases
  <2>3. WritesWell' /\ ReadsWell'
    BY <1>1, <1>2, <1>4, <2>1 DEF WritesWell, ReadsWell
  <2>4. QED
    BY <2>2, <2>3 DEF IInv
<1>5. QED
  BY <1>3, <1>4, ReadGoes

(* What one round of the reader does: it ends, goes on, or refuses.        *)
Ends(o, s, n) ==
  /\ n + 1 = Len(o) /\ o[n + 1] = 0 /\ \A i \in DOMAIN s : s[i].len > 0

TakesOne(o, s, n, id, l) ==
  /\ id = o[n + 1] /\ l = o[n + 2] /\ id \in Pos /\ l \in 1 .. Chunk /\ n + 2 + l <= Len(o)
  /\ id <= Len(s) => s[id].len % Chunk = 0

(* What is refused is not an archive.                                      *)
LEMMA RoundGoes ==
  IInv /\ chunk_read =>
    \/ Ends(output, arc.s, pos) /\ phase' = "read" /\ UNCHANGED <<arc, pos>>
    \/ \E id, l, g, t, c :
         /\ TakesOne(output, arc.s, pos, id, l) /\ g = Grown(arc.s, id)
         /\ t = ReadAlso(arc.s, id, pos + 2, l)
         /\ c = [stream |-> id, off |-> g[id].len, len |-> l]
         /\ arc' = [[arc EXCEPT !.s = t] EXCEPT !.chunks = Append(arc.chunks, c)]
         /\ pos' = pos + 2 + l /\ phase' = phase
    \/ ~IsArchive(output) /\ phase' = "fatal" /\ UNCHANGED <<arc, pos>>
<1> SUFFICES ASSUME IInv, chunk_read
             PROVE
    \/ Ends(output, arc.s, pos) /\ phase' = "read" /\ UNCHANGED <<arc, pos>>
    \/ \E id, l, g, t, c :
         /\ TakesOne(output, arc.s, pos, id, l) /\ g = Grown(arc.s, id)
         /\ t = ReadAlso(arc.s, id, pos + 2, l)
         /\ c = [stream |-> id, off |-> g[id].len, len |-> l]
         /\ arc' = [[arc EXCEPT !.s = t] EXCEPT !.chunks = Append(arc.chunks, c)]
         /\ pos' = pos + 2 + l /\ phase' = phase
    \/ ~IsArchive(output) /\ phase' = "fatal" /\ UNCHANGED <<arc, pos>>
  OBVIOUS
<1>1. /\ phase = "reading" /\ output \in Seq(Nat) /\ pos \in 0 .. Len(output) /\ arc \in Arcs
      /\ ReadTo(arc.s, arc.chunks, arc.tune, pos, output)
  BY DEF chunk_read, IInv, Typed, ReadsWell
<1>2. pos \in Nat /\ Len(output) \in Nat
  BY <1>1, LenProperties
<1> DEFINE left == Len(output) - pos
           id == Cell(pos)
           len == Cell(pos + 1)
           ends == left >= 1 /\ id = 0 /\ LegalEnd(pos + 1)
           goes == left >= 2 /\ id > 0 /\ LegalChunk(arc.s, id, len, left - 2)
           s == Grown(arc.s, id)
<1>3. \/ ends /\ phase' = "read" /\ UNCHANGED <<arc, pos>>
      \/ /\ goes
         /\ arc' = [arc EXCEPT
                      !.s = [s EXCEPT ![id] = bf_extent_add(@, pos + 2, len)],
                      !.chunks = Append(@, [stream |-> id, off |-> s[id].len, len |-> len])]
         /\ pos' = pos + 2 + len
         /\ phase' = phase
      \/ ~ends /\ ~goes /\ phase' = "fatal" /\ UNCHANGED <<arc, pos>>
  BY DEF chunk_read
<1>4. id = output[pos + 1] /\ len = output[pos + 2]
  <2>1. (pos + 1) + 1 = pos + 2
    BY <1>2
  <2>2. QED
    BY <2>1 DEF Cell
<1>5. left \in Int /\ left = Len(output) - pos
  BY <1>2
<1> HIDE DEF left, id, len
<1>6. ends <=> Ends(output, arc.s, pos)
  <2>1. pos + 1 = Len(output) => left >= 1
    BY <1>2, <1>5
  <2>2. QED
    BY <1>4, <2>1 DEF Ends, LegalEnd
<1>7. CASE ends /\ phase' = "read" /\ UNCHANGED <<arc, pos>>
  BY <1>6, <1>7
<1>8. CASE /\ goes
           /\ arc' = [arc EXCEPT
                        !.s = [s EXCEPT ![id] = bf_extent_add(@, pos + 2, len)],
                        !.chunks = Append(@, [stream |-> id, off |-> s[id].len, len |-> len])]
           /\ pos' = pos + 2 + len
           /\ phase' = phase
  <2> DEFINE t == ReadAlso(arc.s, id, pos + 2, len)
             c == [stream |-> id, off |-> s[id].len, len |-> len]
             q == Append(arc.chunks, c)
             x == [s EXCEPT ![id] = bf_extent_add(@, pos + 2, len)]
  <2>1. id > 0 /\ len \in 1 .. Chunk /\ len <= left - 2
        /\ (id <= Len(arc.s) => arc.s[id].len % Chunk = 0)
    BY <1>8 DEF LegalChunk
  <2>2. id \in Pos
    <3>1. pos + 1 \in 1 .. Len(output)
      <4>1. left >= 2
        BY <1>8
      <4>2. QED
        BY <1>2, <1>5, <4>1
    <3>2. id \in Nat
      BY <1>1, <1>4, <3>1, ElementOfSeq
    <3>3. QED
      BY <2>1, <3>2 DEF Pos
  <2>3. pos + 2 + len <= Len(output)
    <3>1. len \in Nat
      BY <2>1, ChunkAssumption
    <3>2. QED
      BY <1>2, <1>5, <2>1, <3>1
  <2>4. TakesOne(output, arc.s, pos, id, len)
    BY <1>4, <2>1, <2>2, <2>3 DEF TakesOne
  <2>5. arc' = [arc EXCEPT !.s = x, !.chunks = q]
    BY <1>8
  <2>6. x = t
    BY DEF ReadAlso
  <2> HIDE DEF t, q, x
  <2>7. [arc EXCEPT !.s = x, !.chunks = q] = [[arc EXCEPT !.s = x] EXCEPT !.chunks = q]
    OBVIOUS
  <2>8. arc' = [[arc EXCEPT !.s = t] EXCEPT !.chunks = q]
    BY <2>5, <2>6, <2>7
  <2>9. s = Grown(arc.s, id) /\ t = ReadAlso(arc.s, id, pos + 2, len) /\ q = Append(arc.chunks, c)
    BY DEF t, q
  <2> HIDE DEF s
  <2>10. /\ c = [stream |-> id, off |-> s[id].len, len |-> len]
         /\ arc' = [[arc EXCEPT !.s = t] EXCEPT !.chunks = Append(arc.chunks, c)]
    BY <2>8, <2>9
  <2> HIDE DEF c
  <2>11. pos' = pos + 2 + len /\ phase' = phase
    BY <1>8
  <2>12. QED
    BY <2>4, <2>9, <2>10, <2>11
<1>9. CASE ~ends /\ ~goes /\ phase' = "fatal" /\ UNCHANGED <<arc, pos>>
  <2> SUFFICES ASSUME IsArchive(output) PROVE FALSE
    BY <1>9
  <2>1. PICK P : Cut(output, P)
    BY DEF IsArchive
  <2>2. \/ /\ Len(output) - pos >= 2 /\ output[pos + 1] > 0
           /\ LegalChunk(arc.s, output[pos + 1], output[pos + 2], Len(output) - pos - 2)
        \/ /\ pos + 1 = Len(output) /\ output[pos + 1] = 0
           /\ \A i \in DOMAIN arc.s : arc.s[i].len > 0
    BY <1>1, <2>1, NotRefused DEF IsArchive
  <2>3. goes \/ Ends(output, arc.s, pos)
    <3>1. Len(output) - pos - 2 = left - 2
      BY <1>2, <1>5
    <3>2. QED
      BY <1>4, <1>5, <2>2, <3>1 DEF Ends
  <2>4. QED
    BY <1>6, <1>9, <2>3
<1>10. QED
  BY <1>3, <1>7, <1>8, <1>9

(* chunk_read keeps the invariant.                                         *)
LEMMA RoundInv == IInv /\ chunk_read => IInv'
<1> SUFFICES ASSUME IInv, chunk_read PROVE IInv'
  OBVIOUS
<1>1. /\ phase = "reading" /\ output' = output /\ made' = made /\ foreign' = foreign
  BY DEF chunk_read
<1>2. /\ made \in Mades /\ arc \in Arcs /\ output \in Seq(Nat)
      /\ pos \in 0 .. Len(output) /\ foreign \in BOOLEAN
      /\ ~foreign => Sealed(made.s, made.tune, output)
      /\ ReadTo(arc.s, arc.chunks, arc.tune, pos, output)
  BY <1>1 DEF IInv, Typed, WritesWell, ReadsWell
<1>3. ASSUME Ends(output, arc.s, pos), phase' = "read", UNCHANGED <<arc, pos>> PROVE IInv'
  <2>1. Typed'
    BY <1>1, <1>2, <1>3 DEF Typed, Phases
  <2>2. WritesWell'
    BY <1>1, <1>2, <1>3 DEF WritesWell
  <2>3. output[Len(output)] = 0
    BY <1>3 DEF Ends
  <2>4. ReadsWell'
    BY <1>1, <1>2, <1>3, <2>3 DEF ReadsWell, Ends
  <2>5. QED
    BY <2>1, <2>2, <2>4 DEF IInv
<1>4. ASSUME NEW id, NEW l, NEW g, NEW t, NEW c,
             TakesOne(output, arc.s, pos, id, l), g = Grown(arc.s, id),
             t = ReadAlso(arc.s, id, pos + 2, l),
             c = [stream |-> id, off |-> g[id].len, len |-> l],
             arc' = [[arc EXCEPT !.s = t] EXCEPT !.chunks = Append(arc.chunks, c)],
             pos' = pos + 2 + l, phase' = phase
      PROVE  IInv'
  <2> DEFINE q == Append(arc.chunks, c)
             n == pos + 2 + l
  <2>1. ReadTo(t, q, arc.tune, n, output)
    <3> DEFINE s == arc.s
               r == arc.chunks
               v == arc.tune
    <3>1. ReadTo(s, r, v, pos, output) /\ TakesOne(output, s, pos, id, l)
          /\ g = Grown(s, id) /\ t = ReadAlso(s, id, pos + 2, l)
      BY <1>2, <1>4
    <3> HIDE DEF s, r, v
    <3>2. /\ id \in Pos /\ output[pos + 1] = id /\ l \in 1 .. Chunk /\ output[pos + 2] = l
          /\ pos + 2 + l <= Len(output) /\ (id <= Len(s) => s[id].len % Chunk = 0)
      BY <3>1 DEF TakesOne
    <3>3. ReadTo(t, Append(r, c), v, pos + 2 + l, output)
      BY <1>2, <1>4, <3>1, <3>2, ReadStep
    <3>4. QED
      BY <3>3 DEF r, v
  <2>2. t \in Seq(ReadStreams) /\ q \in Seq(Chunks) /\ n \in Nat /\ n <= Len(output)
    BY <2>1 DEF ReadTo, ParsedOf
  <2> HIDE DEF n, q
  <2>3. arc' = [[arc EXCEPT !.s = t] EXCEPT !.chunks = q] /\ pos' = n /\ phase' = "reading"
    BY <1>1, <1>4 DEF q, n
  <2>4. /\ arc' \in Arcs /\ arc'.s = t /\ arc'.chunks = q /\ arc'.tune = arc.tune
    BY <1>2, <2>2, <2>3 DEF Arcs
  <2>5. n \in 0 .. Len(output)
    <3>1. Len(output) \in Nat
      BY <1>2, LenProperties
    <3>2. QED
      BY <2>2, <3>1
  <2>6. Typed'
    BY <1>1, <1>2, <2>3, <2>4, <2>5 DEF Typed, Phases
  <2>7. WritesWell'
    BY <1>1, <1>2, <2>3 DEF WritesWell
  <2>8. ReadsWell'
    BY <1>1, <2>1, <2>3, <2>4 DEF ReadsWell
  <2>9. QED
    BY <2>6, <2>7, <2>8 DEF IInv
<1>5. ASSUME ~IsArchive(output), phase' = "fatal", UNCHANGED <<arc, pos>> PROVE IInv'
  <2>1. Typed'
    BY <1>1, <1>2, <1>5 DEF Typed, Phases
  <2>2. WritesWell' /\ ReadsWell'
    BY <1>1, <1>2, <1>5 DEF WritesWell, ReadsWell
  <2>3. QED
    BY <2>1, <2>2 DEF IInv
<1>6. QED
  <2>1. \/ Ends(output, arc.s, pos) /\ phase' = "read" /\ UNCHANGED <<arc, pos>>
        \/ \E id, l, g, t, c :
             /\ TakesOne(output, arc.s, pos, id, l) /\ g = Grown(arc.s, id)
             /\ t = ReadAlso(arc.s, id, pos + 2, l)
             /\ c = [stream |-> id, off |-> g[id].len, len |-> l]
             /\ arc' = [[arc EXCEPT !.s = t] EXCEPT !.chunks = Append(arc.chunks, c)]
             /\ pos' = pos + 2 + l /\ phase' = phase
        \/ ~IsArchive(output) /\ phase' = "fatal" /\ UNCHANGED <<arc, pos>>
    BY RoundGoes
  <2>2. QED
    BY <1>3, <1>4, <1>5, <2>1

(* A step that changes nothing keeps the invariant.                        *)
LEMMA StutterInv == IInv /\ UNCHANGED vars => IInv'
BY DEF vars, IInv, Typed, WritesWell, ReadsWell, Empty

(* Every step keeps the invariant.                                         *)
LEMMA NextInv == IInv /\ [Next]_vars => IInv'
BY BeginInv, NewStreamInv, PutInv, DropInv, FinishInv, TakeInv, WriteInv, ReadInv, RoundInv,
   StutterInv DEF Next

(* The invariant holds in every state.                                     *)
LEMMA Invariant == Spec => []IInv
<1>1. Init => IInv
  BY InitInv
<1>2. IInv /\ [Next]_vars => IInv'
  BY NextInv
<1>3. QED
  BY <1>1, <1>2, PTL DEF Spec

-----------------------------------------------------------------------------
(* What follows from it.                                                   *)

Recs ==
  [data : Seq(Bytes), ext : Seq([off : Nat, len : 1 .. Chunk]), len : Nat, at : Nat,
   buf : Seq(Bytes), live : BOOLEAN, dirty : BOOLEAN, done : BOOLEAN]

(* A stream of this form has the type of a stream.                         *)
LEMMA RecIs ==
  ASSUME NEW data \in Seq(Bytes), NEW ext \in Seq(Extents), NEW len \in Nat, NEW at \in Nat,
         NEW buf \in Seq(Bytes), NEW live \in BOOLEAN, NEW dirty \in BOOLEAN, NEW done \in BOOLEAN
  PROVE  StreamOf(data, ext, len, at, buf, live, dirty, done) \in Recs
BY DEF StreamOf, Recs, Extents

(* Every stream has it.                                                    *)
LEMMA KeptRecs == Kept \subseteq Recs /\ ReadStreams \subseteq Recs
<1> DEFINE e == <<>>
           no == FALSE
           yes == TRUE
<1>0. e \in Seq(Bytes) /\ e \in Seq(Extents) /\ no \in BOOLEAN /\ yes \in BOOLEAN
  BY EmptySeq
<1>31. e = <<>> /\ no = FALSE /\ yes = TRUE
  OBVIOUS
<1> HIDE DEF e, no, yes
<1>1. ASSUME NEW st \in Filling PROVE st \in Recs
  <2>1. PICK x \in FullPacks, buf \in Windows : st = FillingOf(x, buf)
    BY DEF Filling
  <2>2. Fills(st, x, buf)
    BY <2>1 DEF Fills
  <2> DEFINE n == Chunk * Len(x)
             l == n + Len(buf)
  <2>3. x \in Seq(Extents) /\ buf \in Seq(Bytes) /\ n \in Nat /\ Len(buf) \in Nat
    <3>1. x \in Seq(Extents) /\ LenOf(x) = Chunk * Len(x) /\ LenOf(x) \in Nat
          /\ Len(buf) \in Nat
      BY <2>2, FillingFacts
    <3>2. buf \in Seq(Bytes)
      BY DEF Windows
    <3>3. QED
      BY <3>1, <3>2
  <2>4. st = StreamOf(e, x, l, n, buf, yes, yes, no)
    BY <1>31, <2>1 DEF FillingOf
  <2>5. l \in Nat
    <3> HIDE DEF n
    <3>1. QED
      BY <2>3
  <2> HIDE DEF n, l
  <2>6. QED
    BY <1>0, <2>3, <2>4, <2>5, RecIs
<1>2. ASSUME NEW st \in Resting PROVE st \in Recs
  <2>1. PICK x \in Packs, at \in Nat, buf \in Seq(Bytes), live \in BOOLEAN, done \in BOOLEAN :
          st = RestingOf(x, at, buf, live, done)
    BY DEF Resting
  <2> DEFINE n == LenOf(x)
  <2>2. n \in Nat /\ x \in Seq(Extents)
    BY LenOfFacts DEF Packs
  <2> HIDE DEF n
  <2>3. st = StreamOf(e, x, n, at, buf, live, no, done)
    BY <1>31, <2>1 DEF RestingOf, n
  <2>4. QED
    BY <1>0, <2>2, <2>3, RecIs
<1>3. ASSUME NEW st \in Held PROVE st \in Recs
  <2>1. PICK data \in Seq(Bytes) \ {<<>>} : st = Stream(data)
    BY DEF Held
  <2> DEFINE n == Len(data)
             z == 0
  <2>2. n \in Nat /\ z \in Nat /\ data \in Seq(Bytes)
    BY LenProperties
  <2>3. st = StreamOf(data, e, n, z, e, no, no, no)
    BY <1>31, <2>1 DEF Stream, StreamOf
  <2> HIDE DEF n, z
  <2>4. QED
    BY <1>0, <2>2, <2>3, RecIs
<1>4. ASSUME NEW st \in ReadStreams PROVE st \in Recs
  <2>1. PICK x \in Packs : st = OnFile(x)
    BY DEF ReadStreams
  <2> DEFINE n == LenOf(x)
             z == 0
  <2>2. n \in Nat /\ z \in Nat /\ x \in Seq(Extents)
    BY LenOfFacts DEF Packs
  <2>3. st = StreamOf(e, x, n, z, e, no, no, no)
    BY <1>31, <2>1 DEF OnFile
  <2> HIDE DEF n, z
  <2>4. QED
    BY <1>0, <2>2, <2>3, RecIs
<1>5. QED
  BY <1>1, <1>2, <1>3, <1>4 DEF Kept, Stored

(* The cells, the streams of the writer and of the reader, the position    *)
(* and the phase have their types in every state of an archive.            *)
THEOREM ArchiveIsTyped == Spec => []TypeOK
<1>1. IInv => TypeOK
  <2> SUFFICES ASSUME IInv PROVE TypeOK
    OBVIOUS
  <2>1. output \in Seq(Nat) /\ made \in Mades /\ arc \in Arcs /\ pos \in 0 .. Len(output)
        /\ phase \in Phases
    BY DEF IInv, Typed
  <2>2. /\ made.s \in Seq(Kept) /\ made.tune \in Seq(Bytes) /\ made.chunks = <<>>
        /\ arc.s \in Seq(ReadStreams) /\ arc.tune \in Seq(Nat)
    BY <2>1 DEF Mades, Arcs
  <2>3. made.s \in Seq(Recs) /\ arc.s \in Seq(Recs)
    <3> DEFINE m == made.s
               r == arc.s
    <3>1. m \in Seq(Kept) /\ r \in Seq(ReadStreams)
      BY <2>2
    <3> HIDE DEF m, r
    <3>2. m \in Seq(Recs) /\ r \in Seq(Recs)
      BY <3>1, KeptRecs, SeqOfMore
    <3>3. QED
      BY <3>2 DEF m, r
  <2>4. Streams = Seq(Recs)
    BY DEF Streams, Recs
  <2>5. QED
    BY <2>1, <2>2, <2>3, <2>4 DEF TypeOK, Phases
<1>2. QED
  BY <1>1, Invariant, PTL

(* What the reader has when it is done.                                    *)
LEMMA WhenRead ==
  IInv /\ phase = "read" =>
    /\ output \in Seq(Nat) /\ Len(output) \in Nat /\ arc \in Arcs
    /\ ReadTo(arc.s, arc.chunks, arc.tune, pos, output)
    /\ pos + 1 = Len(output) /\ pos = Len(output) - 1 /\ output[Len(output)] = 0
    /\ \A i \in DOMAIN arc.s : arc.s[i].len > 0
    /\ 2 + Len(arc.tune) = 2 + output[2]
    /\ ParsedOf(arc.s, arc.chunks, 2 + Len(arc.tune), Len(output) - 1, output)
    /\ 2 + Len(arc.tune) \in Nat /\ Len(arc.tune) \in Nat
<1> SUFFICES ASSUME IInv, phase = "read"
             PROVE
    /\ output \in Seq(Nat) /\ Len(output) \in Nat /\ arc \in Arcs
    /\ ReadTo(arc.s, arc.chunks, arc.tune, pos, output)
    /\ pos + 1 = Len(output) /\ pos = Len(output) - 1 /\ output[Len(output)] = 0
    /\ \A i \in DOMAIN arc.s : arc.s[i].len > 0
    /\ 2 + Len(arc.tune) = 2 + output[2]
    /\ ParsedOf(arc.s, arc.chunks, 2 + Len(arc.tune), Len(output) - 1, output)
    /\ 2 + Len(arc.tune) \in Nat /\ Len(arc.tune) \in Nat
  OBVIOUS
<1>1. /\ output \in Seq(Nat) /\ Len(output) \in Nat /\ arc \in Arcs
      /\ ReadTo(arc.s, arc.chunks, arc.tune, pos, output)
      /\ pos + 1 = Len(output) /\ output[Len(output)] = 0
      /\ \A i \in DOMAIN arc.s : arc.s[i].len > 0
  BY LenProperties DEF IInv, Typed, ReadsWell
<1> DEFINE s == arc.s
           q == arc.chunks
           tune == arc.tune
<1>2. /\ pos \in Nat /\ tune \in Seq(Nat) /\ Len(tune) = output[2]
      /\ ParsedOf(s, q, 2 + output[2], pos, output)
  BY <1>1 DEF ReadTo
<1>3. Len(tune) \in Nat /\ 2 + Len(tune) \in Nat
  <2> HIDE DEF tune
  <2>1. Len(tune) \in Nat
    BY <1>2, LenProperties
  <2>2. QED
    BY <2>1
<1>4. pos = Len(output) - 1
  BY <1>1, <1>2
<1>5. 2 + Len(tune) = 2 + output[2]
  BY <1>2
<1> HIDE DEF s, q, tune
<1>6. ParsedOf(s, q, 2 + Len(tune), Len(output) - 1, output)
  BY <1>2, <1>4, <1>5
<1>7. QED
  BY <1>1, <1>3, <1>4, <1>5, <1>6 DEF s, q, tune

(* The streams that have been read, and the extents of each.               *)
Reads(s, X, o, a, n) ==
  /\ a \in Nat /\ n \in Nat /\ Tiles(X, o, a, n) /\ Sized(X, a, n)
  /\ Len(s) \in Nat /\ DOMAIN s = 1 .. Len(s) /\ s \in Seq(ReadStreams)
  /\ \A i \in 1 .. Len(s) : /\ i \in Pos /\ X[i] = s[i].ext /\ s[i].len = LenOf(X[i])
                            /\ s[i].len \in Nat /\ s[i].len > 0
  /\ \A i \in Pos : i > Len(s) => X[i] = <<>>

(* The reader that is done has streams that tile the file.                 *)
LEMMA ReadsNow ==
  IInv /\ phase = "read" =>
    Reads(arc.s, Exts(arc.s), output, 2 + Len(arc.tune), Len(output) - 1)
<1> SUFFICES ASSUME IInv, phase = "read"
             PROVE  Reads(arc.s, Exts(arc.s), output, 2 + Len(arc.tune), Len(output) - 1)
  OBVIOUS
<1> DEFINE s == arc.s
           q == arc.chunks
           a == 2 + Len(arc.tune)
           n == Len(output) - 1
<1>1. ParsedOf(s, q, a, n, output) /\ a \in Nat /\ pos = n /\ (\A i \in DOMAIN s : s[i].len > 0)
      /\ ReadTo(s, q, arc.tune, pos, output)
  BY WhenRead
<1>2. n \in Nat
  BY <1>1 DEF ReadTo
<1> HIDE DEF s, q, a, n
<1>3. s \in Seq(ReadStreams) /\ Tiles(Exts(s), output, a, n) /\ Sized(Exts(s), a, n)
  BY <1>1 DEF ParsedOf
<1>4. /\ Len(s) \in Nat /\ DOMAIN s = 1 .. Len(s)
      /\ \A i \in 1 .. Len(s) : /\ i \in Pos /\ Exts(s)[i] = s[i].ext
                                /\ s[i].len = LenOf(s[i].ext) /\ s[i].len \in Nat
      /\ \A i \in Pos : i > Len(s) => Exts(s)[i] = <<>>
  BY <1>3, ReadFacts
<1>5. Reads(s, Exts(s), output, a, n)
  BY <1>1, <1>2, <1>3, <1>4 DEF Reads
<1>6. QED
  BY <1>5 DEF s, a, n

(* Each cell of a file that has been read, but for header and end marker,  *)
(* is in one chunk of one stream, and only the last of a stream is partial.*)
THEOREM AcceptedIsTiled == Spec => []Tiled
<1>1. IInv => Tiled
  <2> SUFFICES ASSUME IInv, phase = "read" PROVE Tiled
    BY DEF Tiled
  <2> DEFINE s == arc.s
             X == Exts(s)
             a == 2 + Len(arc.tune)
             n == Len(output) - 1
  <2>1. Reads(s, X, output, a, n) /\ Len(output) \in Nat
    BY ReadsNow, WhenRead
  <2>2. Len(output) - 2 = n - 1
    BY <2>1
  <2> HIDE DEF s, X, a, n
  <2>3. /\ a \in Nat /\ n \in Nat /\ X \in Maps /\ FieldsTell(X, output, a, n)
        /\ Covers(X, a, n) /\ Apart(X)
        /\ DOMAIN s = 1 .. Len(s) /\ Len(s) \in Nat
        /\ \A i \in 1 .. Len(s) : i \in Pos /\ X[i] = s[i].ext
        /\ \A i \in Pos : i > Len(s) => X[i] = <<>>
    BY <2>1 DEF Reads, Tiles
  <2>4. \A i \in DOMAIN s :
          X[i] \in Seq(Extents) /\ Packed(X[i]) /\ DOMAIN s[i].ext = 1 .. Len(X[i])
    <3> SUFFICES ASSUME NEW i \in DOMAIN s
                 PROVE  X[i] \in Seq(Extents) /\ Packed(X[i]) /\ DOMAIN s[i].ext = 1 .. Len(X[i])
      OBVIOUS
    <3>1. i \in Pos /\ X[i] = s[i].ext
      BY <2>3
    <3>2. X[i] \in Seq(Extents) /\ Packed(X[i])
      BY <2>3, <3>1, MapFacts
    <3>3. DOMAIN X[i] = 1 .. Len(X[i])
      BY <3>2, ExtentFacts
    <3>4. QED
      BY <3>1, <3>2, <3>3
  <2>5. ASSUME NEW off \in a .. n - 1
        PROVE  \E i \in DOMAIN s : \E k \in DOMAIN s[i].ext :
                 /\ off \in Takes(s[i].ext[k])
                 /\ \A j \in DOMAIN s : \A l \in DOMAIN s[j].ext :
                      off \in Takes(s[j].ext[l]) => <<j, l>> = <<i, k>>
    <3>1. off \in Nat
      BY <2>3
    <3>2. PICK i \in Pos : \E k \in 1 .. Len(X[i]) : off \in Takes(X[i][k])
      BY <2>3 DEF Covers
    <3>3. PICK k \in 1 .. Len(X[i]) : off \in Takes(X[i][k])
      BY <3>2
    <3>4. i \in DOMAIN s
      <4> SUFFICES ASSUME i > Len(s) PROVE FALSE
        BY <2>3 DEF Pos
      <4>1. X[i] = <<>>
        BY <2>3
      <4>2. Len(X[i]) = 0
        BY <4>1
      <4>3. QED
        BY <4>2
    <3>5. k \in DOMAIN s[i].ext /\ off \in Takes(s[i].ext[k])
      BY <2>3, <2>4, <3>3, <3>4
    <3>6. ASSUME NEW j \in DOMAIN s, NEW l \in DOMAIN s[j].ext, off \in Takes(s[j].ext[l])
          PROVE  <<j, l>> = <<i, k>>
      <4>1. j \in Pos /\ X[j] = s[j].ext /\ l \in 1 .. Len(X[j]) /\ off \in Takes(X[j][l])
        BY <2>3, <2>4, <3>6
      <4>2. j = i /\ l = k
        BY <2>3, <3>1, <3>3, <4>1 DEF Apart
      <4>3. QED
        BY <4>2
    <3>7. QED
      BY <3>4, <3>5, <3>6
  <2>6. ASSUME NEW i \in DOMAIN s, NEW k \in DOMAIN s[i].ext
        PROVE  /\ Takes(s[i].ext[k]) \subseteq a .. n - 1
               /\ k < Len(s[i].ext) => s[i].ext[k].len = Chunk
    <3> DEFINE e == X[i][k]
    <3>1. i \in Pos /\ X[i] = s[i].ext /\ k \in 1 .. Len(X[i])
      BY <2>3, <2>4
    <3>2. /\ e.off \in Nat /\ e.len \in Nat /\ a + 2 <= e.off /\ e.off + e.len <= n
          /\ Takes(e) = e.off - 2 .. e.off + e.len - 1
      <4>1. e.off \in Nat /\ e.len \in Nat
        BY <2>3, <3>1, MapFacts
      <4>2. a + 2 <= e.off /\ e.off + e.len <= n
        BY <2>3, <3>1 DEF FieldsTell
      <4>3. Takes(e) = e.off - 2 .. e.off + e.len - 1
        BY DEF Takes
      <4>4. QED
        BY <4>1, <4>2, <4>3
    <3> HIDE DEF e
    <3>3. Takes(e) \subseteq a .. n - 1
      BY <2>3, <3>2
    <3>4. k < Len(X[i]) => X[i][k].len = Chunk
      BY <2>4, <3>1 DEF Packed
    <3>5. QED
      BY <3>1, <3>3, <3>4 DEF e
  <2>7. QED
    BY <2>2, <2>5, <2>6 DEF Tiled, s, a
<1>2. QED
  BY <1>1, Invariant, PTL

(* The size reckoned from the streams' lengths is the size of the file, of *)
(* an archive that has been written and of one that has been read.         *)
THEOREM SizeIsExact == Spec => []SizeExact
<1>1. ASSUME IInv, phase = "sealed" PROVE arc_size(made) = Len(output)
  <2> DEFINE s == made.s
             tune == made.tune
             n == Len(output) - 1
  <2>1. s \in Seq(Kept) /\ ~foreign /\ output \in Seq(Nat) /\ Sealed(s, tune, output)
    BY <1>1 DEF IInv, Typed, WritesWell, Mades
  <2>2. PICK X : SealedBy(X, s, tune, output)
    BY <2>1 DEF Sealed
  <2>3. Len(s) \in Nat /\ DOMAIN s = 1 .. Len(s) /\ Len(output) \in Nat
    BY <2>1, LenProperties
  <2>4. /\ X \in Maps /\ (\A i \in Pos : X[i] # <<>> <=> i <= Len(s))
        /\ Header(tune, output) /\ Sized(X, 2 + Len(tune), n)
        /\ \A i \in 1 .. Len(s) : s[i].len = LenOf(X[i])
        /\ Len(output) >= 3
    BY <2>2 DEF SealedBy, Seals, Shown, Tiles, WellBegun
  <2>5. Len(tune) \in Nat /\ n \in Nat /\ n + 1 = Len(output)
    BY <2>3, <2>4, LenProperties DEF Header
  <2>6. \A i \in Pos : i > Len(s) => X[i] = <<>>
    <3> SUFFICES ASSUME NEW i \in Pos, i > Len(s) PROVE X[i] = <<>>
      OBVIOUS
    <3>1. ~(i <= Len(s))
      BY <2>3 DEF Pos
    <3>2. QED
      BY <2>4, <3>1
  <2> HIDE DEF n
  <2>7. arc_size(made) = n + 1
    BY <2>3, <2>4, <2>5, <2>6, SizedSize
  <2>8. QED
    BY <2>5, <2>7
<1>2. ASSUME IInv, phase = "read" PROVE arc_size(arc) = Len(output)
  <2> DEFINE X == Exts(arc.s)
             n == Len(output) - 1
             m == Len(arc.s)
  <2>1. Reads(arc.s, X, output, 2 + Len(arc.tune), n) /\ Len(output) \in Nat
        /\ Len(arc.tune) \in Nat
    BY <1>2, ReadsNow, WhenRead
  <2>2. /\ X \in Maps /\ m \in Nat /\ n \in Nat /\ Sized(X, 2 + Len(arc.tune), n)
        /\ DOMAIN arc.s = 1 .. m
        /\ \A i \in 1 .. m : arc.s[i].len = LenOf(X[i])
        /\ \A i \in Pos : i > m => X[i] = <<>>
    <3> HIDE DEF X, n
    <3>1. QED
      BY <2>1 DEF Reads, Tiles
  <2>3. n + 1 = Len(output)
    BY <2>1
  <2> HIDE DEF X, n, m
  <2>4. arc_size(arc) = n + 1
    BY <2>1, <2>2, SizedSize
  <2>5. QED
    BY <2>3, <2>4
<1>3. IInv => SizeExact
  BY <1>1, <1>2 DEF SizeExact
<1>4. QED
  BY <1>3, Invariant, PTL

(* A file that is refused cannot be cut into chunks as the format has it.  *)
THEOREM OnlyOthersRefused == Spec => []RefusesOnlyOthers
<1>1. IInv => RefusesOnlyOthers
  BY ArchiveIs DEF IInv, Typed, ReadsWell, RefusesOnlyOthers, IsArchive
<1>2. QED
  BY <1>1, Invariant, PTL

(* The image of the archive that has been read, in two ways.               *)
LEMMA EmittedRead ==
  ASSUME NEW a, NEW q, q = ChunkList(a), NEW b, b = FlattenSeq(Bodies(a.s, q))
  PROVE  Emitted(a) = <<Magic, Len(a.tune)>> \o a.tune \o b \o <<0>>
BY DEF Emitted, Bodies, Body

(* Emitting what has been read gives back the file.                        *)
THEOREM GivesBack == Spec => []Reemits
<1>1. ASSUME IInv, phase = "read" PROVE Emitted(arc) = output
  <2> DEFINE s == arc.s
             q == arc.chunks
             t == arc.tune
             o == output
             a == 2 + Len(t)
             n == Len(o) - 1
             b == FlattenSeq(Bodies(s, q))
             h == <<Magic, Len(t)>>
             z == <<0>>
  <2>1. /\ o \in Seq(Nat) /\ Len(o) \in Nat /\ ReadTo(s, q, t, pos, o) /\ pos = n
        /\ o[Len(o)] = 0 /\ ParsedOf(s, q, a, n, o) /\ Len(t) \in Nat /\ 2 + Len(t) = 2 + o[2]
    BY <1>1, WhenRead
  <2>2. /\ o[1] = Magic /\ t = SubSeq(o, 3, 2 + o[2]) /\ t \in Seq(Nat) /\ Len(t) = o[2]
        /\ pos \in Nat /\ 2 + o[2] <= pos /\ Len(o) >= 2
    <3> HIDE DEF s, q, t, o
    <3>1. QED
      BY <2>1 DEF ReadTo
  <2>3. q = ChunkList(arc)
    <3>1. CASE q # <<>>
      BY <3>1 DEF ChunkList
    <3>2. CASE q = <<>>
      <4>1. s = <<>>
        <5> HIDE DEF s, q, a, n, o
        <5>1. QED
          BY <2>1, <3>2 DEF ParsedOf
      <4>2. ChunkList(arc) = FlattenSeq(Shelves(s))
        BY <3>2 DEF ChunkList, Shelves, Sections
      <4>3. Shelves(s) = <<>>
        BY <4>1 DEF Shelves
      <4>4. QED
        BY <3>2, <4>2, <4>3, FlattenEmpty
    <3>3. QED
      BY <3>1, <3>2
  <2>4. Parsed(s, q, a, n)
    BY <2>1, ParsedNow
  <2>5. b = SubSeq(o, a + 1, n)
    <3> HIDE DEF s, q, a, n, o
    <3>1. QED
      BY <2>4 DEF Parsed, o
  <2>6. Emitted(arc) = h \o t \o b \o z
    <3> HIDE DEF q
    <3>1. q = ChunkList(arc)
      BY <2>3
    <3>2. b = FlattenSeq(Bodies(arc.s, q))
      OBVIOUS
    <3> HIDE DEF b
    <3>3. QED
      BY <3>1, <3>2, EmittedRead
  <2>7. a \in Nat /\ n \in Nat /\ a <= n /\ n + 1 = Len(o) /\ a >= 2
    <3> DEFINE k == Len(t)
               m == Len(o)
    <3>1. k \in Nat /\ m \in Nat /\ pos = m - 1 /\ pos \in Nat /\ 2 + k <= pos
      BY <2>1, <2>2
    <3> HIDE DEF k, m
    <3>2. 2 + k \in Nat /\ m - 1 \in Nat /\ 2 + k <= m - 1 /\ (m - 1) + 1 = m /\ 2 + k >= 2
      BY <3>1
    <3>3. QED
      BY <3>2 DEF k, m
  <2>8. h \in Seq(Nat) /\ Len(h) = 2 /\ h[1] = Magic /\ h[2] = Len(t)
    BY <2>1, CellAssumption
  <2>9. z \in Seq(Nat) /\ Len(z) = 1 /\ z[1] = 0
    OBVIOUS
  <2> HIDE DEF h, z, b, o, s, q, t
  <2>10. \A k \in 1 .. Len(t) : t[k] = o[2 + k]
    <3> DEFINE m == o[2]
    <3>1. m \in Nat /\ 2 + m <= Len(o) /\ t = SubSeq(o, 3, 2 + m) /\ Len(t) = m
      BY <2>1, <2>2, <2>7
    <3> HIDE DEF m
    <3>2. \A i \in 3 .. 2 + m : o[i] \in Nat
      <4>1. \A i \in 3 .. 2 + m : i \in 1 .. Len(o)
        BY <2>1, <3>1
      <4>2. QED
        BY <2>1, <4>1, ElementOfSeq
    <3>3. \A k \in 1 .. m : SubSeq(o, 3, 2 + m)[k] = o[3 + k - 1]
      <4>1. 3 <= 2 + m + 1 /\ 3 \in Int /\ 2 + m \in Int /\ (2 + m) - 3 + 1 = m
        BY <3>1
      <4> DEFINE w == 2 + m
      <4>2. 3 <= w + 1 /\ 3 \in Int /\ w \in Int /\ w - 3 + 1 = m
        BY <4>1
      <4>3. \A i \in 3 .. w : o[i] \in Nat
        BY <3>2
      <4> HIDE DEF w
      <4>4. \A k \in 1 .. w - 3 + 1 : SubSeq(o, 3, w)[k] = o[3 + k - 1]
        BY <4>2, <4>3, SubSeqProperties
      <4>5. QED
        BY <4>2, <4>4 DEF w
    <3>4. \A k \in 1 .. m : 3 + k - 1 = 2 + k
      BY <3>1
    <3>5. QED
      BY <3>1, <3>3, <3>4
  <2>11. /\ b \in Seq(Nat) /\ Len(b) = n - a /\ \A k \in 1 .. n - a : b[k] = o[a + k]
    <3> DEFINE w == a + 1
    <3>1. w <= n + 1 /\ w \in Int /\ n \in Int /\ n - w + 1 = n - a
      BY <2>7
    <3>2. \A i \in w .. n : o[i] \in Nat
      <4>1. \A i \in w .. n : i \in 1 .. Len(o)
        BY <2>7
      <4>2. QED
        BY <2>1, <4>1, ElementOfSeq
    <3>3. \A k \in 1 .. n - a : w + k - 1 = a + k
      BY <2>7
    <3>4. b = SubSeq(o, w, n)
      BY <2>5
    <3> HIDE DEF w, n, a
    <3>5. /\ b \in Seq(Nat) /\ Len(b) = n - w + 1
          /\ \A k \in 1 .. n - w + 1 : b[k] = o[w + k - 1]
      BY <3>1, <3>2, <3>4, SubSeqProperties
    <3>6. QED
      BY <3>1, <3>3, <3>5
  <2> DEFINE u == h \o t
             v == u \o b
             y == v \o z
  <2>12. u \in Seq(Nat) /\ Len(u) = a /\ \A k \in 1 .. a : u[k] = o[k]
    <3>1. /\ u \in Seq(Nat) /\ Len(u) = Len(h) + Len(t)
          /\ \A k \in 1 .. Len(h) + Len(t) : u[k] = IF k <= Len(h) THEN h[k] ELSE t[k - Len(h)]
      <4>1. h \in Seq(Nat) /\ t \in Seq(Nat) /\ u = h \o t
        BY <2>2, <2>8
      <4> HIDE DEF u
      <4>2. QED
        BY <4>1, ConcatProperties
    <3> HIDE DEF u
    <3>2. Len(h) + Len(t) = a
      BY <2>8
    <3>3. ASSUME NEW k \in 1 .. a PROVE u[k] = o[k]
      <4>1. CASE k <= 2
        <5>1. u[k] = h[k]
          BY <2>8, <3>1, <3>2, <4>1
        <5>2. k = 1 \/ k = 2
          BY <2>7, <4>1
        <5>3. QED
          BY <2>2, <2>8, <5>1, <5>2
      <4>2. CASE ~(k <= 2)
        <5>1. u[k] = t[k - 2]
          BY <2>8, <3>1, <3>2, <4>2
        <5>2. k - 2 \in 1 .. Len(t) /\ 2 + (k - 2) = k
          BY <2>1, <4>2
        <5>3. QED
          BY <2>10, <5>1, <5>2
      <4>3. QED
        BY <4>1, <4>2
    <3>4. QED
      BY <3>1, <3>2, <3>3
  <2> HIDE DEF u, a, n
  <2>13. v \in Seq(Nat) /\ Len(v) = n /\ \A k \in 1 .. n : v[k] = o[k]
    <3>1. /\ v \in Seq(Nat) /\ Len(v) = Len(u) + Len(b)
          /\ \A k \in 1 .. Len(u) + Len(b) : v[k] = IF k <= Len(u) THEN u[k] ELSE b[k - Len(u)]
      BY <2>11, <2>12, ConcatProperties
    <3> HIDE DEF v
    <3>2. Len(u) + Len(b) = n
      BY <2>7, <2>11, <2>12
    <3>3. ASSUME NEW k \in 1 .. n PROVE v[k] = o[k]
      <4>1. CASE k <= a
        <5>1. v[k] = u[k] /\ k \in 1 .. a
          BY <2>7, <2>12, <3>1, <3>2, <4>1
        <5>2. QED
          BY <2>12, <5>1
      <4>2. CASE ~(k <= a)
        <5>1. v[k] = b[k - a]
          BY <2>12, <3>1, <3>2, <4>2
        <5>2. k - a \in 1 .. n - a /\ a + (k - a) = k
          BY <2>7, <4>2
        <5>3. QED
          BY <2>11, <5>1, <5>2
      <4>3. QED
        BY <4>1, <4>2
    <3>4. QED
      BY <3>1, <3>2, <3>3
  <2> HIDE DEF v
  <2>14. y \in Seq(Nat) /\ Len(y) = n + 1 /\ \A k \in 1 .. n + 1 : y[k] = o[k]
    <3>1. /\ y \in Seq(Nat) /\ Len(y) = Len(v) + Len(z)
          /\ \A k \in 1 .. Len(v) + Len(z) : y[k] = IF k <= Len(v) THEN v[k] ELSE z[k - Len(v)]
      BY <2>9, <2>13, ConcatProperties
    <3> HIDE DEF y
    <3>2. ASSUME NEW k \in 1 .. n + 1 PROVE y[k] = o[k]
      <4>1. CASE k <= n
        <5>1. y[k] = v[k] /\ k \in 1 .. n
          BY <2>7, <2>9, <2>13, <3>1, <4>1
        <5>2. QED
          BY <2>13, <5>1
      <4>2. CASE ~(k <= n)
        <5>1. k = n + 1 /\ k - n = 1
          BY <2>7, <4>2
        <5>2. y[k] = z[k - n]
          BY <2>9, <2>13, <3>1, <4>2
        <5>3. QED
          BY <2>1, <2>7, <2>9, <5>1, <5>2
      <4>3. QED
        BY <4>1, <4>2
    <3>3. QED
      BY <2>9, <2>13, <3>1, <3>2
  <2>15. y = o
    <3> HIDE DEF y
    <3>1. Len(y) = Len(o) /\ \A k \in 1 .. Len(y) : y[k] = o[k]
      BY <2>7, <2>14
    <3>2. QED
      BY <2>1, <2>14, <3>1, SeqEqual
  <2>16. QED
    BY <2>6, <2>15 DEF u, v, o
<1>2. IInv => Reemits
  BY <1>1 DEF Reemits
<1>3. QED
  BY <1>2, Invariant, PTL

-----------------------------------------------------------------------------
(* The bytes of the streams s, in an image o.                              *)
Means(s, o) == [i \in DOMAIN s |-> Bytewise(s[i], o)]

MeansNow == IF foreign THEN <<>> ELSE Means(Meant, output)

(* It is what ChunkArchive gives the list of streams for.                  *)
LEMMA MeansIs ==
  MeansNow = IF foreign THEN <<>> ELSE [i \in DOMAIN Meant |-> StreamBytes(Meant[i])]
BY BytesNow DEF MeansNow, Means

(* Streams with the same bytes mean the same list.                         *)
LEMMA MeansSame ==
  ASSUME NEW s, NEW t, DOMAIN s = 1 .. Len(s), DOMAIN t = DOMAIN s, NEW o, NEW u,
         SameBytes(s, o, t, u)
  PROVE  Means(t, u) = Means(s, o)
BY DEF SameBytes, Same, Means

MeansGrown(s, o, i, b, t, u) == Means(t, u) = [Means(s, o) EXCEPT ![i] = Append(@, b)]

(* A byte more in one stream is a byte more in the list.                   *)
LEMMA MeansGrows ==
  ASSUME NEW s, NEW t, DOMAIN s = 1 .. Len(s), DOMAIN t = DOMAIN s, NEW o, NEW u,
         NEW i \in DOMAIN s, NEW b, PutDone(s, o, i, b, t, u)
  PROVE  MeansGrown(s, o, i, b, t, u)
<1>1. \A j \in DOMAIN s : j # i => Bytewise(t[j], u) = Bytewise(s[j], o)
  BY DEF PutDone, Same
<1>2. Bytewise(t[i], u) = Append(Bytewise(s[i], o), b)
  BY DEF PutDone, Grows
<1>3. QED
  BY <1>1, <1>2 DEF Means, MeansGrown

(* A stream more is one more at the end of the list.                       *)
LEMMA MeansMore ==
  ASSUME NEW W, NEW s \in Seq(W), NEW w, NEW o
  PROVE  Means(Append(s, w), o) = Append(Means(s, o), Bytewise(w, o))
<1> DEFINE n == Len(s)
           V == W \cup {w}
           B == {Bytewise(v, o) : v \in V}
           r == Append(s, w)
           m == Means(s, o)
           y == Bytewise(w, o)
<1>1. n \in Nat /\ DOMAIN s = 1 .. n /\ s \in Seq(V) /\ w \in V
  <2>1. s \in Seq(V)
    BY SeqOfMore
  <2>2. QED
    BY <2>1, LenProperties
<1> HIDE DEF V
<1>2. /\ r \in Seq(V) /\ Len(r) = n + 1 /\ r[n + 1] = w /\ \A i \in 1 .. n : r[i] = s[i]
  BY <1>1, AppendProperties
<1>3. DOMAIN r = 1 .. n + 1
  BY <1>2, LenProperties
<1>4. m \in Seq(B) /\ Len(m) = n /\ y \in B
  <2>1. \A i \in 1 .. n : Bytewise(s[i], o) \in B
    BY <1>1, ElementOfSeq
  <2>2. m = [i \in 1 .. n |-> Bytewise(s[i], o)]
    BY <1>1 DEF Means
  <2> HIDE DEF B, n, m
  <2>3. m \in [1 .. n -> B]
    BY <2>1, <2>2
  <2>4. n \in Nat
    BY <1>1
  <2>5. QED
    BY <1>1, <2>3, <2>4 DEF B
<1> DEFINE a == Append(m, y)
<1> HIDE DEF B, r
<1>5. a \in Seq(B) /\ Len(a) = n + 1 /\ a[n + 1] = y /\ \A i \in 1 .. n : a[i] = m[i]
  <2> HIDE DEF m, y
  <2>1. QED
    BY <1>4, AppendProperties
<1>6. \A i \in 1 .. n : m[i] = Bytewise(s[i], o)
  BY <1>1 DEF Means
<1> HIDE DEF a, m, n
<1>7. DOMAIN a = 1 .. n + 1 /\ a = [i \in 1 .. n + 1 |-> a[i]]
  <2>1. DOMAIN a = 1 .. n + 1
    BY <1>5, LenProperties
  <2>2. a = [i \in DOMAIN a |-> a[i]]
    BY <1>5
  <2>3. QED
    BY <2>1, <2>2
<1>8. \A i \in 1 .. n + 1 : a[i] = Bytewise(r[i], o)
  <2> SUFFICES ASSUME NEW i \in 1 .. n + 1 PROVE a[i] = Bytewise(r[i], o)
    OBVIOUS
  <2>1. CASE i = n + 1
    BY <1>2, <1>5, <2>1
  <2>2. CASE i # n + 1
    <3>1. i \in 1 .. n
      BY <1>1, <2>2
    <3>2. QED
      BY <1>2, <1>5, <1>6, <3>1
  <2>3. QED
    BY <2>1, <2>2
<1>9. Means(r, o) = [i \in 1 .. n + 1 |-> Bytewise(r[i], o)]
  BY <1>3 DEF Means
<1>10. QED
  BY <1>7, <1>8, <1>9 DEF a, m, r

(* A stream has bytes when its length is not zero.                         *)
LEMMA HasBytes ==
  ASSUME NEW st, st.len \in Nat, NEW o
  PROVE  Bytewise(st, o) # <<>> <=> st.len > 0
<1>1. DOMAIN Bytewise(st, o) = 1 .. st.len
  BY DEF Bytewise
<1>2. CASE st.len > 0
  <2>1. 1 \in DOMAIN Bytewise(st, o)
    BY <1>1, <1>2
  <2>2. QED
    BY <1>2, <2>1
<1>3. CASE ~(st.len > 0)
  <2>1. st.len = 0 /\ 1 .. 0 = {}
    BY <1>3
  <2>2. Bytewise(st, o) = [k \in {} |-> ByteAt(st, k - 1, o)]
    BY <2>1 DEF Bytewise
  <2>3. QED
    BY <1>3, <2>2
<1>4. QED
  BY <1>2, <1>3

(* An archive of streams in memory has their bytes, in any image.          *)
LEMMA HeldBytes ==
  ASSUME NEW data \in Seq(Bytes), data # <<>>, NEW o
  PROVE  Bytewise(Stream(data), o) = data
<1> DEFINE st == Stream(data)
           n == Len(data)
<1>1. st \in Held
  BY DEF Held
<1>2. st.data = data /\ st.len = n
  BY DEF Stream
<1> HIDE DEF st
<1>3. \A at : ByteAt(st, at, o) = data[at + 1]
  BY <1>1, <1>2, HeldFacts
<1>4. n \in Nat /\ DOMAIN data = 1 .. n /\ data = [k \in 1 .. n |-> data[k]]
  BY LenProperties
<1>5. \A k \in 1 .. n : (k - 1) + 1 = k
  BY <1>4
<1>6. \A k \in 1 .. n : ByteAt(st, k - 1, o) = data[k]
  BY <1>3, <1>5
<1>7. Bytewise(st, o) = [k \in 1 .. n |-> ByteAt(st, k - 1, o)]
  BY <1>2 DEF Bytewise
<1> HIDE DEF n
<1>8. [k \in 1 .. n |-> ByteAt(st, k - 1, o)] = [k \in 1 .. n |-> data[k]]
  BY <1>6
<1>9. QED
  BY <1>4, <1>7, <1>8 DEF st

(* A new stream has no bytes.                                              *)
LEMMA NewBytes == \A o : Bytewise(Stream(<<>>), o) = <<>>
<1> SUFFICES ASSUME NEW o PROVE Bytewise(Stream(<<>>), o) = <<>>
  OBVIOUS
<1>1. Stream(<<>>).len = 0
  BY DEF Stream
<1>2. QED
  BY <1>1, HasBytes

(* The streams of the reader are at rest.                                  *)
LEMMA ReadRests == ReadStreams \subseteq Resting
<1> SUFFICES ASSUME NEW st \in ReadStreams PROVE st \in Resting
  OBVIOUS
<1>1. PICK x \in Packs : st = OnFile(x)
  BY DEF ReadStreams
<1>2. st = RestingOf(x, 0, <<>>, FALSE, FALSE)
  BY <1>1 DEF OnFile, RestingOf
<1>3. <<>> \in Seq(Bytes) /\ 0 \in Nat /\ FALSE \in BOOLEAN
  BY EmptySeq
<1>4. QED
  BY <1>2, <1>3, IsResting

(* What is read of an archive are the bytes that were written.             *)
LEMMA ReadsBack ==
  IInv /\ ~foreign /\ phase = "read" => Means(arc.s, output) = Means(made.s, output)
<1> SUFFICES ASSUME IInv, ~foreign, phase = "read"
             PROVE  Means(arc.s, output) = Means(made.s, output)
  OBVIOUS
<1> DEFINE s == made.s
           r == arc.s
           R == Exts(r)
           o == output
           a == 2 + o[2]
           n == Len(o) - 1
<1>1. /\ Reads(r, R, o, 2 + Len(arc.tune), n) /\ 2 + Len(arc.tune) = a /\ pos = n
      /\ ReadTo(r, arc.chunks, arc.tune, pos, o)
  BY ReadsNow, WhenRead
<1>2. o \in Seq(Nat) /\ s \in Seq(Kept) /\ Sealed(s, made.tune, o)
  BY DEF IInv, Typed, Mades, WritesWell
<1>3. PICK X : SealedBy(X, s, made.tune, o)
  BY <1>2 DEF Sealed
<1>4. Len(s) \in Nat /\ DOMAIN s = 1 .. Len(s)
  BY <1>2, LenProperties
<1> HIDE DEF s, r, R, o, n
<1>5. Reads(r, R, o, a, n)
  BY <1>1
<1>6. Prefix(R, X, n)
  BY <1>1, <1>3, <1>4 DEF ReadTo, SealedBy, R
<1> HIDE DEF a
<1>7. /\ a \in Nat /\ n \in Nat /\ Tiles(R, o, a, n) /\ Len(r) \in Nat /\ DOMAIN r = 1 .. Len(r)
      /\ \A i \in 1 .. Len(r) : /\ i \in Pos /\ R[i] = r[i].ext /\ r[i].len = LenOf(R[i])
                                /\ r[i].len \in Nat /\ r[i].len > 0
      /\ \A i \in Pos : i > Len(r) => R[i] = <<>>
      /\ r \in Seq(ReadStreams)
  BY <1>5 DEF Reads
<1>8. /\ Tiles(X, o, a, n) /\ (\A i \in Pos : X[i] # <<>> <=> i <= Len(s))
      /\ \A i \in 1 .. Len(s) : Shown(s[i], X[i], o)
  BY <1>3 DEF SealedBy, Seals, a, n
<1>9. \A i \in Pos : R[i] = X[i]
  <2> SUFFICES ASSUME NEW i \in Pos PROVE R[i] = X[i]
    OBVIOUS
  <2>1. QED
    BY <1>2, <1>6, <1>7, <1>8, PrefixEnds
<1>10. Len(r) = Len(s)
  <2> DEFINE k == Len(r)
             m == Len(s)
  <2>1. \A i \in Pos : i <= k <=> i <= m
    <3> SUFFICES ASSUME NEW i \in Pos PROVE i <= k <=> i <= m
      OBVIOUS
    <3>1. i <= m <=> R[i] # <<>>
      BY <1>8, <1>9
    <3>2. ASSUME i <= k PROVE R[i] # <<>>
      <4>1. i \in 1 .. Len(r)
        BY <1>7, <3>2 DEF Pos
      <4>2. LenOf(R[i]) > 0
        BY <1>7, <4>1
      <4>3. QED
        BY <4>2, EmptyPacked
    <3>3. ASSUME ~(i <= k) PROVE R[i] = <<>>
      <4>1. i > Len(r)
        BY <1>7, <3>3 DEF Pos
      <4>2. QED
        BY <1>7, <4>1
    <3>4. QED
      BY <3>1, <3>2, <3>3
  <2>2. k \in Nat /\ m \in Nat
    BY <1>4, <1>7
  <2> HIDE DEF k, m
  <2>3. k <= m
    BY <2>1, <2>2 DEF Pos
  <2>4. m <= k
    BY <2>1, <2>2 DEF Pos
  <2>5. QED
    BY <2>2, <2>3, <2>4 DEF k, m
<1>11. \A i \in 1 .. Len(s) : Bytewise(r[i], o) = Bytewise(s[i], o)
  <2> SUFFICES ASSUME NEW i \in 1 .. Len(s) PROVE Bytewise(r[i], o) = Bytewise(s[i], o)
    OBVIOUS
  <2> DEFINE x == R[i]
             v == r[i]
             w == s[i]
             l == LenOf(x)
  <2>1. i \in 1 .. Len(r) /\ i \in Pos
    BY <1>7, <1>10
  <2>2. x = X[i] /\ v.ext = x /\ v.len = l
    BY <1>7, <1>9, <2>1
  <2>3. Shown(w, x, o)
    BY <1>8, <2>2
  <2>4. v \in Resting
    <3>1. v \in ReadStreams
      BY <1>7, <2>1, ElementOfSeq
    <3>2. QED
      BY <3>1, ReadRests
  <2> HIDE DEF x, v, w
  <2>5. \A at : ByteAt(v, at, o) = Shows(x, o, at)
    BY <2>2, <2>4, RestingByte
  <2>6. w.len = l /\ \A k \in 1 .. l : ByteAt(w, k - 1, o) = Shows(x, o, k - 1)
    BY <2>3 DEF Shown
  <2> HIDE DEF l
  <2>7. Bytewise(v, o) = Bytewise(w, o)
    BY <2>2, <2>5, <2>6 DEF Bytewise
  <2>8. QED
    BY <2>7 DEF v, w
<1>12. Means(r, o) = Means(s, o)
  <2>1. DOMAIN r = 1 .. Len(s)
    BY <1>7, <1>10
  <2>2. QED
    BY <1>4, <1>11, <2>1 DEF Means
<1>13. QED
  BY <1>12 DEF r, s, o

-----------------------------------------------------------------------------
(* The steps of the list of streams, by what it means now and then.        *)

(* And behind a step.                                                      *)
LEMMA MeansThen ==
  (MeansNow = IF foreign THEN <<>> ELSE [i \in DOMAIN Meant |-> StreamBytes(Meant[i])])'
BY MeansIs, PTL

(* An empty list that is open is how the list starts.                      *)
LEMMA AbstractInit == MeansNow = <<>> /\ Stage = "open" => Archived!Init
BY MeansIs DEF Archived!Init

AddsStream ==
  /\ Stage = "open" /\ Stage' = "open" /\ Len(MeansNow) < StreamMax
  /\ \E n \in 0 .. ByteMax : \E data \in [1 .. n -> Bytes] : MeansNow' = Append(MeansNow, data)

AddsByte ==
  /\ Stage = "open" /\ Stage' = "open"
  /\ \E i \in DOMAIN MeansNow, b \in Bytes :
       MeansNow' = [MeansNow EXCEPT ![i] = Append(@, b)]

SealsAll ==
  /\ Stage = "open" /\ MeansNow' = MeansNow
  /\ Stage' = IF \A i \in DOMAIN MeansNow : MeansNow[i] # <<>> THEN "sealed" ELSE "refused"

LoadsAll == Stage = "sealed" /\ Stage' = "loaded" /\ MeansNow' = MeansNow

Stays == MeansNow' = MeansNow /\ Stage' = Stage

(* Each of these is a step of the list of streams, or leaves it.           *)
LEMMA AbstractStep ==
  AddsStream \/ AddsByte \/ SealsAll \/ LoadsAll \/ Stays => [Archived!Next]_Archived!vars
<1>1. AddsStream => Archived!New
  BY MeansIs, MeansThen DEF AddsStream, Archived!New
<1>2. AddsByte => Archived!Grow
  BY MeansIs, MeansThen DEF AddsByte, Archived!Grow
<1>3. SealsAll => Archived!Seal
  BY MeansIs, MeansThen DEF SealsAll, Archived!Seal
<1>4. LoadsAll => Archived!Load
  BY MeansIs, MeansThen DEF LoadsAll, Archived!Load
<1>5. Stays => UNCHANGED Archived!vars
  BY MeansIs, MeansThen DEF Stays, Archived!vars
<1>6. QED
  BY <1>1, <1>2, <1>3, <1>4, <1>5 DEF Archived!Next

(* What the archive is, as a list of streams.                              *)
IsNow ==
  /\ foreign => MeansNow = <<>> /\ Stage = "open"
  /\ ~foreign => MeansNow = Means(made.s, output)
  /\ ~foreign /\ phase \in {"begin", "streaming", "taking"} => Stage = "open"
  /\ ~foreign /\ phase \in {"sealed", "reading"} => Stage = "sealed"
  /\ ~foreign /\ phase = "read" => Stage = "loaded"
  /\ ~foreign /\ phase = "fatal" => Stage = "refused"

(* It is that in every state of the invariant.                             *)
LEMMA NowIs == IInv => IsNow
<1> SUFFICES ASSUME IInv PROVE IsNow
  OBVIOUS
<1>1. foreign => MeansNow = <<>> /\ Stage = "open"
  BY DEF MeansNow, Stage
<1>2. ~foreign => MeansNow = Means(made.s, output)
  <2>1. CASE phase = "read"
    BY <2>1, ReadsBack DEF MeansNow, Meant
  <2>2. CASE phase # "read"
    BY <2>2 DEF MeansNow, Meant
  <2>3. QED
    BY <2>1, <2>2
<1>3. ~foreign /\ phase \in {"begin", "streaming", "taking"} => Stage = "open"
  BY DEF Stage
<1>4. ~foreign /\ phase \in {"sealed", "reading"} => Stage = "sealed"
  BY DEF Stage
<1>5. ~foreign /\ phase = "read" => Stage = "loaded"
  BY DEF Stage
<1>6. ~foreign /\ phase = "fatal" => Stage = "refused"
  BY DEF Stage
<1>7. QED
  BY <1>1, <1>2, <1>3, <1>4, <1>5, <1>6 DEF IsNow

(* And behind a step.                                                      *)
LEMMA ThenIs == (IInv => IsNow)'
BY NowIs, PTL

AbstractMove == AddsStream \/ AddsByte \/ SealsAll \/ LoadsAll \/ Stays

(* An archive written here, before and behind a step.                      *)
Own == IsNow /\ IsNow' /\ ~foreign /\ ~foreign'

(* The list and the stage of an archive written here.                      *)
LEMMA OwnFacts ==
  Own => /\ MeansNow = Means(made.s, output) /\ MeansNow' = Means(made'.s, output')
         /\ phase \in {"begin", "streaming", "taking"} => Stage = "open"
         /\ phase' \in {"begin", "streaming", "taking"} => Stage' = "open"
         /\ phase \in {"sealed", "reading"} => Stage = "sealed"
         /\ phase' \in {"sealed", "reading"} => Stage' = "sealed"
         /\ phase' = "read" => Stage' = "loaded"
         /\ phase' = "fatal" => Stage' = "refused"
BY DEF Own, IsNow

(* arc_begin leaves the list.                                              *)
LEMMA BeginMoves == IInv /\ Own /\ arc_begin => AbstractMove
<1> SUFFICES ASSUME IInv, Own, arc_begin PROVE AbstractMove
  OBVIOUS
<1>1. phase = "begin" /\ phase' = "streaming" /\ made'.s = made.s /\ made.s = <<>>
  BY DEF arc_begin, IInv, WritesWell, Empty
<1>2. \A o : Means(<<>>, o) = <<>>
  BY DEF Means
<1>3. MeansNow' = MeansNow /\ Stage' = Stage
  BY <1>1, <1>2, OwnFacts
<1>4. QED
  BY <1>3 DEF AbstractMove, Stays

(* A stream more at the end of the list.                                   *)
LEMMA AddsOne ==
  ASSUME Own, phase \in {"begin", "streaming", "taking"},
         phase' \in {"begin", "streaming", "taking"},
         NEW W, made.s \in Seq(W), Len(made.s) < StreamMax, NEW w, NEW u,
         made'.s = Append(made.s, w), output' = output,
         NEW n \in 0 .. ByteMax, u \in [1 .. n -> Bytes], Bytewise(w, output) = u
  PROVE  AddsStream
<1> DEFINE m == Means(made.s, output)
<1>1. Stage = "open" /\ Stage' = "open" /\ MeansNow = m
  BY OwnFacts
<1>2. MeansNow' = Append(m, u)
  BY OwnFacts, MeansMore
<1>3. Len(m) = Len(made.s)
  <2>1. DOMAIN made.s = 1 .. Len(made.s) /\ Len(made.s) \in Nat
    BY LenProperties
  <2>2. DOMAIN m = 1 .. Len(made.s)
    BY <2>1 DEF Means
  <2> HIDE DEF m
  <2>3. m \in Seq({m[i] : i \in DOMAIN m})
    <3> DEFINE k == Len(made.s)
               T == {m[i] : i \in DOMAIN m}
    <3>1. m \in [1 .. k -> T] /\ k \in Nat
      <4>1. m = [i \in 1 .. k |-> m[i]]
        <5>1. m = [i \in DOMAIN made.s |-> Bytewise(made.s[i], output)]
          BY DEF m, Means
        <5>2. QED
          BY <2>1, <5>1
      <4>2. \A i \in 1 .. k : m[i] \in T
        BY <2>2
      <4> HIDE DEF T, k
      <4>3. m \in [1 .. k -> T]
        BY <4>1, <4>2
      <4>4. QED
        BY <2>1, <4>3 DEF k
    <3> HIDE DEF T, k
    <3>2. m \in Seq(T)
      BY <3>1
    <3>3. QED
      BY <3>2 DEF T
  <2>4. QED
    BY <2>1, <2>2, <2>3, LenProperties
<1>4. QED
  BY <1>1, <1>2, <1>3 DEF AddsStream

(* arc_newstream adds an empty stream.                                     *)
LEMMA NewStreamMoves == IInv /\ Own /\ arc_newstream => AbstractMove
<1> SUFFICES ASSUME IInv, Own, arc_newstream PROVE AbstractMove
  OBVIOUS
<1> DEFINE w == Stream(<<>>)
           z == 0
           u == <<>>
<1>1. /\ phase = "streaming" /\ phase' = "streaming" /\ Len(made.s) < StreamMax
      /\ made' = [made EXCEPT !.s = Append(@, w)] /\ output' = output
  BY DEF arc_newstream
<1>2. made.s \in Seq(Kept) /\ made'.s = Append(made.s, w)
  BY <1>1 DEF IInv, Typed, Mades
<1>3. Bytewise(w, output) = u
  BY NewBytes
<1>4. z \in 0 .. ByteMax /\ u \in [1 .. z -> Bytes]
  BY BoundAssumption
<1> HIDE DEF w, z, u
<1>5. AddsStream
  BY <1>1, <1>2, <1>3, <1>4, AddsOne
<1>6. QED
  BY <1>5 DEF AbstractMove

(* arc_take adds a stream with its bytes.                                  *)
LEMMA TakeMoves == IInv /\ Own /\ arc_take => AbstractMove
<1> SUFFICES ASSUME IInv, Own, arc_take PROVE AbstractMove
  OBVIOUS
<1>1. PICK n \in 1 .. ByteMax : \E data \in [1 .. n -> Bytes] :
        /\ Len(made.s) < StreamMax /\ made.s \in Seq(Held) /\ made.tune = <<>>
        /\ made' = [made EXCEPT !.s = Append(@, Stream(data))]
        /\ Stream(data) \in Held /\ data \in Seq(Bytes)
  BY TakeGoes
<1>2. PICK data \in [1 .. n -> Bytes] :
        /\ Len(made.s) < StreamMax /\ made.s \in Seq(Held) /\ made.tune = <<>>
        /\ made' = [made EXCEPT !.s = Append(@, Stream(data))]
        /\ Stream(data) \in Held /\ data \in Seq(Bytes)
  BY <1>1
<1>3. phase \in {"begin", "taking"} /\ phase' = "taking" /\ output' = output
  BY DEF arc_take
<1> DEFINE w == Stream(data)
<1>4. made \in Mades
  BY DEF IInv, Typed
<1>5. made'.s = Append(made.s, w)
  BY <1>2, <1>4 DEF Mades
<1>6. n \in 0 .. ByteMax /\ Len(data) = n /\ data # <<>>
  <2>1. n \in Nat /\ n >= 1 /\ n <= ByteMax
    BY BoundAssumption
  <2>2. 1 \in DOMAIN data
    BY <2>1
  <2>3. QED
    BY <1>2, <2>1, <2>2
<1>7. Bytewise(w, output) = data
  BY <1>2, <1>6, HeldBytes
<1> HIDE DEF w
<1>8. AddsStream
  BY <1>2, <1>3, <1>5, <1>6, <1>7, AddsOne
<1>9. QED
  BY <1>8 DEF AbstractMove

(* What a step of the streamed archive does to the list.                   *)
LEMMA StreamsOnFacts ==
  ASSUME IInv, Own, NEW t, NEW u, StreamsOn(t, u), Len(t) = Len(made.s)
  PROVE  /\ Stage = "open" /\ Stage' = "open"
         /\ MeansNow = Means(made.s, output) /\ MeansNow' = Means(t, u)
         /\ DOMAIN made.s = 1 .. Len(made.s) /\ DOMAIN t = DOMAIN made.s
<1>1. /\ phase = "streaming" /\ phase' = "streaming" /\ made' = [made EXCEPT !.s = t]
      /\ output' = u /\ t \in Seq(Written)
  BY DEF StreamsOn
<1>2. made \in Mades /\ DOMAIN made.s = 1 .. Len(made.s)
  BY <1>1, NowStreaming
<1>3. made'.s = t
  BY <1>1, <1>2 DEF Mades
<1>4. DOMAIN t = 1 .. Len(t)
  BY <1>1, LenProperties
<1>5. QED
  BY <1>1, <1>2, <1>3, <1>4, OwnFacts

(* bf_put adds a byte to one of the streams.                               *)
LEMMA PutMoves == IInv /\ Own /\ bf_put => AbstractMove
<1> SUFFICES ASSUME IInv, Own, bf_put PROVE AbstractMove
  OBVIOUS
<1>1. PICK i \in DOMAIN made.s, b \in Bytes : \E t, u :
        ~made.s[i].done /\ Puts(made.s, i, output, b, t, u) /\ StreamsOn(t, u)
  BY PutGoes
<1>2. PICK t, u : ~made.s[i].done /\ Puts(made.s, i, output, b, t, u) /\ StreamsOn(t, u)
  BY <1>1
<1> DEFINE s == made.s
           o == output
           tune == made.tune
<1>3. phase = "streaming"
  BY <1>2 DEF StreamsOn
<1>4. s \in Seq(Written) /\ Streamed(s, tune, o) /\ i \in 1 .. Len(s)
  BY <1>3, NowStreaming
<1>5. ~s[i].done /\ Puts(s, i, o, b, t, u)
  BY <1>2
<1> HIDE DEF s, o, tune
<1>6. Len(t) = Len(s) /\ PutDone(s, o, i, b, t, u)
  BY <1>4, <1>5, PutStep
<1>7. /\ Stage = "open" /\ Stage' = "open" /\ MeansNow = Means(s, o) /\ MeansNow' = Means(t, u)
      /\ DOMAIN s = 1 .. Len(s) /\ DOMAIN t = DOMAIN s
  BY <1>2, <1>6, StreamsOnFacts DEF s, o
<1>8. Means(t, u) = [Means(s, o) EXCEPT ![i] = Append(@, b)]
  <2>1. i \in DOMAIN s
    BY <1>4, <1>7
  <2>2. MeansGrown(s, o, i, b, t, u)
    BY <1>6, <1>7, <2>1, MeansGrows
  <2>3. QED
    BY <2>2 DEF MeansGrown
<1>9. i \in DOMAIN MeansNow
  BY <1>4, <1>7 DEF Means
<1>10. AddsByte
  BY <1>7, <1>8, <1>9 DEF AddsByte
<1>11. QED
  BY <1>10 DEF AbstractMove

(* bf_dropcache leaves the list.                                           *)
LEMMA DropMoves == IInv /\ Own /\ bf_dropcache => AbstractMove
<1> SUFFICES ASSUME IInv, Own, bf_dropcache PROVE AbstractMove
  OBVIOUS
<1>1. PICK i \in DOMAIN made.s : \E t, u : Drops(made.s, i, output, t, u) /\ StreamsOn(t, u)
  BY DropGoes
<1>2. PICK t, u : Drops(made.s, i, output, t, u) /\ StreamsOn(t, u)
  BY <1>1
<1> DEFINE s == made.s
           o == output
           tune == made.tune
<1>3. phase = "streaming"
  BY <1>2 DEF StreamsOn
<1>4. s \in Seq(Written) /\ Streamed(s, tune, o) /\ i \in 1 .. Len(s)
  BY <1>3, NowStreaming
<1>5. Drops(s, i, o, t, u)
  BY <1>2
<1> HIDE DEF s, o, tune
<1>6. Len(t) = Len(s) /\ SameBytes(s, o, t, u)
  BY <1>4, <1>5, DropStep
<1>7. /\ Stage = "open" /\ Stage' = "open" /\ MeansNow = Means(s, o) /\ MeansNow' = Means(t, u)
      /\ DOMAIN s = 1 .. Len(s) /\ DOMAIN t = DOMAIN s
  BY <1>2, <1>6, StreamsOnFacts DEF s, o
<1>8. Means(t, u) = Means(s, o)
  BY <1>6, <1>7, MeansSame
<1>9. QED
  BY <1>7, <1>8 DEF AbstractMove, Stays

(* The end marker changes no byte.                                         *)
LEMMA EndKeeps ==
  ASSUME NEW w \in Seq(Resting), NEW tune, NEW u, Streamed(w, tune, u),
         NEW t, Agree(u, t, Len(u))
  PROVE  Means(w, t) = Means(w, u)
<1> DEFINE X == Exts(w)
           a == 2 + Len(tune)
           n == Len(u)
<1>1. w \in Seq(Stored) /\ u \in Seq(Nat) /\ Header(tune, u) /\ Tiles(X, u, a, n)
  BY DEF Streamed
<1>2. a \in Nat /\ n \in Nat
  <2>1. Len(tune) \in Nat /\ n \in Nat
    BY <1>1, LenProperties DEF Header
  <2>2. QED
    BY <2>1
<1>3. DOMAIN w = 1 .. Len(w) /\ \A j \in 1 .. Len(w) : j \in Pos /\ w[j] \in Stored
                                                      /\ w[j].ext = X[j]
  BY <1>1, ExtsFacts
<1>4. Agree(u, t, n)
  OBVIOUS
<1> HIDE DEF X, a, n
<1>5. \A j \in 1 .. Len(w) : Same(w[j], u, w[j], t)
  <2> SUFFICES ASSUME NEW j \in 1 .. Len(w) PROVE Same(w[j], u, w[j], t)
    OBVIOUS
  <2> DEFINE st == w[j]
  <2>1. j \in Pos /\ st \in Stored /\ st.ext = X[j]
    BY <1>3
  <2> HIDE DEF st
  <2>2. Same(st, u, st, t)
    BY <1>1, <1>2, <1>4, <2>1, BytesStay
  <2>3. QED
    BY <2>2 DEF st
<1>6. SameBytes(w, u, w, t)
  BY <1>5 DEF SameBytes
<1>7. QED
  BY <1>3, <1>6, MeansSame

(* Streams have bytes, all of them, when their lengths are not zero.       *)
LEMMA AllHaveBytes ==
  ASSUME NEW s, DOMAIN s = 1 .. Len(s), \A i \in 1 .. Len(s) : s[i].len \in Nat, NEW o
  PROVE  (\A i \in DOMAIN Means(s, o) : Means(s, o)[i] # <<>>)
         <=> \A i \in 1 .. Len(s) : s[i].len > 0
<1>1. DOMAIN Means(s, o) = 1 .. Len(s) /\ \A i \in 1 .. Len(s) : Means(s, o)[i] = Bytewise(s[i], o)
  BY DEF Means
<1>2. \A i \in 1 .. Len(s) : Bytewise(s[i], o) # <<>> <=> s[i].len > 0
  BY HasBytes
<1>3. QED
  BY <1>1, <1>2

(* arc_finish seals the list, or refuses one with an empty stream.         *)
LEMMA FinishMoves == IInv /\ Own /\ arc_finish => AbstractMove
<1> SUFFICES ASSUME IInv, Own, arc_finish PROVE AbstractMove
  OBVIOUS
<1>1. PICK all : FinishOf(all)
  BY FinishGoes
<1> DEFINE s == made.s
           w == all.s
           o == output
           u == all.out
           tune == made.tune
           t == Append(u, 0)
           m == Means(s, o)
<1>2. /\ phase = "streaming" /\ Streamed(w, tune, u) /\ w \in Seq(Resting) /\ Len(w) = Len(s)
      /\ SameBytes(s, o, w, u) /\ \A i \in 1 .. Len(s) : s[i].len \in Nat
  BY <1>1 DEF FinishOf
<1>3. made \in Mades /\ DOMAIN s = 1 .. Len(s)
  BY <1>2, NowStreaming
<1>4. MeansNow = m /\ MeansNow' = Means(made'.s, output') /\ Stage = "open"
  BY <1>2, OwnFacts
<1>5. (\A i \in DOMAIN m : m[i] # <<>>) <=> \A i \in 1 .. Len(s) : s[i].len > 0
  <2> HIDE DEF s, o
  <2>1. QED
    BY <1>2, <1>3, AllHaveBytes
<1>6. CASE /\ \A i \in 1 .. Len(s) : s[i].len > 0
           /\ made' = [made EXCEPT !.s = w] /\ output' = t /\ phase' = "sealed"
  <2>1. made'.s = w /\ Stage' = "sealed" /\ output' = t
    BY <1>3, <1>6, OwnFacts DEF Mades
  <2>2. \A i \in 1 .. Len(w) : w[i].len > 0
    BY <1>2, <1>6 DEF SameBytes, Same
  <2> HIDE DEF s, w, o, u, tune
  <2>3. Agree(u, t, Len(u))
    BY <1>2, <2>2, FinishSeals
  <2> HIDE DEF t
  <2>4. Means(w, t) = Means(w, u)
    BY <1>2, <2>3, EndKeeps
  <2>5. DOMAIN w = DOMAIN s
    BY <1>2, <1>3, LenProperties
  <2>6. Means(w, u) = m
    BY <1>2, <1>3, <2>5, MeansSame
  <2>7. MeansNow' = MeansNow
    BY <1>4, <2>1, <2>4, <2>6
  <2>8. \A i \in DOMAIN MeansNow : MeansNow[i] # <<>>
    BY <1>4, <1>5, <1>6
  <2>9. SealsAll
    BY <1>4, <2>1, <2>7, <2>8 DEF SealsAll
  <2>10. QED
    BY <2>9 DEF AbstractMove
<1>7. CASE /\ \E i \in 1 .. Len(s) : s[i].len = 0
           /\ phase' = "fatal" /\ UNCHANGED <<output, made>>
  <2>1. MeansNow' = MeansNow /\ Stage' = "refused"
    BY <1>4, <1>7, OwnFacts
  <2>2. ~(\A i \in DOMAIN m : m[i] # <<>>)
    <3>1. PICK i \in 1 .. Len(s) : s[i].len = 0
      BY <1>7
    <3>2. ~(s[i].len > 0)
      BY <3>1
    <3>3. QED
      BY <1>5, <3>2
  <2>3. SealsAll
    BY <1>4, <2>1, <2>2 DEF SealsAll
  <2>4. QED
    BY <2>3 DEF AbstractMove
<1>8. QED
  BY <1>1, <1>6, <1>7 DEF FinishOf

(* arc_write seals the list.                                               *)
LEMMA WriteMoves == IInv /\ Own /\ arc_write => AbstractMove
<1> SUFFICES ASSUME IInv, Own, arc_write PROVE AbstractMove
  OBVIOUS
<1> DEFINE s == made.s
           o == output
           t == output'
<1>1. phase = "taking" /\ phase' = "sealed" /\ made' = made /\ s \in Seq(Held)
  BY DEF arc_write, IInv, WritesWell
<1>2. MeansNow = Means(s, o) /\ MeansNow' = Means(s, t) /\ Stage = "open" /\ Stage' = "sealed"
  BY <1>1, OwnFacts
<1>3. DOMAIN s = 1 .. Len(s) /\ \A i \in 1 .. Len(s) : s[i] \in Held
  BY <1>1, LenProperties, ElementOfSeq
<1> HIDE DEF s, o, t
<1>4. ASSUME NEW i \in 1 .. Len(s)
      PROVE  /\ Bytewise(s[i], t) = Bytewise(s[i], o) /\ s[i].len \in Nat /\ s[i].len > 0
  <2> DEFINE st == s[i]
  <2>1. st \in Held
    BY <1>3
  <2> HIDE DEF st
  <2>2. st.len \in Nat \ {0} /\ \A at, e : ByteAt(st, at, e) = st.data[at + 1]
    BY <2>1, HeldFacts
  <2>3. st.len \in Nat /\ st.len > 0
    BY <2>2
  <2>4. Bytewise(st, t) = Bytewise(st, o)
    BY <2>2 DEF Bytewise
  <2>5. QED
    BY <2>3, <2>4 DEF st
<1>5. Means(s, t) = Means(s, o)
  BY <1>3, <1>4 DEF Means
<1>6. \A i \in DOMAIN Means(s, o) : Means(s, o)[i] # <<>>
  BY <1>3, <1>4, AllHaveBytes
<1>7. SealsAll
  BY <1>2, <1>5, <1>6 DEF SealsAll
<1>8. QED
  BY <1>7 DEF AbstractMove

(* What is written here is an archive.                                     *)
LEMMA OwnIsArchive ==
  IInv /\ ~foreign /\ phase \in {"sealed", "reading"} => IsArchive(output)
<1> SUFFICES ASSUME IInv, ~foreign, phase \in {"sealed", "reading"} PROVE IsArchive(output)
  OBVIOUS
<1> DEFINE s == made.s
<1>1. output \in Seq(Nat) /\ s \in Seq(Kept) /\ Sealed(s, made.tune, output)
  BY DEF IInv, Typed, Mades, WritesWell
<1>2. Len(s) \in Nat
  BY <1>1, LenProperties
<1> HIDE DEF s
<1>3. PICK X : Seals(X, Len(s), output)
  BY <1>1 DEF Sealed, SealedBy
<1>4. WellBegun(output) /\ Cut(output, Starts(X))
  BY <1>1, <1>2, <1>3, SealedCuts
<1>5. QED
  BY <1>4 DEF IsArchive

(* arc_read leaves the list: what was sealed is not refused.               *)
LEMMA ReadMoves == IInv /\ Own /\ arc_read => AbstractMove
<1> SUFFICES ASSUME IInv, Own, arc_read PROVE AbstractMove
  OBVIOUS
<1>1. phase = "sealed" /\ output' = output /\ made' = made /\ ~foreign
  BY DEF Own, arc_read, IInv, Typed
<1>2. Starting(output)
  <2>1. output \in Seq(Nat)
    BY DEF IInv, Typed
  <2>2. IsArchive(output)
    BY <1>1, OwnIsArchive
  <2>3. QED
    BY <2>1, <2>2, ArchiveStarts
<1>3. phase' = "reading"
  BY <1>2, ReadGoes
<1>4. MeansNow' = MeansNow /\ Stage' = Stage
  BY <1>1, <1>3, OwnFacts
<1>5. QED
  BY <1>4 DEF AbstractMove, Stays

(* A round of the reader leaves the list, or loads it at the end.          *)
LEMMA RoundMoves == IInv /\ Own /\ chunk_read => AbstractMove
<1> SUFFICES ASSUME IInv, Own, chunk_read PROVE AbstractMove
  OBVIOUS
<1>1. phase = "reading" /\ output' = output /\ made' = made /\ ~foreign
  BY DEF Own, chunk_read
<1>2. IsArchive(output)
  BY <1>1, OwnIsArchive
<1>3. MeansNow' = MeansNow /\ Stage = "sealed"
  BY <1>1, OwnFacts
<1>4. CASE phase' = "read"
  <2>1. Stage' = "loaded"
    BY <1>4, OwnFacts
  <2>2. QED
    BY <1>3, <2>1 DEF AbstractMove, LoadsAll
<1>5. CASE phase' = phase
  <2>1. Stage' = "sealed"
    BY <1>1, <1>5, OwnFacts
  <2>2. QED
    BY <1>3, <2>1 DEF AbstractMove, Stays
<1>6. QED
  BY <1>2, <1>4, <1>5, RoundGoes

(* A file that was not written here is not followed.                       *)
LEMMA OthersMove == IsNow /\ IsNow' /\ foreign /\ foreign' => AbstractMove
BY DEF IsNow, AbstractMove, Stays

(* A step that changes nothing leaves the list.                            *)
LEMMA RestMoves == Own /\ UNCHANGED vars => AbstractMove
<1> SUFFICES ASSUME Own, UNCHANGED vars PROVE AbstractMove
  OBVIOUS
<1>1. /\ foreign' = foreign /\ phase' = phase /\ made' = made /\ arc' = arc /\ output' = output
  BY DEF vars
<1>2. MeansNow' = MeansNow
  BY <1>1, OwnFacts
<1>3. Stage' = Stage
  BY <1>1 DEF Stage
<1>4. QED
  BY <1>2, <1>3 DEF AbstractMove, Stays

(* Every step is one of the list of streams or leaves it.                  *)
LEMMA NextMoves == IInv /\ IInv' /\ [Next]_vars => [Archived!Next]_Archived!vars
<1> SUFFICES ASSUME IInv, IInv', [Next]_vars PROVE [Archived!Next]_Archived!vars
  OBVIOUS
<1>1. foreign' = foreign
  BY DEF Next, vars, arc_begin, arc_newstream, bf_put, bf_dropcache, arc_finish, arc_take,
         arc_write, arc_read, chunk_read
<1>2. IsNow /\ IsNow'
  BY NowIs, ThenIs
<1>3. CASE foreign
  <2>1. AbstractMove
    BY <1>1, <1>2, <1>3, OthersMove
  <2>2. QED
    BY <2>1, AbstractStep DEF AbstractMove
<1>4. CASE ~foreign
  <2>1. Own
    BY <1>1, <1>2, <1>4 DEF Own
  <2>2. AbstractMove
    BY <2>1, BeginMoves, NewStreamMoves, PutMoves, DropMoves, FinishMoves, TakeMoves, WriteMoves,
       ReadMoves, RoundMoves, RestMoves DEF Next
  <2>3. QED
    BY <2>2, AbstractStep DEF AbstractMove
<1>5. QED
  BY <1>3, <1>4

(* The first state is the first state of the list.                         *)
LEMMA InitMoves == Init => Archived!Init
<1> SUFFICES ASSUME Init PROVE Archived!Init
  OBVIOUS
<1>1. IsNow
  BY InitInv, NowIs
<1>2. made.s = <<>> /\ (~foreign => phase = "begin")
  BY DEF Init, Empty
<1>3. Means(<<>>, output) = <<>>
  BY DEF Means
<1>4. MeansNow = <<>> /\ Stage = "open"
  BY <1>1, <1>2, <1>3 DEF IsNow
<1>5. QED
  BY <1>4, AbstractInit

(* The chunked image is the list of streams: each step of the archive is a *)
(* step of the list or leaves it, and what is read back is what was        *)
(* written, byte for byte, whatever the order the streams grew in.         *)
THEOREM ArchiveIsStreams == Spec => Implements
<1>1. Init => Archived!Init
  BY InitMoves
<1>2. IInv /\ IInv' /\ [Next]_vars => [Archived!Next]_Archived!vars
  BY NextMoves
<1>3. QED
  BY <1>1, <1>2, Invariant, PTL DEF Spec, Implements, Archived!Spec
=============================================================================
