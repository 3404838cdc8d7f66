-------------------------- MODULE RangeCoderProofs -------------------------
(***************************************************************************)
(* The range coder of rc.h and rc.c, for every byte size: it never gives   *)
(* up, a carry always has a byte to go to, the adaptive probabilities      *)
(* never reach nought or one, and a decoder always makes progress.         *)
(* The second half shows that the decoder gives back what was encoded: it  *)
(* follows both sides in the interval of numbers the bits so far stand     *)
(* for, written without the loss of any digit.                             *)
(***************************************************************************)
EXTENDS RangeCoder, NatFacts, SequenceTheorems, TLAPS

(* The powers of Byte, as far as the proofs need them.                     *)
LEMMA Powers ==
  /\ Byte \in Nat /\ Byte >= 2
  /\ Prob \in Nat /\ Prob >= 4 /\ Prob >= 2 * Byte /\ Prob > 0
  /\ Top \in Nat /\ Top > 0 /\ Top = Prob * Byte /\ Top >= 2 * Prob
  /\ Full \in Nat /\ Full = Top * Byte /\ Full >= 2 * Top
<1>1. Byte \in Nat /\ Byte >= 2
  BY ByteAssumption
<1>2. \A n \in Nat : n * Byte \in Nat /\ n * Byte >= 2 * n
  BY <1>1
<1>3. Prob \in Nat /\ Prob >= 2 * Byte
  BY <1>1, <1>2 DEF Prob
<1>4. Top \in Nat /\ Top >= 2 * Prob
  BY <1>2, <1>3 DEF Top
<1>5. Full \in Nat /\ Full >= 2 * Top
  BY <1>2, <1>4 DEF Full
<1>6. QED
  BY <1>1, <1>3, <1>4, <1>5 DEF Top, Full

LEMMA Scaled ==
  ASSUME NEW a \in Nat, NEW b \in Nat, NEW k \in Nat, a <= b
  PROVE  a * k \in Nat /\ a * k <= b * k
<1>1. PICK c \in Nat : b = a + c
  <2>1. b - a \in Nat /\ b = a + (b - a)
    OBVIOUS
  <2>2. QED
    BY <2>1
<1>2. b * k = a * k + c * k /\ c * k \in Nat /\ a * k \in Nat
  BY <1>1
<1>3. QED
  BY <1>2

(* Division by a positive number.                                          *)
LEMMA Quotient ==
  ASSUME NEW a \in Nat, NEW k \in Nat, k > 0
  PROVE  /\ a \div k \in Nat /\ a % k \in 0 .. k - 1
         /\ a = k * (a \div k) + (a % k) /\ a \div k <= a
<1>1. a \div k \in Int /\ a % k \in 0 .. k - 1 /\ a = k * (a \div k) + (a % k)
  OBVIOUS
<1>2. a \div k \in Nat
  BY <1>1
<1>3. a \div k <= k * (a \div k)
  BY <1>2, Scaled
<1>4. QED
  BY <1>1, <1>2, <1>3

LEMMA QuotientBelow ==
  ASSUME NEW a \in Nat, NEW b \in Nat, NEW k \in Nat, k > 0, a < b * k
  PROVE  a \div k < b
<1>1. a \div k \in Nat /\ k * (a \div k) <= a
  BY Quotient
<1>2. SUFFICES ASSUME b <= a \div k PROVE FALSE
  BY <1>1
<1>3. b * k <= (a \div k) * k
  BY <1>1, <1>2, Scaled
<1>4. (a \div k) * k = k * (a \div k)
  BY <1>1
<1>5. b * k \in Nat
  OBVIOUS
<1>6. QED
  BY <1>1, <1>3, <1>4, <1>5

LEMMA QuotientLess ==
  ASSUME NEW w \in Nat, w > 0, NEW k \in Nat, k >= 2
  PROVE  w \div k \in 0 .. w - 1
<1>1. 2 * w <= k * w
  BY Scaled
<1>2. k * w = w * k /\ w * k \in Nat
  OBVIOUS
<1> DEFINE x == w * k
<1>3. 2 * w <= x /\ x \in Nat
  BY <1>1, <1>2
<1> HIDE DEF x
<1>4. w < x
  BY <1>3
<1>5. w < w * k
  BY <1>4 DEF x
<1>6. w \div k < w
  BY <1>5, QuotientBelow
<1>7. QED
  BY <1>6, Quotient

-----------------------------------------------------------------------------
(* The adaptive probabilities.                                             *)

LEMMA FixedKept ==
  ASSUME NEW v \in 1 .. Prob - 2, NEW bit \in {0, 1}
  PROVE  rc_adapt_fixed(v, bit) \in 1 .. Prob - 2
<1>1. ASSUME NEW w \in Nat, w > 0
      PROVE  w \div Rate \in 0 .. w - 1
  BY <1>1, RateAssumption, QuotientLess
<1>2. v \div Rate \in 0 .. v - 1
  <2>1. v \in Nat /\ v > 0
    BY Powers
  <2>2. QED
    BY <1>1, <2>1
<1>3. (Prob - 1 - v) \div Rate \in 0 .. Prob - 2 - v
  <2> DEFINE w == Prob - 1 - v
  <2>1. w \in Nat /\ w > 0 /\ Prob - 2 - v = w - 1
    BY Powers
  <2> HIDE DEF w
  <2>2. w \div Rate \in 0 .. w - 1
    BY <1>1, <2>1
  <2>3. QED
    BY <2>1, <2>2 DEF w
<1>4. QED
  BY <1>2, <1>3, Powers DEF rc_adapt_fixed

LEMMA CountedKept ==
  ASSUME NEW v \in 1 .. Prob - 2, NEW rate \in 0 .. Prob - 1, NEW bit \in {0, 1}
  PROVE  rc_adapt_prob(v, rate, bit) \in 1 .. Prob - 2
<1> USE Powers
<1>1. ASSUME NEW w \in Nat \ {0}
      PROVE  (w * rate) \div Prob \in 0 .. w - 1
  <2>1. w * rate \in Nat /\ w * rate < w * Prob
    <3>1. w * rate + w <= w * Prob
      <4>1. (rate + 1) * w <= Prob * w
        BY Scaled
      <4>2. (rate + 1) * w = w * rate + w /\ Prob * w = w * Prob
        OBVIOUS
      <4>3. QED
        BY <4>1, <4>2
    <3>2. w * rate \in Nat /\ w * Prob \in Nat
      OBVIOUS
    <3>3. \A x, y \in Nat : x + w <= y => x < y
      OBVIOUS
    <3>4. QED
      BY <3>1, <3>2, <3>3
  <2>2. (w * rate) \div Prob < w
    BY <2>1, QuotientBelow
  <2>3. QED
    BY <2>1, <2>2, Quotient
<1>2. (v * rate) \div Prob \in 0 .. v - 1
  BY <1>1
<1>3. ((Prob - 1 - v) * rate) \div Prob \in 0 .. Prob - 2 - v
  <2> DEFINE w == Prob - 1 - v
  <2>1. w \in Nat \ {0} /\ Prob - 2 - v = w - 1
    OBVIOUS
  <2> HIDE DEF w
  <2>2. (w * rate) \div Prob \in 0 .. w - 1
    BY <1>1, <2>1
  <2>3. QED
    BY <2>1, <2>2 DEF w
<1>4. QED
  BY <1>2, <1>3 DEF rc_adapt_prob

LEMMA SlotsKept ==
  ASSUME NEW s \in SlotSet, NEW k \in Kinds, NEW bit \in {0, 1}
  PROVE  /\ Chance(k, s) \in 1 .. Prob - 1
         /\ Adapted(k, s, bit) \in SlotSet
<1> USE Powers
<1>1. /\ s.fixed \in 1 .. Prob - 2 /\ s.counted \in 1 .. Prob - 2 /\ s.count \in 0 .. Limit
      /\ k.kind \in {"raw", "fixed", "counted"}
      /\ k.kind = "raw" => k.prob \in 1 .. Prob - 1
  BY ProbsAssumption DEF SlotSet, Kinds, Prob
<1>2. Chance(k, s) \in 1 .. Prob - 1
  BY <1>1 DEF Chance, SlotSet
<1>3. rc_divt(s.count) \in 0 .. Prob - 1
  BY <1>1, RateAssumption, Quotient DEF rc_divt
<1>4. rc_adapt_fixed(s.fixed, bit) \in 1 .. Prob - 2
  BY <1>1, FixedKept
<1>5. rc_adapt_prob(s.counted, rc_divt(s.count), bit) \in 1 .. Prob - 2
  BY <1>1, <1>3, CountedKept
<1>6. (IF s.count < Limit THEN s.count + 1 ELSE s.count) \in 0 .. Limit
  BY <1>1, RateAssumption
<1>7. Adapted(k, s, bit) \in SlotSet
  BY <1>1, <1>4, <1>5, <1>6 DEF Adapted, SlotSet
<1>8. QED
  BY <1>2, <1>7

LEMMA SlotsStart == Slots \in SlotSet
BY Powers, RateAssumption DEF Slots, SlotSet
-----------------------------------------------------------------------------
(* The encoder.  EncSet has the types of an encoder that has not given up, *)
(* and Room leaves a carry a byte to go to.                                *)

Lows == 0 .. Full - 1
Ranges == 1 .. Full - 1
Carries == {0, 1}
Bytes == 0 .. Byte - 1
Pendings == Nat \ {0}
Outs == Seq(0 .. Byte - 1)
Unfailed == {FALSE}
EncSet ==
  [low : Lows, range : Ranges, carry : Carries, cache : Bytes, pending : Pendings, out : Outs,
   failed : Unfailed, slots : SlotSet]

Need(c) == c.carry * Full + c.low + c.range

Room(c) ==
  /\ Need(c) <= 2 * Full
  /\ c.cache = Byte - 1 => Need(c) <= Full
  /\ c.out = <<>> => c.cache = 0 /\ Need(c) <= Full

LEMMA Fields ==
  ASSUME NEW c \in EncSet
  PROVE  /\ c.low \in 0 .. Full - 1 /\ c.range \in 1 .. Full - 1
         /\ c.carry \in {0, 1} /\ c.cache \in 0 .. Byte - 1 /\ c.pending \in Nat \ {0}
         /\ c.out \in Seq(0 .. Byte - 1) /\ c.failed = FALSE /\ c.slots \in SlotSet
<1>1. /\ c.low \in Lows /\ c.range \in Ranges /\ c.carry \in Carries /\ c.cache \in Bytes
      /\ c.pending \in Pendings /\ c.out \in Outs /\ c.failed \in Unfailed
      /\ c.slots \in SlotSet
  BY DEF EncSet
<1>2. QED
  BY <1>1 DEF Lows, Ranges, Carries, Bytes, Pendings, Outs, Unfailed

(* What the two outcomes of a shift change, and a change of low and range. *)
Out(c, low, range, carry, cache, pending, out, failed) ==
  [[c EXCEPT !.out = out, !.cache = cache, !.pending = pending, !.carry = carry, !.low = low,
             !.failed = failed] EXCEPT !.range = range]

Within(c, low, range, pending) ==
  [[c EXCEPT !.pending = pending, !.low = low] EXCEPT !.range = range]

Increased(c, low, range, carry, failed) ==
  [[c EXCEPT !.low = low, !.carry = carry, !.failed = failed] EXCEPT !.range = range]

LEMMA ShiftedOut ==
  ASSUME NEW c \in EncSet, NEW low \in Lows, NEW range \in Ranges, NEW carry \in Carries,
         NEW cache \in Bytes, NEW pending \in Pendings, NEW out \in Outs, NEW failed \in Unfailed
  PROVE  LET s == Out(c, low, range, carry, cache, pending, out, failed)
         IN  /\ s \in EncSet /\ s.low = low /\ s.range = range /\ s.carry = carry
             /\ s.cache = cache /\ s.out = out /\ s.slots = c.slots
BY DEF EncSet, Out

LEMMA ShiftedWithin ==
  ASSUME NEW c \in EncSet, NEW low \in Lows, NEW range \in Ranges, NEW pending \in Pendings
  PROVE  LET s == Within(c, low, range, pending)
         IN  /\ s \in EncSet /\ s.low = low /\ s.range = range /\ s.carry = c.carry
             /\ s.cache = c.cache /\ s.out = c.out /\ s.slots = c.slots
BY DEF EncSet, Within

LEMMA Added ==
  ASSUME NEW c \in EncSet, NEW low \in Lows, NEW range \in Ranges, NEW carry \in Carries,
         NEW failed \in Unfailed
  PROVE  LET s == Increased(c, low, range, carry, failed)
         IN  /\ s \in EncSet /\ s.low = low /\ s.range = range /\ s.carry = carry
             /\ s.cache = c.cache /\ s.out = c.out /\ s.slots = c.slots
BY DEF EncSet, Increased

LEMMA Ranged ==
  ASSUME NEW c \in EncSet, NEW range \in Ranges
  PROVE  LET s == [c EXCEPT !.range = range]
         IN  /\ s \in EncSet /\ s.low = c.low /\ s.range = range /\ s.carry = c.carry
             /\ s.cache = c.cache /\ s.out = c.out /\ s.slots = c.slots
BY DEF EncSet

(* A product by Byte of what is below Top.                                 *)
LEMMA Widens ==
  ASSUME NEW m \in 0 .. Top - 1, NEW r \in 1 .. Top - 1
  PROVE  /\ m * Byte \in 0 .. Full - 1 /\ r * Byte \in 1 .. Full - 1
         /\ r * Byte >= 2 * r
         /\ m * Byte + r * Byte <= 2 * Full
         /\ m + r <= Top => m * Byte + r * Byte <= Full
<1>1. Byte \in Nat /\ Byte >= 2 /\ Top \in Nat /\ Full = Top * Byte
  BY Powers
<1>2. ASSUME NEW k \in Nat, k < Top PROVE k * Byte \in 0 .. Full - 1
  <2>1. (k + 1) * Byte <= Top * Byte
    BY <1>1, <1>2, Scaled
  <2>2. (k + 1) * Byte = k * Byte + Byte /\ k * Byte \in Nat
    BY <1>1
  <2>3. QED
    BY <1>1, <2>1, <2>2
<1>3. m * Byte \in 0 .. Full - 1 /\ r * Byte \in 0 .. Full - 1
  <2>1. m \in Nat /\ m < Top /\ r \in Nat /\ r < Top
    BY <1>1
  <2>2. QED
    BY <2>1, <1>2
<1>4. r * Byte >= 2 * r
  <2>1. 2 * r <= Byte * r
    BY <1>1, Scaled
  <2>2. QED
    BY <1>1, <2>1
<1>5. ASSUME m + r <= Top PROVE m * Byte + r * Byte <= Full
  <2>1. (m + r) * Byte <= Top * Byte
    BY <1>1, <1>5, Scaled
  <2>2. (m + r) * Byte = m * Byte + r * Byte
    BY <1>1
  <2>3. QED
    BY <1>1, <2>1, <2>2
<1>6. QED
  <2> DEFINE x == m * Byte
             y == r * Byte
  <2>1. x \in 0 .. Full - 1 /\ y \in 0 .. Full - 1 /\ y >= 2 * r
    BY <1>3, <1>4
  <2> HIDE DEF x, y
  <2>2. Full \in Nat
    BY Powers
  <2>3. y \in 1 .. Full - 1 /\ x + y <= 2 * Full
    BY <2>1, <2>2
  <2>4. QED
    BY <2>1, <2>3, <1>5 DEF x, y

(* What is released are bytes, the first of them the cached one with its   *)
(* carry.                                                                  *)
LEMMA ReleasedBytes ==
  ASSUME NEW c \in EncSet
  PROVE  /\ Released(c) \in Seq(0 .. Byte - 1) /\ Released(c) # <<>>
         /\ Released(c)[1] = (c.cache + c.carry) % Byte
<1> DEFINE x == (c.cache + c.carry) % Byte
           y == (Byte - 1 + c.carry) % Byte
           n == c.pending - 1
<1>1. x \in 0 .. Byte - 1 /\ y \in 0 .. Byte - 1 /\ n \in Nat
  <2>1. c.carry \in {0, 1} /\ c.cache \in 0 .. Byte - 1 /\ c.pending \in Nat \ {0}
    BY Fields
  <2>2. c.cache + c.carry \in Nat /\ Byte - 1 + c.carry \in Nat /\ Byte \in Nat /\ Byte > 0
    BY <2>1, Powers
  <2>3. n \in Nat
    BY <2>1
  <2>4. QED
    BY <2>2, <2>3, Quotient
<1> HIDE DEF x, y, n
<1>2. Copies(y, n) \in Seq(0 .. Byte - 1)
  BY <1>1, IsASeq DEF Copies
<1>3. <<x>> \in Seq(0 .. Byte - 1) /\ Len(<<x>>) = 1 /\ <<x>>[1] = x
  BY <1>1
<1>4. Released(c) = <<x>> \o Copies(y, n)
  BY DEF Released, x, y, n
<1>5. QED
  BY <1>2, <1>3, <1>4, ConcatProperties DEF x

(* One shift, of a range below Top, with the range widened.                *)
LEMMA ShiftKept ==
  ASSUME NEW c \in EncSet, Room(c), c.range < Top
  PROVE  LET s == [rc_shift(c) EXCEPT !.range = c.range * Byte]
         IN  /\ s \in EncSet /\ Room(s)
             /\ s.range = c.range * Byte /\ s.slots = c.slots
<1> DEFINE m == c.low % Top
           b == c.low \div Top
           low == m * Byte
           range == c.range * Byte
           s == [rc_shift(c) EXCEPT !.range = range]
<1>0. /\ Byte \in Nat /\ Byte >= 2 /\ Top \in Nat /\ Top > 0 /\ Full \in Nat /\ Full = Top * Byte
      /\ (Byte - 1) * Top = Full - Top /\ c.low \in 0 .. Full - 1 /\ c.range \in 1 .. Top - 1
      /\ c.carry \in {0, 1} /\ c.cache \in 0 .. Byte - 1 /\ c.pending \in Nat \ {0}
      /\ c.out \in Seq(0 .. Byte - 1) /\ c.failed = FALSE
  <2>1. /\ Byte \in Nat /\ Byte >= 2 /\ Top \in Nat /\ Top > 0 /\ Full \in Nat /\ Full = Top * Byte
    BY Powers
  <2>2. (Byte - 1) * Top = Top * Byte - Top
    BY <2>1
  <2>3. /\ c.low \in 0 .. Full - 1 /\ c.range \in 1 .. Full - 1
        /\ c.carry \in {0, 1} /\ c.cache \in 0 .. Byte - 1 /\ c.pending \in Nat \ {0}
        /\ c.out \in Seq(0 .. Byte - 1) /\ c.failed = FALSE
    BY Fields
  <2>4. c.range \in 1 .. Top - 1
    BY <2>1, <2>3
  <2>5. QED
    BY <2>1, <2>2, <2>3, <2>4
<1>1. m \in 0 .. Top - 1 /\ b \in Nat /\ c.low = Top * b + m
  <2>1. c.low \in Nat /\ Top \in Nat /\ Top > 0
    BY <1>0
  <2>2. QED
    BY <2>1, Quotient
<1>2. b \in 0 .. Byte - 1
  <2>1. c.low \in Nat /\ c.low < Byte * Top
    BY <1>0
  <2>2. b < Byte
    BY <1>0, <2>1, QuotientBelow
  <2>3. QED
    BY <1>0, <1>1, <2>2
<1>3. b = Byte - 1 => m = c.low - (Full - Top)
  <2>1. Top * (Byte - 1) = Full - Top
    BY <1>0
  <2>2. QED
    BY <1>0, <1>1, <2>1
<1>4. /\ low \in 0 .. Full - 1 /\ range \in 1 .. Full - 1 /\ low + range <= 2 * Full
      /\ m + c.range <= Top => low + range <= Full
  BY <1>0, <1>1, Widens
<1>5. c.low < (Byte - 1) * Top => b # Byte - 1
  BY <1>0, <1>1, <1>3
<1>6. c.low >= (Byte - 1) * Top => b = Byte - 1
  <2>1. SUFFICES ASSUME c.low >= Full - Top, b <= Byte - 2 PROVE FALSE
    BY <1>0, <1>2
  <2>2. Byte - 2 \in Nat /\ b * Top <= (Byte - 2) * Top
    <3>1. Byte - 2 \in Nat /\ b \in Nat /\ Top \in Nat /\ b <= Byte - 2
      BY <1>0, <1>2, <2>1
    <3>2. QED
      BY <3>1, Scaled
  <2>3. (Byte - 2) * Top = Full - Top - Top /\ Top * b = b * Top
    BY <1>0, <1>1
  <2>4. QED
    BY <1>0, <1>1, <2>1, <2>2, <2>3
<1>7. c.carry * Full = IF c.carry = 1 THEN Full ELSE 0
  BY <1>0
<1> HIDE DEF m, b, low, range, s
<1>8. CASE c.low < (Byte - 1) * Top \/ c.carry = 1
  <2>1. rc_shift(c) = [c EXCEPT !.out = c.out \o Released(c), !.cache = b, !.pending = 1,
                                !.carry = 0, !.low = low,
                                !.failed = c.failed \/ (c.out = <<>> /\ Released(c)[1] # 0)]
    BY <1>8, Zenon DEF rc_shift, low, m, b
  <2>2. c.out = <<>> => Released(c)[1] = 0
    <3>1. SUFFICES ASSUME c.out = <<>> PROVE Released(c)[1] = 0
      OBVIOUS
    <3>2. c.cache = 0 /\ Need(c) <= Full
      BY <3>1 DEF Room
    <3>3. c.carry = 0
      BY <1>0, <1>7, <3>2 DEF Need
    <3>4. (c.cache + c.carry) % Byte = 0
      BY <1>0, <3>2, <3>3
    <3>5. QED
      BY <3>4, ReleasedBytes
  <2>3. c.out \o Released(c) \in Seq(0 .. Byte - 1) /\ c.out \o Released(c) # <<>>
    BY <1>0, ReleasedBytes, ConcatProperties, ConcatEqualIffEmpty
  <2>4. /\ low \in Lows /\ range \in Ranges /\ b \in Bytes /\ c.out \o Released(c) \in Outs
        /\ 0 \in Carries /\ 1 \in Pendings
    BY <1>2, <1>4, <2>3 DEF Lows, Ranges, Bytes, Outs, Carries, Pendings
  <2>5. (c.failed \/ (c.out = <<>> /\ Released(c)[1] # 0)) \in Unfailed
    BY <1>0, <2>2 DEF Unfailed
  <2>6. /\ s \in EncSet /\ s.low = low /\ s.range = range /\ s.carry = 0
        /\ s.cache = b /\ s.out = c.out \o Released(c) /\ s.slots = c.slots
    <3> DEFINE o == c.out \o Released(c)
               f == c.failed \/ (c.out = <<>> /\ Released(c)[1] # 0)
    <3>1. o \in Outs /\ f \in Unfailed
      BY <2>4, <2>5
    <3>2. s = Out(c, low, range, 0, b, 1, o, f)
      BY <2>1, Zenon DEF s, Out
    <3> HIDE DEF o, f
    <3>3. /\ s \in EncSet /\ s.low = low /\ s.range = range /\ s.carry = 0
          /\ s.cache = b /\ s.out = o /\ s.slots = c.slots
      BY <2>4, <3>1, <3>2, ShiftedOut
    <3>4. QED
      BY <3>3 DEF o
  <2>7. Need(s) = low + range
    BY <1>0, <1>4, <2>6 DEF Need
  <2>8. b = Byte - 1 => low + range <= Full
    <3>1. SUFFICES ASSUME b = Byte - 1 PROVE m + c.range <= Top
      BY <1>4
    <3>2. c.carry = 1
      BY <1>5, <1>8, <3>1
    <3>3. c.low + c.range <= Full
      BY <1>0, <1>7, <3>2 DEF Room, Need
    <3>4. QED
      BY <1>0, <1>3, <3>1, <3>3
  <2>9. Room(s)
    BY <1>4, <2>3, <2>6, <2>7, <2>8 DEF Room
  <2>10. QED
    BY <2>6, <2>9 DEF range, s
<1>9. CASE ~(c.low < (Byte - 1) * Top \/ c.carry = 1)
  <2>1. rc_shift(c) = [c EXCEPT !.pending = c.pending + 1, !.low = low]
    BY <1>9, Zenon DEF rc_shift, low, m
  <2>2. low \in Lows /\ range \in Ranges /\ c.pending + 1 \in Pendings
    BY <1>0, <1>4 DEF Lows, Ranges, Pendings
  <2>3. /\ s \in EncSet /\ s.low = low /\ s.range = range /\ s.carry = c.carry
        /\ s.cache = c.cache /\ s.out = c.out /\ s.slots = c.slots
    <3> DEFINE p == c.pending + 1
    <3>1. s = Within(c, low, range, p)
      BY <2>1, Zenon DEF s, Within
    <3>2. p \in Pendings
      BY <2>2
    <3> HIDE DEF p
    <3>3. QED
      BY <2>2, <3>1, <3>2, ShiftedWithin
  <2>4. b = Byte - 1
    BY <1>0, <1>6, <1>9
  <2>5. Need(s) = low + range /\ Need(c) = c.low + c.range
    BY <1>0, <1>4, <1>7, <1>9, <2>3 DEF Need
  <2>6. Need(c) <= Full => m + c.range <= Top
    BY <1>0, <1>3, <2>4, <2>5
  <2>7. Need(c) <= Full => low + range <= Full
    BY <1>4, <2>6
  <2>8. Room(s)
    BY <1>4, <2>3, <2>5, <2>7 DEF Room
  <2>9. QED
    BY <2>3, <2>8 DEF range, s
<1>10. QED
  BY <1>8, <1>9

LEMMA ShiftRange ==
  ASSUME NEW c \in EncSet
  PROVE  rc_shift(c).range = c.range
BY DEF rc_shift, EncSet

(* A range is three rounds at most from Top.                               *)
LEMMA WidenedKept ==
  ASSUME NEW c \in EncSet, Room(c), NEW k \in Nat, k <= c.range, k * Byte <= Top
  PROVE  /\ Widened(c) \in EncSet /\ Room(Widened(c))
         /\ Widened(c).range >= k * Byte /\ Widened(c).slots = c.slots
<1>1. CASE c.range < Top
  <2>1. Widened(c) = [rc_shift(c) EXCEPT !.range = c.range * Byte]
    BY <1>1, ShiftRange DEF Widened
  <2>2. c.range \in Nat /\ Byte \in Nat
    <3>1. c.range \in 1 .. Full - 1
      BY Fields
    <3>2. QED
      BY <3>1, Powers
  <2>3. k * Byte <= c.range * Byte /\ c.range * Byte \in Nat /\ k * Byte \in Nat
    BY <2>2, Scaled
  <2>4. QED
    BY <1>1, <2>1, <2>3, ShiftKept
<1>2. CASE ~(c.range < Top)
  <2>1. Widened(c) = c
    BY <1>2 DEF Widened
  <2>2. c.range \in Nat /\ Byte \in Nat /\ Top \in Nat
    <3>1. c.range \in 1 .. Full - 1
      BY Fields
    <3>2. QED
      BY <3>1, Powers
  <2>3. k * Byte \in Nat
    BY <2>2
  <2>4. c.range >= k * Byte
    BY <1>2, <2>2, <2>3
  <2>5. QED
    BY <2>1, <2>4
<1>3. QED
  BY <1>1, <1>2

LEMMA NormKept ==
  ASSUME NEW c \in EncSet, Room(c)
  PROVE  /\ rc_norm(c) \in EncSet /\ Room(rc_norm(c))
         /\ rc_norm(c).range >= Top /\ rc_norm(c).slots = c.slots
<1> DEFINE x == Widened(c)
           y == Widened(x)
<1>1. /\ 1 <= c.range /\ 1 * Byte = Byte /\ Byte * Byte = Prob /\ Prob * Byte = Top
      /\ Byte <= Top /\ Prob <= Top /\ Top <= Top /\ 1 \in Nat /\ Byte \in Nat /\ Prob \in Nat
  <2>1. c.range \in 1 .. Full - 1
    BY Fields
  <2>2. QED
    BY <2>1, Powers DEF Prob
<1>2. x \in EncSet /\ Room(x) /\ x.range >= Byte /\ x.slots = c.slots
  BY <1>1, WidenedKept
<1>3. y \in EncSet /\ Room(y) /\ y.range >= Prob /\ y.slots = c.slots
  <2>1. Byte <= x.range
    BY <1>1, <1>2, Fields
  <2>2. QED
    BY <1>1, <1>2, <2>1, WidenedKept
<1>4. Widened(y) \in EncSet /\ Room(Widened(y)) /\ Widened(y).range >= Top /\ Widened(y).slots = c.slots
  <2>1. Prob <= y.range
    BY <1>1, <1>3, Fields
  <2>2. QED
    BY <1>1, <1>3, <2>1, WidenedKept
<1>5. QED
  BY <1>4 DEF rc_norm

(* The split leaves something of the range to both bits.                   *)
LEMMA SplitInside ==
  ASSUME NEW range \in Top .. Full - 1, NEW prob \in 1 .. Prob - 1
  PROVE  Split(range, prob) \in 1 .. range - 1
<1> DEFINE q == range \div Prob
           r == range % Prob
<1>1. Prob \in Nat /\ Prob > 0 /\ Top \in Nat /\ Top = Prob * Byte /\ Byte \in Nat /\ Byte >= 2 /\ Full \in Nat
  BY Powers
<1>2. range \in Nat /\ range >= Top
  BY <1>1
<1>3. q \in Nat /\ r \in 0 .. Prob - 1 /\ range = Prob * q + r
  BY <1>1, <1>2, Quotient
<1> HIDE DEF q, r
<1>4. q >= 1
  <2>1. SUFFICES ASSUME q = 0 PROVE FALSE
    BY <1>3
  <2>2. range < Prob
    BY <1>1, <1>3, <2>1
  <2>3. Prob <= Top
    BY Powers
  <2>4. QED
    BY <1>1, <1>2, <2>2, <2>3
<1>5. 1 * q <= prob * q /\ (prob + 1) * q <= Prob * q
  <2>1. 1 \in Nat /\ prob \in Nat /\ 1 <= prob /\ prob + 1 \in Nat /\ prob + 1 <= Prob
    BY <1>1
  <2>2. QED
    BY <1>1, <1>3, <2>1, Scaled
<1> DEFINE s == q * prob
           t == Prob * q
<1>6. prob * q = s /\ (prob + 1) * q = s + q /\ s \in Nat /\ t \in Nat
  BY <1>1, <1>3
<1>7. s >= 1 /\ s + q <= t /\ range = t + r
  BY <1>3, <1>4, <1>5, <1>6
<1> HIDE DEF s, t
<1>8. s \in 1 .. range - 1
  BY <1>3, <1>4, <1>6, <1>7
<1>9. QED
  BY <1>8 DEF s, q, Split

(* What is added to low is taken from the range: the carry it may make has *)
(* room, and no other is pending.                                          *)
LEMMA AddKept ==
  ASSUME NEW c \in EncSet, Room(c), NEW split \in Nat, NEW range \in 1 .. Full - 1,
         split + range <= c.range
  PROVE  LET s == [rc_addlow(c, split) EXCEPT !.range = range]
         IN  s \in EncSet /\ Room(s) /\ s.range = range /\ s.slots = c.slots
<1> DEFINE low == c.low + split
           carry == IF low >= Full THEN 1 ELSE c.carry
           failed == c.failed \/ (low >= Full /\ c.carry = 1)
           s == [rc_addlow(c, split) EXCEPT !.range = range]
<1>1. /\ c.low \in 0 .. Full - 1 /\ c.range \in 1 .. Full - 1 /\ c.carry \in {0, 1}
      /\ c.failed = FALSE
  BY Fields
<1>2. Full \in Nat /\ Full > 0
  BY Powers
<1>3. c.carry * Full = IF c.carry = 1 THEN Full ELSE 0
  BY <1>1, <1>2
<1>4. low >= Full => c.carry = 0
  <2>1. SUFFICES ASSUME low >= Full, c.carry = 1 PROVE FALSE
    BY <1>1
  <2>2. Full + c.low + c.range <= 2 * Full
    BY <1>3, <2>1 DEF Room, Need
  <2>3. QED
    BY <1>1, <1>2, <2>1, <2>2
<1>5. low % Full = IF low >= Full THEN low - Full ELSE low
  <2>1. CASE low < Full
    BY <1>1, <1>2, <2>1
  <2>2. CASE low >= Full
    <3>1. low - Full \in 0 .. Full - 1 /\ low = Full + (low - Full)
      BY <1>1, <1>2, <2>2
    <3>2. \A x \in 0 .. Full - 1 : (Full + x) % Full = x
      BY <1>2
    <3>3. QED
      BY <2>2, <3>1, <3>2
  <2>3. QED
    BY <1>1, <1>2, <2>1, <2>2
<1>6. /\ low % Full \in Lows /\ carry \in Carries /\ failed \in Unfailed /\ range \in Ranges
  <2>1. low % Full \in 0 .. Full - 1
    BY <1>1, <1>2, <1>5
  <2>2. carry \in {0, 1}
    BY <1>1
  <2>3. failed = FALSE
    BY <1>1, <1>4
  <2>4. QED
    BY <2>1, <2>2, <2>3 DEF Lows, Carries, Unfailed, Ranges
<1> DEFINE x == low % Full
<1>7. s = Increased(c, x, range, carry, failed)
  BY Zenon DEF s, rc_addlow, Increased
<1>8. carry * Full + x = c.carry * Full + low
  BY <1>1, <1>2, <1>3, <1>4, <1>5
<1> HIDE DEF x, s, carry, failed
<1>9. /\ s \in EncSet /\ s.low = x /\ s.range = range /\ s.carry = carry
      /\ s.cache = c.cache /\ s.out = c.out /\ s.slots = c.slots
  BY <1>6, <1>7, Added DEF x
<1>10. Need(s) = c.carry * Full + c.low + split + range
  <2> DEFINE u == carry * Full
             v == c.carry * Full
  <2>1. v \in Nat /\ u + x = v + low
    BY <1>1, <1>2, <1>8
  <2>2. u \in Int /\ x \in Int
    BY <1>1, <1>2, <1>6 DEF Carries, Lows, x
  <2> HIDE DEF u, v
  <2>3. u + x + range = v + c.low + split + range
    BY <1>1, <2>1, <2>2
  <2>4. QED
    BY <1>9, <2>3 DEF Need, u, v
<1>11. Need(s) <= Need(c) /\ Need(s) \in Int /\ Need(c) \in Int
  BY <1>1, <1>2, <1>3, <1>10 DEF Need
<1>12. Room(s)
  BY <1>2, <1>9, <1>11 DEF Room
<1>13. QED
  BY <1>9, <1>12 DEF s

LEMMA CodedKept ==
  ASSUME NEW c \in EncSet, Room(c), c.range >= Top, NEW prob \in 1 .. Prob - 1, NEW bit \in {0, 1}
  PROVE  /\ Coded(c, prob, bit) \in EncSet /\ Room(Coded(c, prob, bit))
         /\ Coded(c, prob, bit).range >= Top /\ Coded(c, prob, bit).slots = c.slots
<1> DEFINE split == Split(c.range, prob)
<1>1. c.range \in Top .. Full - 1 /\ Full \in Nat /\ Top \in Nat
  <2>1. c.range \in 1 .. Full - 1 /\ Full \in Nat /\ Top \in Nat
    BY Fields, Powers
  <2>2. QED
    BY <2>1
<1>2. split \in 1 .. c.range - 1
  BY <1>1, SplitInside
<1> HIDE DEF split
<1>3. CASE bit = 1
  <2> DEFINE range == c.range - split
             s == [rc_addlow(c, split) EXCEPT !.range = range]
  <2>1. split \in Nat /\ range \in 1 .. Full - 1 /\ split + range <= c.range
    BY <1>1, <1>2
  <2> HIDE DEF range
  <2>2. s \in EncSet /\ Room(s) /\ s.slots = c.slots
    BY <2>1, AddKept
  <2>3. Coded(c, prob, bit) = rc_norm(s)
    BY <1>3 DEF Coded, split, range
  <2> HIDE DEF s
  <2>4. QED
    BY <2>2, <2>3, NormKept
<1>4. CASE bit = 0
  <2> DEFINE s == [c EXCEPT !.range = split]
  <2>1. split \in Ranges
    BY <1>1, <1>2 DEF Ranges
  <2>2. /\ s \in EncSet /\ s.low = c.low /\ s.range = split /\ s.carry = c.carry
        /\ s.cache = c.cache /\ s.out = c.out /\ s.slots = c.slots
    BY <2>1, Ranged
  <2>3. Coded(c, prob, bit) = rc_norm(s)
    BY <1>4 DEF Coded, split
  <2> HIDE DEF s
  <2>4. c.low \in 0 .. Full - 1 /\ c.carry * Full \in Nat
    <3>1. c.low \in 0 .. Full - 1 /\ c.carry \in {0, 1}
      BY Fields
    <3>2. QED
      BY <1>1, <3>1
  <2>5. Need(s) <= Need(c) /\ Need(s) \in Int /\ Need(c) \in Int
    BY <1>1, <1>2, <2>2, <2>4 DEF Need
  <2>6. Room(s)
    BY <1>1, <2>2, <2>5 DEF Room
  <2>7. QED
    BY <2>2, <2>3, <2>6, NormKept
<1>5. QED
  BY <1>3, <1>4

-----------------------------------------------------------------------------
(* The finish, and the decoder.                                            *)

LEMMA FinishKept ==
  ASSUME NEW c \in EncSet, Room(c), c.range >= Top
  PROVE  FinishLow(c) \in EncSet /\ Room(FinishLow(c))
<1> DEFINE round(x) == [rc_shift(x) EXCEPT !.range = @ * Byte]
<1>1. /\ Byte \in Nat /\ Byte >= 2 /\ Prob \in Nat /\ Prob >= 4 /\ Top \in Nat /\ Top >= 2 * Prob
      /\ Top = Prob * Byte /\ Full \in Nat /\ Full >= 2 * Top
  BY Powers
<1>2. c.range \in 1 .. Full - 1
  BY Fields
<1>3. ASSUME NEW x \in EncSet, Room(x), x.range < Top
      PROVE  round(x) \in EncSet /\ Room(round(x)) /\ round(x).range = x.range * Byte
  <2>1. round(x) = [rc_shift(x) EXCEPT !.range = x.range * Byte]
    BY ShiftRange
  <2>2. QED
    BY <1>3, <2>1, ShiftKept
<1> HIDE DEF round
<1>4. CASE c.range > 2 * Top
  <2> DEFINE h == Top \div 2
             s == [rc_addlow(c, Top) EXCEPT !.range = h]
  <2>1. h \in 1 .. Full - 1 /\ h < Top /\ Top + h <= c.range
    BY <1>1, <1>2, <1>4
  <2> HIDE DEF h
  <2>2. s \in EncSet /\ Room(s) /\ s.range = h
    BY <1>1, <2>1, AddKept
  <2>3. FinishLow(c) = round(s)
    BY <1>4 DEF FinishLow, round, h
  <2> HIDE DEF s
  <2>4. QED
    BY <1>3, <2>1, <2>2, <2>3
<1>5. CASE ~(c.range > 2 * Top)
  <2> DEFINE h == Top \div 2
             p == Prob \div 2
             s == [rc_addlow(c, h) EXCEPT !.range = p]
  <2>1. h \in Nat /\ p \in 1 .. Full - 1 /\ h + p <= c.range /\ p < Top /\ 2 * p <= Prob
    BY <1>1, <1>2
  <2> HIDE DEF h, p
  <2>2. s \in EncSet /\ Room(s) /\ s.range = p
    BY <2>1, AddKept
  <2>3. FinishLow(c) = round(round(s))
    BY <1>5 DEF FinishLow, round, h, p
  <2> HIDE DEF s
  <2>4. round(s) \in EncSet /\ Room(round(s)) /\ round(s).range = p * Byte
    BY <1>3, <2>1, <2>2
  <2>5. p * Byte < Top
    <3>1. p \in Nat /\ 2 * p \in Nat
      BY <1>1, <2>1
    <3>2. (2 * p) * Byte <= Prob * Byte
      BY <1>1, <2>1, <3>1, Scaled
    <3> DEFINE x == p * Byte
    <3>3. (2 * p) * Byte = x + x /\ x \in Nat
      BY <1>1, <3>1
    <3>4. 1 * Byte <= x
      BY <1>1, <2>1, <3>1, Scaled
    <3>5. x + x <= Top
      BY <1>1, <3>2, <3>3
    <3> HIDE DEF x
    <3>6. x < Top
      BY <1>1, <3>3, <3>4, <3>5
    <3>7. QED
      BY <3>6 DEF x
  <2>6. QED
    BY <1>3, <2>3, <2>4, <2>5
<1>6. QED
  BY <1>4, <1>5

(* An encoder at any time, finished or not.                                *)
Encoders ==
  [low : 0 .. Full - 1, range : 1 .. Full - 1, carry : 0 .. 1, cache : 0 .. Byte - 1,
   pending : Nat, out : Seq(0 .. Byte - 1), failed : BOOLEAN, slots : SlotSet]

LEMMA Typed ==
  ASSUME NEW c \in EncSet
  PROVE  c \in Encoders
<1> DEFINE y == 0 .. 1
           p == Nat
           f == BOOLEAN
<1>1. Carries \subseteq y /\ Pendings \subseteq p /\ Unfailed \subseteq f
  BY DEF Carries, Pendings, Unfailed
<1> HIDE DEF y, p, f
<1>2. c \in [low : Lows, range : Ranges, carry : y, cache : Bytes, pending : p, out : Outs,
             failed : f, slots : SlotSet]
  BY <1>1 DEF EncSet
<1>3. QED
  BY <1>2 DEF Encoders, Lows, Ranges, Bytes, Outs, y, p, f

LEMMA FinishedKept ==
  ASSUME NEW c \in EncSet, Room(c), c.range >= Top
  PROVE  /\ Finished(c) \in Encoders /\ Finished(c).failed = FALSE
         /\ Finished(c).out # <<>>
<1> DEFINE f == FinishLow(c)
           out == f.out \o <<f.cache>> \o Copies(Byte - 1, f.pending - 1)
           failed == f.failed \/ (f.out = <<>> /\ f.cache # 0)
<1>1. f \in EncSet /\ Room(f)
  BY FinishKept
<1> HIDE DEF f
<1>2. /\ f.cache \in 0 .. Byte - 1 /\ f.pending \in Nat \ {0} /\ f.out \in Seq(0 .. Byte - 1)
      /\ f.failed = FALSE
  BY <1>1, Fields
<1>3. out \in Seq(0 .. Byte - 1) /\ out # <<>>
  <2>1. f.pending - 1 \in Nat /\ Byte - 1 \in 0 .. Byte - 1
    BY <1>2, Powers
  <2> DEFINE n == f.pending - 1
             b == Byte - 1
             tail == Copies(b, n)
  <2> HIDE DEF n, b
  <2>2. tail \in Seq(0 .. Byte - 1)
    BY <2>1, IsASeq DEF Copies, n, b
  <2>3. <<f.cache>> \in Seq(0 .. Byte - 1) /\ <<f.cache>> # <<>>
    BY <1>2
  <2>4. f.out \o <<f.cache>> \in Seq(0 .. Byte - 1) /\ f.out \o <<f.cache>> # <<>>
    BY <1>2, <2>3, ConcatProperties, ConcatEqualIffEmpty
  <2>5. QED
    BY <2>2, <2>4, ConcatProperties, ConcatEqualIffEmpty DEF n, b
<1>4. failed = FALSE
  BY <1>1, <1>2 DEF Room
<1> HIDE DEF out, failed
<1>5. Finished(c) = [f EXCEPT !.out = out, !.pending = 0, !.failed = failed]
  BY Zenon DEF Finished, f, out, failed
<1>6. f \in Encoders
  BY <1>1, Typed
<1>7. QED
  <2> DEFINE l == 0 .. Full - 1
             r == 1 .. Full - 1
             y == 0 .. 1
             h == 0 .. Byte - 1
             o == Seq(h)
             n == Nat
             b == BOOLEAN
  <2>1. out \in o /\ 0 \in n /\ failed \in b
    BY <1>3, <1>4
  <2>2. f \in [low : l, range : r, carry : y, cache : h, pending : n, out : o, failed : b,
               slots : SlotSet]
    BY <1>6 DEF Encoders
  <2> HIDE DEF l, r, y, h, o, n, b
  <2>3. /\ Finished(c) \in [low : l, range : r, carry : y, cache : h, pending : n, out : o,
                            failed : b, slots : SlotSet]
        /\ Finished(c).failed = failed /\ Finished(c).out = out
    BY <1>5, <2>1, <2>2
  <2>4. QED
    BY <1>3, <1>4, <2>3 DEF Encoders, l, r, y, h, o, n, b

-----------------------------------------------------------------------------
(* The decoder, on any stream of bytes.                                    *)

Positions == Nat
DecSet == [stream : Outs, range : Ranges, slots : SlotSet, pos : Positions, code : Lows]

LEMMA DecFields ==
  ASSUME NEW c \in DecSet
  PROVE  /\ c.stream \in Seq(0 .. Byte - 1) /\ c.range \in 1 .. Full - 1 /\ c.slots \in SlotSet
         /\ c.pos \in Nat /\ c.code \in 0 .. Full - 1
<1>1. /\ c.stream \in Outs /\ c.range \in Ranges /\ c.slots \in SlotSet /\ c.pos \in Positions
      /\ c.code \in Lows
  BY DEF DecSet
<1>2. QED
  BY <1>1 DEF Outs, Ranges, Lows, Positions

LEMMA GetByte ==
  ASSUME NEW s \in Seq(0 .. Byte - 1), NEW pos \in Nat
  PROVE  rc_get(s, pos) \in 0 .. Byte - 1
<1>1. CASE pos < Len(s)
  <2>1. pos + 1 \in 1 .. Len(s)
    BY <1>1
  <2>2. s[pos + 1] \in 0 .. Byte - 1
    BY <2>1, ElementOfSeq
  <2>3. QED
    BY <1>1, <2>2 DEF rc_get
<1>2. CASE ~(pos < Len(s))
  BY <1>2, Powers DEF rc_get
<1>3. QED
  BY <1>1, <1>2

(* A digit behind a number below n.                                        *)
LEMMA Digit ==
  ASSUME NEW n \in Nat, NEW x \in 0 .. n - 1, NEW b \in 0 .. Byte - 1
  PROVE  x * Byte + b \in 0 .. n * Byte - 1
<1>1. Byte \in Nat
  BY Powers
<1>2. x + 1 \in Nat /\ x + 1 <= n
  OBVIOUS
<1>3. (x + 1) * Byte <= n * Byte
  BY <1>1, <1>2, Scaled
<1> DEFINE y == x * Byte
           z == n * Byte
<1>4. (x + 1) * Byte = y + Byte /\ y \in Nat /\ z \in Nat
  BY <1>1
<1>5. y + Byte <= z
  BY <1>3, <1>4
<1> HIDE DEF y, z
<1>6. y + b \in 0 .. z - 1
  BY <1>1, <1>4, <1>5
<1>7. QED
  BY <1>6 DEF y, z

LEMMA DecStart ==
  ASSUME NEW s \in Seq(0 .. Byte - 1)
  PROVE  rc_dec_init(s) \in DecSet
<1> DEFINE a == rc_get(s, 0)
           b == rc_get(s, 1)
           g == rc_get(s, 2)
           h == rc_get(s, 3)
           pos == IF Len(s) < 4 THEN Len(s) ELSE 4
           code == ((a * Byte + b) * Byte + g) * Byte + h
<1>1. a \in 0 .. Byte - 1 /\ b \in 0 .. Byte - 1 /\ g \in 0 .. Byte - 1 /\ h \in 0 .. Byte - 1
  BY GetByte
<1> HIDE DEF a, b, g, h
<1>2. Byte \in Nat /\ Prob \in Nat /\ Top \in Nat
  BY Powers
<1>3. a * Byte + b \in 0 .. Prob - 1
  BY <1>1, <1>2, Digit DEF Prob
<1>4. (a * Byte + b) * Byte + g \in 0 .. Top - 1
  BY <1>1, <1>2, <1>3, Digit DEF Top
<1>5. code \in 0 .. Full - 1
  BY <1>1, <1>2, <1>4, Digit DEF Full
<1>6. pos \in Nat
  BY LenProperties
<1>7. rc_dec_init(s) = [stream |-> s, range |-> Full - 1, slots |-> Slots, pos |-> pos, code |-> code]
  BY Zenon DEF rc_dec_init, a, b, g, h
<1> HIDE DEF pos, code
<1>8. s \in Outs /\ pos \in Positions /\ code \in Lows /\ Full - 1 \in Ranges /\ Slots \in SlotSet
  <2>1. Full - 1 \in 1 .. Full - 1
    BY Powers
  <2>2. QED
    BY <1>5, <1>6, <2>1, SlotsStart DEF Outs, Positions, Lows, Ranges
<1>9. QED
  BY <1>7, <1>8 DEF DecSet

(* A round of rc_dec_norm takes a byte or does nothing.                    *)
LEMMA DecWidened ==
  ASSUME NEW c \in DecSet, NEW k \in Nat, k <= c.range, k * Byte <= Top
  PROVE  LET w == rc_dec_widened(c)
         IN  /\ w \in DecSet /\ w.range >= k * Byte /\ w.slots = c.slots
             /\ w = c \/ w.pos > c.pos
<1> DEFINE w == rc_dec_widened(c)
<1>1. c.range \in 1 .. Full - 1 /\ c.pos \in Nat /\ c.code \in 0 .. Full - 1
  BY DecFields
<1>2. Byte \in Nat /\ Top \in Nat /\ Full \in Nat /\ Full > 0 /\ Top > 0
  BY Powers
<1>3. CASE c.range < Top
  <2> DEFINE b == rc_get(c.stream, c.pos)
             code == (c.code * Byte + b) % Full
             range == c.range * Byte
             pos == c.pos + 1
  <2>1. b \in 0 .. Byte - 1
    BY <1>1, GetByte, DecFields
  <2> HIDE DEF b
  <2>2. code \in 0 .. Full - 1
    <3>1. c.code * Byte + b \in Nat
      BY <1>1, <1>2, <2>1
    <3>2. QED
      BY <1>2, <3>1, Quotient
  <2>3. range \in 1 .. Full - 1
    <3>1. c.range \in 1 .. Top - 1 /\ 0 \in 0 .. Top - 1
      BY <1>1, <1>2, <1>3
    <3>2. QED
      BY <3>1, Widens
  <2>4. k * Byte <= range
    BY <1>1, <1>2, Scaled
  <2>5. w = [c EXCEPT !.code = code, !.pos = pos, !.range = range]
    BY <1>3, Zenon DEF rc_dec_widened, b
  <2>6. code \in Lows /\ range \in Ranges /\ pos \in Positions /\ pos > c.pos
    BY <1>1, <2>2, <2>3 DEF Lows, Ranges, Positions
  <2> HIDE DEF w, code, range, pos
  <2>7. w \in DecSet /\ w.range = range /\ w.pos = pos /\ w.slots = c.slots
    BY <2>5, <2>6 DEF DecSet
  <2>8. w.range >= k * Byte
    <3>1. range \in Int /\ k * Byte \in Int
      BY <1>2, <2>3
    <3>2. QED
      BY <2>4, <2>7, <3>1
  <2>9. QED
    BY <2>6, <2>7, <2>8 DEF w
<1>4. CASE ~(c.range < Top)
  <2>1. w = c
    BY <1>4 DEF rc_dec_widened
  <2>2. k * Byte \in Nat
    BY <1>2
  <2>3. c.range >= k * Byte
    BY <1>1, <1>2, <1>4, <2>2
  <2>4. QED
    BY <2>1, <2>3
<1>5. QED
  BY <1>3, <1>4

LEMMA DecNorm ==
  ASSUME NEW c \in DecSet
  PROVE  LET w == rc_dec_norm(c)
         IN  /\ w \in DecSet /\ w.range >= Top /\ w.slots = c.slots
             /\ w = c \/ w.pos > c.pos
<1> DEFINE x == rc_dec_widened(c)
           y == rc_dec_widened(x)
           z == rc_dec_widened(y)
<1>1. /\ 1 <= c.range /\ 1 * Byte = Byte /\ Byte * Byte = Prob /\ Prob * Byte = Top
      /\ Byte <= Top /\ Prob <= Top /\ Top <= Top /\ 1 \in Nat /\ Byte \in Nat /\ Prob \in Nat
  <2>1. c.range \in 1 .. Full - 1
    BY DecFields
  <2>2. QED
    BY <2>1, Powers DEF Prob
<1>2. x \in DecSet /\ x.range >= Byte /\ x.slots = c.slots /\ (x = c \/ x.pos > c.pos)
  BY <1>1, DecWidened
<1> HIDE DEF x
<1>3. y \in DecSet /\ y.range >= Prob /\ y.slots = x.slots /\ (y = x \/ y.pos > x.pos)
  <2>1. x.range \in 1 .. Full - 1
    BY <1>2, DecFields
  <2>2. Byte <= x.range
    BY <1>1, <1>2, <2>1
  <2>3. QED
    BY <1>1, <1>2, <2>2, DecWidened
<1> HIDE DEF y
<1>4. z \in DecSet /\ z.range >= Top /\ z.slots = y.slots /\ (z = y \/ z.pos > y.pos)
  <2>1. y.range \in 1 .. Full - 1
    BY <1>3, DecFields
  <2>2. Prob <= y.range
    BY <1>1, <1>3, <2>1
  <2>3. QED
    BY <1>1, <1>3, <2>2, DecWidened
<1> HIDE DEF z
<1>5. c.pos \in Nat /\ x.pos \in Nat /\ y.pos \in Nat /\ z.pos \in Nat
  BY <1>2, <1>3, <1>4, DecFields
<1>6. z = c \/ z.pos > c.pos
  BY <1>2, <1>3, <1>4, <1>5
<1>7. rc_dec_norm(c) = z
  BY DEF rc_dec_norm, x, y, z
<1>8. QED
  BY <1>2, <1>3, <1>4, <1>6, <1>7

(* A decoded bit narrows the range.                                        *)
LEMMA DecTaken ==
  ASSUME NEW c \in DecSet, c.range >= Top, NEW prob \in 1 .. Prob - 1
  PROVE  LET bit == BitOf(c, prob)
             t == Taken(c, prob, bit)
         IN  /\ bit \in {0, 1} /\ t \in DecSet /\ t.range < c.range
             /\ t.pos = c.pos /\ t.slots = c.slots
<1> DEFINE split == Split(c.range, prob)
           bit == BitOf(c, prob)
           t == Taken(c, prob, bit)
<1>1. c.range \in 1 .. Full - 1 /\ c.code \in 0 .. Full - 1
  BY DecFields
<1>2. Full \in Nat /\ Top \in Nat
  BY Powers
<1>3. split \in 1 .. c.range - 1
  <2>1. c.range \in Top .. Full - 1
    BY <1>1, <1>2
  <2>2. QED
    BY <2>1, SplitInside
<1> HIDE DEF split
<1>4. CASE c.code < split
  <2>1. bit = 0
    BY <1>4 DEF BitOf, split
  <2>2. t = [c EXCEPT !.range = split]
    BY <2>1 DEF Taken, split
  <2>3. split \in Ranges /\ split < c.range
    BY <1>1, <1>2, <1>3 DEF Ranges
  <2> HIDE DEF bit, t
  <2>4. t \in DecSet /\ t.range = split /\ t.pos = c.pos /\ t.slots = c.slots
    BY <2>2, <2>3 DEF DecSet
  <2>5. QED
    BY <2>1, <2>3, <2>4 DEF bit, t
<1>5. CASE ~(c.code < split)
  <2> DEFINE code == c.code - split
             range == c.range - split
  <2>1. bit = 1
    BY <1>5 DEF BitOf, split
  <2>2. t = [c EXCEPT !.code = code, !.range = range]
    BY <2>1 DEF Taken, split
  <2>3. code \in Lows /\ range \in Ranges /\ range < c.range
    BY <1>1, <1>2, <1>3, <1>5 DEF Lows, Ranges
  <2> HIDE DEF bit, t, code, range
  <2>4. t \in DecSet /\ t.range = range /\ t.pos = c.pos /\ t.slots = c.slots
    BY <2>2, <2>3 DEF DecSet
  <2>5. QED
    BY <2>1, <2>3, <2>4 DEF bit, t
<1>6. QED
  BY <1>4, <1>5

-----------------------------------------------------------------------------
(* The specification.                                                      *)

LEMMA NewSlots ==
  ASSUME NEW s \in SlotSet
  PROVE  /\ \A c \in EncSet : LET x == [c EXCEPT !.slots = s]
                              IN  /\ x \in EncSet /\ x.range = c.range /\ x.low = c.low
                                  /\ x.carry = c.carry /\ x.cache = c.cache /\ x.out = c.out
         /\ \A c \in DecSet : LET x == [c EXCEPT !.slots = s]
                              IN  x \in DecSet /\ x.range = c.range /\ x.pos = c.pos
BY DEF EncSet, DecSet

(* An encoder that has not given up, with room for any carry, and of a     *)
(* range that can be split.                                                *)
Ready == e \in EncSet /\ Room(e) /\ e.range >= Top

SentSet == [k : Kinds, bit : {0, 1}]

IInv ==
  /\ e \in Encoders
  /\ phase \in {"encode", "decode"}
  /\ phase = "encode" => Ready
  /\ d \in DecSet
  /\ sent \in Seq(SentSet)
  /\ got \in Seq({0, 1})

LEMMA EncoderReady == Encoder \in EncSet /\ Room(Encoder) /\ Encoder.range >= Top
<1>1. /\ Byte \in Nat /\ Byte >= 2 /\ Top \in Nat /\ Full \in Nat /\ Full >= 2 * Top /\ Top > 0
  BY Powers
<1>2. /\ 0 \in Lows /\ Full - 1 \in Ranges /\ 0 \in Carries /\ 0 \in Bytes /\ 1 \in Pendings
      /\ <<>> \in Outs /\ FALSE \in Unfailed /\ Slots \in SlotSet
  BY <1>1, SlotsStart DEF Lows, Ranges, Carries, Bytes, Pendings, Outs, Unfailed
<1>3. Encoder \in EncSet
  BY <1>2 DEF Encoder, EncSet
<1>4. /\ Encoder.low = 0 /\ Encoder.range = Full - 1 /\ Encoder.carry = 0 /\ Encoder.cache = 0
      /\ Encoder.out = <<>>
  BY DEF Encoder
<1>5. Need(Encoder) = Full - 1
  BY <1>1, <1>4 DEF Need
<1>6. QED
  BY <1>1, <1>3, <1>4, <1>5 DEF Room

LEMMA InitIInv == Init => IInv
<1>1. SUFFICES ASSUME Init PROVE IInv
  OBVIOUS
<1>2. e = Encoder /\ sent = <<>> /\ got = <<>> /\ phase \in {"encode", "decode"}
  BY <1>1 DEF Init
<1>3. Ready /\ e \in Encoders
  BY <1>2, EncoderReady, Typed DEF Ready
<1>4. \E s \in Seq(0 .. Byte - 1) : d = rc_dec_init(s)
  <2>1. <<>> \in Seq(0 .. Byte - 1)
    OBVIOUS
  <2>2. QED
    BY <1>1, <2>1, GivenAssumption DEF Init
<1>5. d \in DecSet
  BY <1>4, DecStart
<1>6. QED
  BY <1>2, <1>3, <1>5 DEF IInv

LEMMA EncBit ==
  ASSUME IInv, rc_enc_bit
  PROVE  IInv'
<1>1. phase = "encode" /\ Ready
  BY DEF IInv, rc_enc_bit
<1>2. PICK k \in Kinds, bit \in {0, 1} :
        /\ e' = [Coded(e, Chance(k, e.slots), bit) EXCEPT !.slots = Adapted(k, e.slots, bit)]
        /\ sent' = Append(sent, [k |-> k, bit |-> bit])
  BY DEF rc_enc_bit
<1> DEFINE prob == Chance(k, e.slots)
           slots == Adapted(k, e.slots, bit)
           c == Coded(e, prob, bit)
<1>3. prob \in 1 .. Prob - 1 /\ slots \in SlotSet
  BY <1>1, Fields, SlotsKept DEF Ready
<1> HIDE DEF prob, slots
<1>4. c \in EncSet /\ Room(c) /\ c.range >= Top
  BY <1>1, <1>3, CodedKept DEF Ready
<1> HIDE DEF c
<1>5. e' = [c EXCEPT !.slots = slots]
  BY <1>2 DEF c, prob, slots
<1>6. /\ e' \in EncSet /\ e'.range = c.range /\ e'.low = c.low /\ e'.carry = c.carry
      /\ e'.cache = c.cache /\ e'.out = c.out
  BY <1>3, <1>4, <1>5, NewSlots
<1>7. Need(e') = Need(c)
  BY <1>6 DEF Need
<1>8. Ready'
  BY <1>4, <1>6, <1>7 DEF Ready, Room
<1>9. e' \in Encoders /\ e'.failed = FALSE
  BY <1>6, Typed, Fields
<1>10. phase' = "encode" /\ d' = d /\ got' = got
  BY <1>9 DEF rc_enc_bit
<1>11. sent' \in Seq(SentSet)
  <2>1. [k |-> k, bit |-> bit] \in SentSet
    BY DEF SentSet
  <2>2. QED
    BY <1>2, <2>1, AppendProperties DEF IInv
<1>12. QED
  BY <1>8, <1>9, <1>10, <1>11 DEF IInv

LEMMA EncFinish ==
  ASSUME IInv, rc_enc_finish
  PROVE  IInv'
<1>1. phase = "encode" /\ Ready
  BY DEF IInv, rc_enc_finish
<1>2. e' \in Encoders /\ e'.failed = FALSE /\ e'.out # <<>>
  BY <1>1, FinishedKept DEF rc_enc_finish, Ready
<1>3. e'.out \in Seq(0 .. Byte - 1)
  BY <1>2 DEF Encoders
<1>4. Tail(e'.out) \in Seq(0 .. Byte - 1)
  BY <1>2, <1>3, HeadTailProperties
<1>5. d' \in DecSet
  BY <1>4, DecStart DEF rc_enc_finish
<1>6. phase' = "decode" /\ sent' = sent /\ got' = got
  BY <1>2 DEF rc_enc_finish
<1>7. QED
  BY <1>2, <1>5, <1>6 DEF IInv

(* What a decoded bit does to the decoder.                                 *)
LEMMA DecBit ==
  ASSUME IInv, rc_dec_bit
  PROVE  /\ d' \in DecSet /\ (d'.pos > d.pos \/ d'.range < d.range)
         /\ got' \in Seq({0, 1})
<1> DEFINE c == rc_dec_norm(d)
<1>1. d \in DecSet
  BY DEF IInv
<1>2. PICK k \in (IF sent # <<>> THEN {sent[Len(got) + 1].k} ELSE Kinds) :
        /\ d' = [Taken(c, Chance(k, d.slots), BitOf(c, Chance(k, d.slots)))
                  EXCEPT !.slots = Adapted(k, d.slots, BitOf(c, Chance(k, d.slots)))]
        /\ got' = Append(got, BitOf(c, Chance(k, d.slots)))
  BY Zenon DEF rc_dec_bit
<1>3. c \in DecSet /\ c.range >= Top /\ (c = d \/ c.pos > d.pos)
  BY <1>1, DecNorm
<1> HIDE DEF c
<1>4. k \in Kinds
  <2>1. CASE sent # <<>>
    <3>1. Len(got) < Len(sent) /\ sent \in Seq(SentSet)
      BY <2>1 DEF rc_dec_bit, IInv
    <3>2. Len(got) + 1 \in 1 .. Len(sent)
      BY <3>1, LenProperties DEF IInv
    <3>3. sent[Len(got) + 1] \in SentSet
      BY <3>1, <3>2, ElementOfSeq
    <3>4. QED
      BY <1>2, <2>1, <3>3 DEF SentSet
  <2>2. CASE sent = <<>>
    BY <1>2, <2>2
  <2>3. QED
    BY <2>1, <2>2
<1> DEFINE prob == Chance(k, d.slots)
           bit == BitOf(c, prob)
           t == Taken(c, prob, bit)
           slots == Adapted(k, d.slots, bit)
<1>5. d.slots \in SlotSet
  BY <1>1, DecFields
<1>6. prob \in 1 .. Prob - 1
  BY <1>4, <1>5, SlotsKept
<1> HIDE DEF prob
<1>7. bit \in {0, 1} /\ t \in DecSet /\ t.range < c.range /\ t.pos = c.pos
  BY <1>3, <1>6, DecTaken
<1> HIDE DEF bit, t
<1>8. slots \in SlotSet
  BY <1>4, <1>5, <1>7, SlotsKept
<1> HIDE DEF slots
<1>9. d' = [t EXCEPT !.slots = slots] /\ got' = Append(got, bit)
  BY <1>2, Zenon DEF prob, bit, t, slots
<1>10. d' \in DecSet /\ d'.range = t.range /\ d'.pos = t.pos
  BY <1>7, <1>8, <1>9, NewSlots
<1>11. d'.pos > d.pos \/ d'.range < d.range
  BY <1>3, <1>7, <1>10
<1>12. got' \in Seq({0, 1})
  BY <1>7, <1>9, AppendProperties DEF IInv
<1>13. QED
  BY <1>10, <1>11, <1>12

LEMMA NextIInv == IInv /\ [Next]_vars => IInv'
<1>1. ASSUME IInv, rc_dec_bit PROVE IInv'
  <2>1. e' = e /\ sent' = sent /\ phase' = phase
    BY <1>1 DEF rc_dec_bit
  <2>2. QED
    BY <1>1, <2>1, DecBit DEF IInv, Ready
<1>2. ASSUME IInv, UNCHANGED vars PROVE IInv'
  BY <1>2 DEF IInv, Ready, vars
<1>3. QED
  BY <1>1, <1>2, EncBit, EncFinish DEF Next

LEMMA Inductive == Spec => []IInv
BY InitIInv, NextIInv, PTL DEF Spec

LEMMA IInvTypeOK == IInv => TypeOK
<1>1. SUFFICES ASSUME IInv PROVE TypeOK
  OBVIOUS
<1>2. /\ d.range \in 1 .. Full - 1 /\ d.slots \in SlotSet /\ d.pos \in Nat /\ d.code \in 0 .. Full - 1
  BY <1>1, DecFields DEF IInv
<1>3. QED
  BY <1>1, <1>2 DEF IInv, TypeOK, Encoders

(* Encoder and decoder keep their types, for every size of byte, rate of   *)
(* adaptation, limit and set of given probabilities and streams: in        *)
(* particular rc_adapt_fixed and rc_adapt_prob never reach a probability   *)
(* of nought or one.                                                       *)
THEOREM TypeCorrect == Spec => []TypeOK
BY Inductive, IInvTypeOK, PTL

(* rc_shift and rc_addlow always have a byte that a carry can go to.       *)
THEOREM CarryHasRoom == Spec => []CarryFits
<1>1. IInv => CarryFits
  BY DEF IInv, Ready, Room, Need, CarryFits, Reach
<1>2. QED
  BY Inductive, <1>1, PTL

(* The encoder of rc.c never stops at "two carries pending" or "leading    *)
(* carry byte", whatever bits it is given.                                 *)
THEOREM EncoderNeverFails == Spec => []NeverFails
<1>1. IInv => NeverFails
  BY DEF IInv, NeverFails
<1>2. QED
  BY Inductive, <1>1, PTL

(* Each bit decoded, of any bytes at all, takes a byte or narrows the      *)
(* range: rc_dec_spent ends every loop that decodes until it holds.        *)
THEOREM DecoderConsumes == Spec => Consumes
<1>1. IInv /\ [Next]_vars => [got' # got => d'.pos > d.pos \/ d'.range < d.range]_vars
  <2>1. SUFFICES ASSUME IInv, [Next]_vars, got' # got
                 PROVE  d'.pos > d.pos \/ d'.range < d.range
    OBVIOUS
  <2>2. rc_dec_bit
    BY <2>1 DEF Next, vars, rc_enc_bit, rc_enc_finish
  <2>3. QED
    BY <2>1, <2>2, DecBit
<1>2. QED
  BY Inductive, <1>1, PTL DEF Spec, Consumes
-----------------------------------------------------------------------------
(* Bytes as digits.  Value(s)[n] is the number the first n bytes of s      *)
(* spell, as rc_get reads them: past the end of s they are zero.           *)

Value(s) ==
  CHOOSE v \in [Nat -> Nat] :
    v[0] = 0 /\ \A n \in Nat : v[n + 1] = v[n] * Byte + rc_get(s, n)

LEMMA ValueStep ==
  ASSUME NEW s \in Seq(0 .. Byte - 1)
  PROVE  /\ \A n \in Nat : Value(s)[n] \in Nat
         /\ Value(s)[0] = 0
         /\ \A n \in Nat : Value(s)[n + 1] = Value(s)[n] * Byte + rc_get(s, n)
<1> DEFINE G == [p \in Nat \X Nat |-> p[2] * Byte + rc_get(s, p[1])]
<1>1. Byte \in Nat
  BY Powers
<1>2. \A n \in Nat : rc_get(s, n) \in Nat
  <2>1. \A n \in Nat : rc_get(s, n) \in 0 .. Byte - 1
    BY GetByte
  <2>2. QED
    BY <1>1, <2>1
<1>3. G \in [Nat \X Nat -> Nat]
  <2>1. ASSUME NEW p \in Nat \X Nat PROVE p[2] * Byte + rc_get(s, p[1]) \in Nat
    <3>1. p[1] \in Nat /\ p[2] \in Nat
      OBVIOUS
    <3>2. rc_get(s, p[1]) \in Nat
      BY <1>2, <3>1
    <3> DEFINE x == rc_get(s, p[1])
    <3> HIDE DEF x
    <3>3. p[2] * Byte + x \in Nat
      BY <1>1, <3>1, <3>2 DEF x
    <3>4. QED
      BY <3>3 DEF x
  <2>2. QED
    BY <2>1
<1>4. \A n \in Nat, x \in Nat : G[<<n, x>>] = x * Byte + rc_get(s, n)
  OBVIOUS
<1> HIDE DEF G
<1>5. \E v \in [Nat -> Nat] : v[0] = 0 /\ \A n \in Nat : v[n + 1] = G[<<n, v[n]>>]
  <2>1. 0 \in Nat /\ G \in Steps(Nat)
    BY <1>3 DEF Steps
  <2>2. \E v : Recurs(v, Nat, 0, G)
    BY <2>1, Recursion
  <2>3. QED
    BY <2>2 DEF Recurs
<1>6. PICK v \in [Nat -> Nat] : v[0] = 0 /\ \A n \in Nat : v[n + 1] = G[<<n, v[n]>>]
  BY <1>5
<1>7. \A n \in Nat : v[n] \in Nat /\ v[n + 1] = v[n] * Byte + rc_get(s, n)
  BY <1>4, <1>6
<1>8. \E u \in [Nat -> Nat] :
        u[0] = 0 /\ \A n \in Nat : u[n + 1] = u[n] * Byte + rc_get(s, n)
  BY <1>6, <1>7
<1>9. /\ Value(s) \in [Nat -> Nat] /\ Value(s)[0] = 0
      /\ \A n \in Nat : Value(s)[n + 1] = Value(s)[n] * Byte + rc_get(s, n)
  BY <1>8 DEF Value
<1>10. QED
  BY <1>9

(* The first n digits decide it.                                           *)
LEMMA ValueAgrees ==
  ASSUME NEW s \in Seq(0 .. Byte - 1), NEW t \in Seq(0 .. Byte - 1), NEW n \in Nat,
         \A i \in Nat : i < n => rc_get(s, i) = rc_get(t, i)
  PROVE  Value(s)[n] = Value(t)[n]
<1> DEFINE D == {i \in Nat : i <= n => Value(s)[i] = Value(t)[i]}
<1>1. 0 \in D
  BY ValueStep
<1>2. ASSUME NEW i \in Nat, i \in D PROVE i + 1 \in D
  <2>1. SUFFICES ASSUME i + 1 <= n PROVE Value(s)[i + 1] = Value(t)[i + 1]
    OBVIOUS
  <2>2. i < n /\ i <= n
    BY <2>1
  <2>3. Value(s)[i] = Value(t)[i] /\ rc_get(s, i) = rc_get(t, i)
    BY <1>2, <2>2
  <2>4. /\ Value(s)[i + 1] = Value(s)[i] * Byte + rc_get(s, i)
        /\ Value(t)[i + 1] = Value(t)[i] * Byte + rc_get(t, i)
    BY ValueStep
  <2>5. QED
    BY <2>3, <2>4
<1> HIDE DEF D
<1>3. \A i \in Nat : i \in D
  BY <1>1, <1>2, Inducts
<1>4. n \in D
  BY <1>3
<1>5. QED
  BY <1>4 DEF D

(* The number all the bytes of s spell.                                    *)
Number(s) == Value(s)[Len(s)]

LEMMA NumberNat ==
  ASSUME NEW s \in Seq(0 .. Byte - 1)
  PROVE  Number(s) \in Nat
<1>1. Len(s) \in Nat
  OBVIOUS
<1>2. QED
  BY <1>1, ValueStep DEF Number

LEMMA NumberAppend ==
  ASSUME NEW s \in Seq(0 .. Byte - 1), NEW b \in 0 .. Byte - 1
  PROVE  Number(Append(s, b)) = Number(s) * Byte + b
<1> DEFINE t == Append(s, b)
           n == Len(s)
<1>1. t \in Seq(0 .. Byte - 1) /\ Len(t) = n + 1 /\ n \in Nat /\ t[n + 1] = b
  OBVIOUS
<1>2. \A i \in Nat : i < n => rc_get(s, i) = rc_get(t, i)
  BY DEF rc_get
<1>3. rc_get(t, n) = b
  BY <1>1 DEF rc_get
<1> HIDE DEF t, n
<1>4. Value(s)[n] = Value(t)[n]
  BY <1>1, <1>2, ValueAgrees
<1>5. Value(t)[n + 1] = Value(t)[n] * Byte + b
  BY <1>1, <1>3, ValueStep
<1>6. QED
  BY <1>1, <1>4, <1>5 DEF Number, t, n

(* Behind the end of s each digit is a zero.                               *)
LEMMA ValueBehind ==
  ASSUME NEW s \in Seq(0 .. Byte - 1), NEW n \in Nat, n >= Len(s)
  PROVE  Value(s)[n + 1] = Value(s)[n] * Byte
<1>1. rc_get(s, n) = 0
  BY DEF rc_get
<1>2. Value(s)[n] \in Nat /\ Byte \in Nat
  BY ValueStep, Powers
<1>3. Value(s)[n + 1] = Value(s)[n] * Byte + 0
  BY <1>1, ValueStep
<1>4. QED
  BY <1>2, <1>3

-----------------------------------------------------------------------------
(* What the encoder has spelled: the bytes written, the cached one and the *)
(* ones of all ones behind it, and the carry and low.                      *)

LEMMA CopiesGrow ==
  ASSUME NEW b \in 0 .. Byte - 1, NEW n \in Nat
  PROVE  /\ Copies(b, 0) = <<>>
         /\ Copies(b, n) \in Seq(0 .. Byte - 1) /\ Len(Copies(b, n)) = n
         /\ Copies(b, n + 1) = Append(Copies(b, n), b)
<1>1. Copies(b, 0) = <<>>
  BY DEF Copies
<1>2. Copies(b, n) \in Seq(0 .. Byte - 1) /\ Len(Copies(b, n)) = n
  BY IsASeq DEF Copies
<1>3. Copies(b, n + 1) = Append(Copies(b, n), b)
  BY DEF Copies
<1>4. QED
  BY <1>1, <1>2, <1>3

Behind(s, b, x, n) == (s \o <<b>>) \o Copies(x, n)

LEMMA BehindGrows ==
  ASSUME NEW s \in Seq(0 .. Byte - 1), NEW b \in 0 .. Byte - 1, NEW x \in 0 .. Byte - 1,
         NEW n \in Nat
  PROVE  /\ Behind(s, b, x, n) \in Seq(0 .. Byte - 1)
         /\ Len(Behind(s, b, x, n)) = Len(s) + 1 + n
         /\ Behind(s, b, x, 0) = Append(s, b)
         /\ Behind(s, b, x, n + 1) = Append(Behind(s, b, x, n), x)
<1> DEFINE t == s \o <<b>>
           c == Copies(x, n)
<1>1. t \in Seq(0 .. Byte - 1) /\ Len(t) = Len(s) + 1 /\ t = Append(s, b)
  OBVIOUS
<1>2. /\ Copies(x, 0) = <<>> /\ c \in Seq(0 .. Byte - 1) /\ Len(c) = n
      /\ Copies(x, n + 1) = Append(c, x)
  BY CopiesGrow
<1> HIDE DEF t, c
<1>3. t \o c \in Seq(0 .. Byte - 1) /\ Len(t \o c) = Len(t) + Len(c) /\ t \o <<>> = t
  <2>1. t \o c \in Seq(0 .. Byte - 1) /\ Len(t \o c) = Len(t) + Len(c)
    BY <1>1, <1>2, ConcatProperties
  <2>2. t \o <<>> = t
    BY <1>1, ConcatEmptySeq
  <2>3. QED
    BY <2>1, <2>2
<1>4. t \o Append(c, x) = Append(t \o c, x)
  <2>1. <<x>> \in Seq(0 .. Byte - 1)
    OBVIOUS
  <2>2. Append(c, x) = c \o <<x>> /\ Append(t \o c, x) = (t \o c) \o <<x>>
    BY <1>1, <1>2, <1>3
  <2>3. QED
    BY <1>1, <1>2, <2>1, <2>2, ConcatAssociative
<1>5. QED
  BY <1>1, <1>2, <1>3, <1>4 DEF Behind, t, c

(* A carry into bytes of all ones makes zeros of them and adds one to the  *)
(* byte before: the number they spell is one higher.                       *)
LEMMA CarryAddsOne ==
  ASSUME NEW s \in Seq(0 .. Byte - 1), NEW b \in 0 .. Byte - 2, NEW n \in Nat
  PROVE  Number(Behind(s, b + 1, 0, n)) = Number(Behind(s, b, Byte - 1, n)) + 1
<1> DEFINE P(i) == Number(Behind(s, b + 1, 0, i))
           Q(i) == Number(Behind(s, b, Byte - 1, i))
           D == {i \in Nat : P(i) = Q(i) + 1}
<1>1. Byte \in Nat /\ Byte >= 2
  BY Powers
<1>2. b \in 0 .. Byte - 1 /\ b + 1 \in 0 .. Byte - 1 /\ 0 \in 0 .. Byte - 1 /\ Byte - 1 \in 0 .. Byte - 1
  BY <1>1
<1>3. /\ P(0) = Number(s) * Byte + (b + 1) /\ Q(0) = Number(s) * Byte + b
      /\ \A i \in Nat : P(i) \in Nat /\ Q(i) \in Nat
      /\ \A i \in Nat : P(i + 1) = P(i) * Byte + 0 /\ Q(i + 1) = Q(i) * Byte + (Byte - 1)
  <2> DEFINE u == b + 1
             v == Byte - 1
  <2>1. u \in 0 .. Byte - 1 /\ v \in 0 .. Byte - 1
    BY <1>2
  <2> HIDE DEF u, v
  <2>2. /\ Behind(s, u, 0, 0) = Append(s, u) /\ Behind(s, b, v, 0) = Append(s, b)
    <3>1. 0 \in Nat
      OBVIOUS
    <3>2. QED
      BY <1>2, <2>1, <3>1, BehindGrows
  <2>3. \A i \in Nat : /\ Behind(s, u, 0, i) \in Seq(0 .. Byte - 1)
                       /\ Behind(s, b, v, i) \in Seq(0 .. Byte - 1)
                       /\ Behind(s, u, 0, i + 1) = Append(Behind(s, u, 0, i), 0)
                       /\ Behind(s, b, v, i + 1) = Append(Behind(s, b, v, i), v)
    <3>1. \A y \in 0 .. Byte - 1, x \in 0 .. Byte - 1, i \in Nat :
            /\ Behind(s, y, x, i) \in Seq(0 .. Byte - 1)
            /\ Behind(s, y, x, i + 1) = Append(Behind(s, y, x, i), x)
      BY BehindGrows
    <3>2. QED
      BY <1>2, <2>1, <3>1
  <2>4. /\ Number(Behind(s, u, 0, 0)) = Number(s) * Byte + u
        /\ Number(Behind(s, b, v, 0)) = Number(s) * Byte + b
    BY <1>2, <2>1, <2>2, NumberAppend
  <2>5. \A i \in Nat : /\ Number(Behind(s, u, 0, i)) \in Nat
                       /\ Number(Behind(s, b, v, i)) \in Nat
    BY <2>3, NumberNat
  <2>6. \A i \in Nat :
          /\ Number(Append(Behind(s, u, 0, i), 0)) = Number(Behind(s, u, 0, i)) * Byte + 0
          /\ Number(Append(Behind(s, b, v, i), v)) = Number(Behind(s, b, v, i)) * Byte + v
    BY <1>2, <2>1, <2>3, NumberAppend
  <2>7. QED
    BY <2>3, <2>4, <2>5, <2>6 DEF u, v
<1> HIDE DEF P, Q
<1>4. 0 \in D
  <2> DEFINE x == Number(s) * Byte
  <2>1. x \in Nat
    BY <1>1, NumberNat
  <2> HIDE DEF x
  <2>2. P(0) = x + (b + 1) /\ Q(0) = x + b
    BY <1>3 DEF x
  <2>3. QED
    BY <2>1, <2>2
<1>5. ASSUME NEW i \in Nat, i \in D PROVE i + 1 \in D
  <2>1. P(i) = Q(i) + 1 /\ Q(i) \in Nat
    BY <1>3, <1>5
  <2>2. (Q(i) + 1) * Byte = Q(i) * Byte + Byte /\ Q(i) * Byte \in Nat
    <3>1. \A q \in Nat : (q + 1) * Byte = q * Byte + Byte /\ q * Byte \in Nat
      BY <1>1
    <3>2. QED
      BY <2>1, <3>1
  <2>3. P(i + 1) = Q(i) * Byte + Byte /\ Q(i + 1) = Q(i) * Byte + (Byte - 1)
    BY <1>1, <1>3, <2>1, <2>2
  <2> DEFINE x == Q(i) * Byte
  <2>4. x \in Nat /\ P(i + 1) = x + Byte /\ Q(i + 1) = x + (Byte - 1)
    BY <2>2, <2>3
  <2> HIDE DEF x
  <2>5. P(i + 1) = Q(i + 1) + 1
    BY <1>1, <2>4
  <2>6. QED
    BY <2>5
<1> HIDE DEF D
<1>6. \A i \in Nat : i \in D
  BY <1>4, <1>5, Inducts
<1>7. QED
  BY <1>6 DEF D, P, Q

(* The number an encoder has spelled so far: the bytes it holds or has     *)
(* written, as if no carry came any more, then the carry and low.          *)
Held(c) == Behind(c.out, c.cache, Byte - 1, c.pending - 1)
Spelled(c) == Number(Held(c)) * Full + c.carry * Full + c.low

LEMMA HeldBytes ==
  ASSUME NEW c \in EncSet
  PROVE  /\ Held(c) \in Seq(0 .. Byte - 1) /\ Number(Held(c)) \in Nat
         /\ Len(Held(c)) = Len(c.out) + c.pending /\ Len(Held(c)) \in Nat \ {0}
         /\ Spelled(c) \in Nat
<1> DEFINE n == c.pending - 1
           x == Byte - 1
<1>1. /\ c.out \in Seq(0 .. Byte - 1) /\ c.cache \in 0 .. Byte - 1 /\ c.pending \in Nat \ {0}
      /\ c.carry \in {0, 1} /\ c.low \in 0 .. Full - 1
  BY Fields
<1>2. Byte \in Nat /\ Byte >= 2 /\ Full \in Nat
  BY Powers
<1>3. n \in Nat /\ x \in 0 .. Byte - 1 /\ Len(c.out) \in Nat
  BY <1>1, <1>2
<1>4. Len(c.out) + 1 + n = Len(c.out) + c.pending /\ Len(c.out) + c.pending \in Nat \ {0}
  <2>1. \A l \in Nat, p \in Nat \ {0} : l + 1 + (p - 1) = l + p /\ l + p \in Nat \ {0}
    OBVIOUS
  <2>2. QED
    BY <1>1, <1>3, <2>1
<1> HIDE DEF n, x
<1>5. /\ Behind(c.out, c.cache, x, n) \in Seq(0 .. Byte - 1)
      /\ Len(Behind(c.out, c.cache, x, n)) = Len(c.out) + 1 + n
  <2>1. \A s \in Seq(0 .. Byte - 1), b \in 0 .. Byte - 1 :
          /\ Behind(s, b, x, n) \in Seq(0 .. Byte - 1)
          /\ Len(Behind(s, b, x, n)) = Len(s) + 1 + n
    BY <1>3, BehindGrows
  <2>2. QED
    BY <1>1, <2>1
<1>6. Held(c) = Behind(c.out, c.cache, x, n)
  BY DEF Held, n, x
<1>7. Number(Held(c)) \in Nat
  BY <1>5, <1>6, NumberNat
<1>8. Spelled(c) \in Nat
  <2>1. \A h \in Nat, y \in {0, 1}, l \in Nat : h * Full + y * Full + l \in Nat
    BY <1>2
  <2>2. c.low \in Nat
    BY <1>1, <1>2
  <2>3. QED
    BY <1>1, <1>7, <2>1, <2>2 DEF Spelled
<1>9. QED
  BY <1>1, <1>3, <1>4, <1>5, <1>6, <1>7, <1>8

LEMMA LowParts ==
  ASSUME NEW low \in 0 .. Full - 1
  PROVE  /\ low % Top \in 0 .. Top - 1 /\ low \div Top \in 0 .. Byte - 1
         /\ low = Top * (low \div Top) + (low % Top)
         /\ low >= (Byte - 1) * Top => low \div Top = Byte - 1
<1> DEFINE m == low % Top
           b == low \div Top
<1>1. /\ Byte \in Nat /\ Byte >= 2 /\ Top \in Nat /\ Top > 0 /\ Full \in Nat /\ Full = Top * Byte
      /\ low \in Nat /\ low < Byte * Top
  BY Powers
<1>2. m \in 0 .. Top - 1 /\ b \in Nat /\ low = Top * b + m
  BY <1>1, Quotient
<1>3. b < Byte
  BY <1>1, QuotientBelow
<1> HIDE DEF m, b
<1>4. ASSUME low >= (Byte - 1) * Top PROVE b = Byte - 1
  <2>1. SUFFICES ASSUME b + 1 <= Byte - 1 PROVE FALSE
    BY <1>1, <1>2, <1>3
  <2>2. (b + 1) * Top <= (Byte - 1) * Top
    <3>1. b + 1 \in Nat /\ Byte - 1 \in Nat
      BY <1>1, <1>2
    <3>2. QED
      BY <1>1, <2>1, <3>1, Scaled
  <2> DEFINE x == Top * b
             y == (Byte - 1) * Top
  <2>3. (b + 1) * Top = x + Top /\ x \in Nat /\ y \in Nat
    BY <1>1, <1>2
  <2>4. x + Top <= y /\ low = x + m /\ low >= y
    BY <1>2, <1>4, <2>2, <2>3
  <2> HIDE DEF x, y
  <2>5. QED
    BY <1>1, <1>2, <2>3, <2>4
<1>5. QED
  BY <1>1, <1>2, <1>3, <1>4 DEF m, b

(* What a shift releases is what was held, with its carry added.           *)
LEMMA ReleasedNumber ==
  ASSUME NEW c \in EncSet, Room(c)
  PROVE  /\ c.out \o Released(c) \in Seq(0 .. Byte - 1)
         /\ Len(c.out \o Released(c)) = Len(Held(c))
         /\ Number(c.out \o Released(c)) = Number(Held(c)) + c.carry
<1> DEFINE x == (c.cache + c.carry) % Byte
           y == (Byte - 1 + c.carry) % Byte
           n == c.pending - 1
           top == Byte - 1
<1>1. /\ c.out \in Seq(0 .. Byte - 1) /\ c.cache \in 0 .. Byte - 1 /\ c.pending \in Nat \ {0}
      /\ c.carry \in {0, 1} /\ c.low \in 0 .. Full - 1 /\ c.range \in 1 .. Full - 1
  BY Fields
<1>2. Byte \in Nat /\ Byte >= 2 /\ Full \in Nat
  BY Powers
<1>3. n \in Nat /\ top \in 0 .. Byte - 1 /\ 0 \in 0 .. Byte - 1
  BY <1>1, <1>2
<1>4. c.carry = 1 => c.cache # Byte - 1
  <2>1. SUFFICES ASSUME c.carry = 1, c.cache = Byte - 1 PROVE FALSE
    OBVIOUS
  <2>2. 1 * Full + c.low + c.range <= Full
    BY <2>1 DEF Room, Need
  <2>3. QED
    BY <1>1, <1>2, <2>2
<1>5. c.carry = 0 => x = c.cache /\ y = top
  <2>1. \A z \in 0 .. Byte - 1 : z + 0 = z /\ z % Byte = z
    BY <1>2
  <2>2. QED
    BY <1>1, <1>3, <2>1
<1>6. c.carry = 1 => x = c.cache + 1 /\ y = 0 /\ c.cache \in 0 .. Byte - 2
  <2>1. SUFFICES ASSUME c.carry = 1
                 PROVE  x = c.cache + 1 /\ y = 0 /\ c.cache \in 0 .. Byte - 2
    OBVIOUS
  <2>2. c.cache \in 0 .. Byte - 2
    BY <1>1, <1>2, <1>4, <2>1
  <2>3. c.cache + 1 \in 0 .. Byte - 1
    BY <1>2, <2>2
  <2>4. \A z \in 0 .. Byte - 1 : z % Byte = z
    BY <1>2
  <2>5. x = c.cache + 1
    BY <2>1, <2>3, <2>4
  <2>6. Byte - 1 + c.carry = Byte
    BY <1>2, <2>1
  <2>7. Byte % Byte = 0
    BY <1>2
  <2>8. QED
    BY <2>2, <2>5, <2>6, <2>7
<1>7. x \in 0 .. Byte - 1 /\ y \in 0 .. Byte - 1
  <2> HIDE DEF x, y
  <2>1. QED
    BY <1>1, <1>2, <1>3, <1>5, <1>6
<1>8. c.out \o Released(c) = Behind(c.out, x, y, n)
  <2>1. Released(c) = <<x>> \o Copies(y, n)
    BY DEF Released
  <2> HIDE DEF x, y, n
  <2>2. <<x>> \in Seq(0 .. Byte - 1) /\ Copies(y, n) \in Seq(0 .. Byte - 1)
    BY <1>3, <1>7, CopiesGrow
  <2>3. (c.out \o <<x>>) \o Copies(y, n) = c.out \o (<<x>> \o Copies(y, n))
    <3>1. \A s, t, u \in Seq(0 .. Byte - 1) : (s \o t) \o u = s \o (t \o u)
      BY ConcatAssociative
    <3>2. QED
      BY <1>1, <2>2, <3>1
  <2>4. QED
    BY <2>1, <2>3 DEF Behind
<1>9. Held(c) = Behind(c.out, c.cache, top, n)
  BY DEF Held
<1>10. /\ Behind(c.out, x, y, n) \in Seq(0 .. Byte - 1)
       /\ Len(Behind(c.out, x, y, n)) = Len(c.out) + 1 + n
       /\ Len(Behind(c.out, c.cache, top, n)) = Len(c.out) + 1 + n
  <2> HIDE DEF x, y, n, top
  <2>1. \A s \in Seq(0 .. Byte - 1), b \in 0 .. Byte - 1, z \in 0 .. Byte - 1 :
          /\ Behind(s, b, z, n) \in Seq(0 .. Byte - 1)
          /\ Len(Behind(s, b, z, n)) = Len(s) + 1 + n
    BY <1>3, BehindGrows
  <2>2. QED
    BY <1>1, <1>3, <1>7, <2>1
<1>11. Number(Held(c)) \in Nat
  BY HeldBytes
<1>12. CASE c.carry = 0
  <2>1. x = c.cache /\ y = top
    BY <1>5, <1>12
  <2> HIDE DEF x, y, n, top
  <2>2. Number(c.out \o Released(c)) = Number(Held(c))
    BY <1>8, <1>9, <2>1
  <2>3. QED
    BY <1>8, <1>9, <1>10, <1>11, <1>12, <2>2
<1>13. CASE c.carry = 1
  <2>1. x = c.cache + 1 /\ y = 0 /\ c.cache \in 0 .. Byte - 2
    BY <1>6, <1>13
  <2> HIDE DEF x, y, n
  <2>2. Number(Behind(c.out, c.cache + 1, 0, n)) = Number(Behind(c.out, c.cache, Byte - 1, n)) + 1
    BY <1>1, <1>3, <2>1, CarryAddsOne
  <2>3. QED
    BY <1>8, <1>9, <1>10, <1>13, <2>1, <2>2
<1>14. QED
  BY <1>1, <1>12, <1>13

(* A shift puts a zero digit behind what is spelled, whichever byte it     *)
(* writes or holds back.                                                   *)
LEMMA ShiftSpells ==
  ASSUME NEW c \in EncSet, Room(c), NEW range
  PROVE  LET s == [rc_shift(c) EXCEPT !.range = range]
         IN  /\ Spelled(s) = Spelled(c) * Byte /\ Len(Held(s)) = Len(Held(c)) + 1
             /\ s.carry = 0
<1> DEFINE m == c.low % Top
           b == c.low \div Top
           low == m * Byte
           top == Byte - 1
           held == Number(Held(c))
           s == [rc_shift(c) EXCEPT !.range = range]
<1>1. /\ c.out \in Seq(0 .. Byte - 1) /\ c.cache \in 0 .. Byte - 1 /\ c.pending \in Nat \ {0}
      /\ c.carry \in {0, 1} /\ c.low \in 0 .. Full - 1 /\ c.failed = FALSE
  BY Fields
<1>2. Byte \in Nat /\ Byte >= 2 /\ Full \in Nat /\ Top \in Nat /\ Full = Top * Byte
  BY Powers
<1>3. /\ m \in 0 .. Top - 1 /\ b \in 0 .. Byte - 1 /\ c.low = Top * b + m
      /\ c.low >= (Byte - 1) * Top => b = Byte - 1
  BY <1>1, LowParts
<1>4. held \in Nat /\ Held(c) \in Seq(0 .. Byte - 1) /\ top \in 0 .. Byte - 1 /\ Len(Held(c)) \in Nat
  BY <1>2, HeldBytes
<1>5. Spelled(c) = held * Full + c.carry * Full + c.low
  BY DEF Spelled
<1> HIDE DEF m, b, held
<1>6. ASSUME NEW n \in Nat
      PROVE  (n * Byte + b) * Full + low = (n * Full + c.low) * Byte
  <2> DEFINE f == n * Full
             t == Top * b
  <2>1. f \in Nat /\ t \in Nat /\ m \in Nat /\ b \in Nat
    BY <1>2, <1>3
  <2>2. (n * Byte + b) * Full = f * Byte + t * Byte
    <3>1. (n * Byte + b) * Full = (n * Byte) * Full + b * (Top * Byte)
      BY <1>2, <2>1
    <3>2. (n * Byte) * Full = f * Byte
      BY <1>2
    <3>3. b * (Top * Byte) = t * Byte
      BY <1>2, <2>1
    <3>4. QED
      BY <3>1, <3>2, <3>3
  <2> HIDE DEF f, t
  <2>3. (f + (t + m)) * Byte = f * Byte + t * Byte + m * Byte
    BY <1>2, <2>1
  <2>4. c.low = t + m
    BY <1>3 DEF t
  <2>5. QED
    BY <2>2, <2>3, <2>4 DEF f
<1> HIDE DEF low, top
<1>7. CASE c.low < (Byte - 1) * Top \/ c.carry = 1
  <2> DEFINE out == c.out \o Released(c)
             failed == c.failed \/ (c.out = <<>> /\ Released(c)[1] # 0)
  <2>1. rc_shift(c) = [c EXCEPT !.out = out, !.cache = b, !.pending = 1,
                                !.carry = 0, !.low = low, !.failed = failed]
    BY <1>7, Zenon DEF rc_shift, low, m, b
  <2>2. /\ out \in Seq(0 .. Byte - 1) /\ Len(out) = Len(Held(c))
        /\ Number(out) = held + c.carry
    BY ReleasedNumber DEF held
  <2> HIDE DEF out, failed, s
  <2>3. s = Out(c, low, range, 0, b, 1, out, failed)
    BY <2>1, Zenon DEF s, Out
  <2>4. s.out = out /\ s.cache = b /\ s.pending = 1 /\ s.carry = 0 /\ s.low = low
    BY <2>3 DEF EncSet, Out
  <2>5. Held(s) = Append(out, b)
    <3>1. Behind(out, b, top, 0) = Append(out, b)
      BY <1>3, <1>4, <2>2, BehindGrows
    <3>2. 1 - 1 = 0
      OBVIOUS
    <3>3. QED
      BY <2>4, <3>1, <3>2 DEF Held, top
  <2>6. Number(Held(s)) = (held + c.carry) * Byte + b
    BY <1>3, <2>2, <2>5, NumberAppend
  <2> DEFINE n == held + c.carry
  <2>7. n \in Nat
    BY <1>1, <1>4
  <2>8. n * Full = held * Full + c.carry * Full
    BY <1>1, <1>2, <1>4
  <2> HIDE DEF n
  <2>9. Number(Held(s)) = n * Byte + b
    BY <2>6 DEF n
  <2>10. Spelled(s) = (n * Byte + b) * Full + 0 * Full + low
    BY <2>4, <2>9 DEF Spelled
  <2>11. Spelled(s) = (n * Byte + b) * Full + low
    <3>1. (n * Byte + b) * Full \in Nat /\ 0 * Full = 0
      BY <1>2, <1>3, <2>7
    <3>2. QED
      BY <2>10, <3>1
  <2>12. Spelled(s) = Spelled(c) * Byte
    BY <1>5, <1>6, <2>7, <2>8, <2>11
  <2>13. Len(Held(s)) = Len(Held(c)) + 1
    BY <2>2, <2>5
  <2>14. QED
    BY <2>4, <2>12, <2>13 DEF s
<1>8. CASE ~(c.low < (Byte - 1) * Top \/ c.carry = 1)
  <2> DEFINE n == c.pending - 1
             p == c.pending + 1
  <2>1. rc_shift(c) = [c EXCEPT !.pending = p, !.low = low]
    BY <1>8, Zenon DEF rc_shift, low, m
  <2>2. c.carry = 0 /\ b = top
    <3>1. (Byte - 1) * Top \in Nat
      BY <1>2
    <3>2. QED
      BY <1>1, <1>3, <1>8, <3>1 DEF top
  <2>3. n \in Nat /\ p - 1 = n + 1
    BY <1>1
  <2> HIDE DEF n, p, s
  <2>4. s = Within(c, low, range, p)
    BY <2>1, Zenon DEF s, Within
  <2>5. s.out = c.out /\ s.cache = c.cache /\ s.pending = p /\ s.carry = 0 /\ s.low = low
    BY <2>2, <2>4 DEF EncSet, Within
  <2>6. Held(s) = Append(Held(c), top)
    <3>1. Behind(c.out, c.cache, top, n + 1) = Append(Behind(c.out, c.cache, top, n), top)
      <4>1. \A t \in Seq(0 .. Byte - 1), y, x \in 0 .. Byte - 1, i \in Nat :
              Behind(t, y, x, i + 1) = Append(Behind(t, y, x, i), x)
        BY BehindGrows
      <4>2. QED
        BY <1>1, <1>4, <2>3, <4>1
    <3>2. Held(s) = Behind(c.out, c.cache, top, n + 1)
      BY <2>3, <2>5 DEF Held, top
    <3>3. QED
      BY <3>1, <3>2 DEF Held, top, n
  <2>7. Number(Held(s)) = held * Byte + b
    BY <1>4, <2>2, <2>6, NumberAppend DEF held
  <2>8. Spelled(s) = (held * Byte + b) * Full + 0 * Full + low
    BY <2>5, <2>7 DEF Spelled
  <2>9. Spelled(s) = (held * Byte + b) * Full + low /\ Spelled(c) = held * Full + c.low
    <3>1. (held * Byte + b) * Full \in Nat /\ held * Full \in Nat /\ 0 * Full = 0
      BY <1>2, <1>3, <1>4
    <3>2. QED
      BY <1>5, <2>2, <2>8, <3>1
  <2>10. Spelled(s) = Spelled(c) * Byte
    BY <1>4, <1>6, <2>9
  <2>11. Len(Held(s)) = Len(Held(c)) + 1
    BY <1>4, <2>6
  <2>12. QED
    BY <2>5, <2>10, <2>11 DEF s
<1>9. QED
  BY <1>7, <1>8

(* What is added to low is added to what is spelled.                       *)
LEMMA AddSpells ==
  ASSUME NEW c \in EncSet, Room(c), NEW split \in Nat, NEW range \in 1 .. Full - 1,
         split + range <= c.range
  PROVE  LET s == [rc_addlow(c, split) EXCEPT !.range = range]
         IN  Spelled(s) = Spelled(c) + split /\ Len(Held(s)) = Len(Held(c))
<1> DEFINE low == c.low + split
           carry == IF low >= Full THEN 1 ELSE c.carry
           failed == c.failed \/ (low >= Full /\ c.carry = 1)
           x == low % Full
           s == [rc_addlow(c, split) EXCEPT !.range = range]
<1>1. /\ c.low \in 0 .. Full - 1 /\ c.range \in 1 .. Full - 1 /\ c.carry \in {0, 1}
  BY Fields
<1>2. Full \in Nat /\ Full > 0
  BY Powers
<1>3. c.carry * Full = IF c.carry = 1 THEN Full ELSE 0
  BY <1>1, <1>2
<1>4. low >= Full => c.carry = 0
  <2>1. SUFFICES ASSUME low >= Full, c.carry = 1 PROVE FALSE
    BY <1>1
  <2>2. Full + c.low + c.range <= 2 * Full
    BY <1>3, <2>1 DEF Room, Need
  <2>3. QED
    BY <1>1, <1>2, <2>1, <2>2
<1>5. x = IF low >= Full THEN low - Full ELSE low
  <2>1. CASE low < Full
    BY <1>1, <1>2, <2>1
  <2>2. CASE low >= Full
    <3>1. low - Full \in 0 .. Full - 1 /\ low = Full + (low - Full)
      BY <1>1, <1>2, <2>2
    <3>2. \A y \in 0 .. Full - 1 : (Full + y) % Full = y
      BY <1>2
    <3>3. QED
      BY <2>2, <3>1, <3>2
  <2>3. QED
    BY <1>1, <1>2, <2>1, <2>2
<1>6. carry * Full + x = c.carry * Full + low
  BY <1>1, <1>2, <1>3, <1>4, <1>5
<1>7. s = Increased(c, x, range, carry, failed)
  BY Zenon DEF s, rc_addlow, Increased
<1>8. x \in Int /\ carry \in Int
  BY <1>1, <1>2, <1>5
<1> HIDE DEF x, s, carry, failed
<1>9. s.out = c.out /\ s.cache = c.cache /\ s.pending = c.pending /\ s.low = x /\ s.carry = carry
  BY <1>7 DEF EncSet, Increased
<1>10. Held(s) = Held(c)
  BY <1>9 DEF Held
<1> DEFINE h == Number(Held(c)) * Full
           u == carry * Full
           v == c.carry * Full
<1>11. h \in Nat /\ u \in Int /\ v \in Int
  BY <1>1, <1>2, <1>8, HeldBytes
<1>12. Spelled(s) = h + u + x /\ Spelled(c) = h + v + c.low /\ u + x = v + low
  BY <1>6, <1>9, <1>10 DEF Spelled
<1> HIDE DEF h, u, v
<1>13. Spelled(s) = Spelled(c) + split
  BY <1>1, <1>8, <1>11, <1>12
<1>14. QED
  BY <1>10, <1>13 DEF s

-----------------------------------------------------------------------------
(* The interval a sequence of bits stands for, in numbers that lose no     *)
(* digit: what both sides follow.  It is narrowed by each bit, and widened *)
(* by a digit while its range is below Top, as rc_norm does.               *)

Numbers == Nat
Intervals == [low : Numbers, range : Ranges, shifts : Numbers, slots : SlotSet]

Whole == [low |-> 0, range |-> Full - 1, shifts |-> 0, slots |-> Slots]

Wider(h) ==
  IF h.range < Top
    THEN [h EXCEPT !.low = h.low * Byte, !.range = h.range * Byte, !.shifts = h.shifts + 1]
    ELSE h
Wide(h) == Wider(Wider(Wider(h)))

Narrow(h, k, bit) ==
  LET split == Split(h.range, Chance(k, h.slots))
  IN  [h EXCEPT !.low = IF bit = 1 THEN h.low + split ELSE h.low,
                !.range = IF bit = 1 THEN h.range - split ELSE split,
                !.slots = Adapted(k, h.slots, bit)]

LEMMA IntervalFields ==
  ASSUME NEW h \in Intervals
  PROVE  h.low \in Nat /\ h.range \in 1 .. Full - 1 /\ h.shifts \in Nat /\ h.slots \in SlotSet
<1>1. h.low \in Numbers /\ h.range \in Ranges /\ h.shifts \in Numbers /\ h.slots \in SlotSet
  BY DEF Intervals
<1>2. QED
  BY <1>1 DEF Numbers, Ranges

LEMMA WholeInterval == Whole \in Intervals
<1>1. 0 \in Numbers /\ Full - 1 \in Ranges
  BY Powers DEF Numbers, Ranges
<1>2. QED
  BY <1>1, SlotsStart DEF Whole, Intervals

LEMMA WiderFields ==
  ASSUME NEW h \in Intervals
  PROVE  /\ h.range < Top => /\ Wider(h).low = h.low * Byte /\ Wider(h).range = h.range * Byte
                             /\ Wider(h).shifts = h.shifts + 1
         /\ ~(h.range < Top) => Wider(h) = h
         /\ Wider(h) \in Intervals /\ Wider(h).slots = h.slots
<1>1. h.low \in Nat /\ h.range \in 1 .. Full - 1 /\ h.shifts \in Nat
  BY IntervalFields
<1>2. Byte \in Nat /\ Top \in Nat /\ Top > 0
  BY Powers
<1>3. CASE h.range < Top
  <2> DEFINE low == h.low * Byte
             range == h.range * Byte
             shifts == h.shifts + 1
  <2>1. low \in Numbers /\ shifts \in Numbers
    BY <1>1, <1>2 DEF Numbers
  <2>2. range \in Ranges
    <3>1. h.range \in 1 .. Top - 1 /\ 0 \in 0 .. Top - 1
      BY <1>1, <1>2, <1>3
    <3>2. QED
      BY <3>1, Widens DEF Ranges
  <2>3. Wider(h) = [h EXCEPT !.low = low, !.range = range, !.shifts = shifts]
    BY <1>3 DEF Wider
  <2> HIDE DEF low, range, shifts
  <2>4. /\ Wider(h) \in Intervals /\ Wider(h).slots = h.slots /\ Wider(h).low = low
        /\ Wider(h).range = range /\ Wider(h).shifts = shifts
    BY <2>1, <2>2, <2>3 DEF Intervals
  <2>5. QED
    BY <1>3, <2>4 DEF low, range, shifts
<1>4. CASE ~(h.range < Top)
  BY <1>4 DEF Wider
<1>5. QED
  BY <1>3, <1>4

LEMMA WiderReaches ==
  ASSUME NEW h \in Intervals, NEW k \in Nat, k <= h.range, k * Byte <= Top
  PROVE  k * Byte <= Wider(h).range
<1>1. h.range \in Nat /\ Byte \in Nat /\ Top \in Nat
  BY IntervalFields, Powers
<1>2. k * Byte <= h.range * Byte
  BY <1>1, Scaled
<1>3. CASE h.range < Top
  BY <1>2, <1>3, WiderFields
<1>4. CASE ~(h.range < Top)
  <2>1. k * Byte \in Nat
    BY <1>1
  <2>2. k * Byte <= h.range
    BY <1>1, <1>4, <2>1
  <2>3. QED
    BY <1>4, <2>2, WiderFields
<1>5. QED
  BY <1>3, <1>4

LEMMA WideFields ==
  ASSUME NEW h \in Intervals
  PROVE  /\ Wider(h) \in Intervals /\ Wider(Wider(h)) \in Intervals
         /\ Wide(h) \in Intervals /\ Wide(h).slots = h.slots /\ Wide(h).range >= Top
<1> DEFINE x == Wider(h)
           y == Wider(x)
           z == Wider(y)
<1>1. /\ 1 <= h.range /\ 1 * Byte = Byte /\ Byte * Byte = Prob /\ Prob * Byte = Top
      /\ Byte <= Top /\ Prob <= Top /\ Top <= Top /\ 1 \in Nat /\ Byte \in Nat /\ Prob \in Nat
  <2>1. h.range \in 1 .. Full - 1
    BY IntervalFields
  <2>2. QED
    BY <2>1, Powers DEF Prob
<1>2. x \in Intervals /\ x.slots = h.slots
  BY WiderFields
<1>3. Byte <= x.range
  BY <1>1, WiderReaches
<1> HIDE DEF x
<1>4. y \in Intervals /\ y.slots = h.slots
  BY <1>2, WiderFields
<1>5. Prob <= y.range
  BY <1>1, <1>2, <1>3, WiderReaches
<1> HIDE DEF y
<1>6. z \in Intervals /\ z.slots = h.slots
  BY <1>4, WiderFields
<1>7. Top <= z.range
  BY <1>1, <1>4, <1>5, WiderReaches
<1>8. z.range >= Top
  BY <1>6, <1>7, IntervalFields, Powers
<1>9. Wide(h) = z
  BY DEF Wide, x, y, z
<1>10. QED
  BY <1>2, <1>4, <1>6, <1>8, <1>9 DEF x, y

LEMMA NarrowFields ==
  ASSUME NEW h \in Intervals, h.range >= Top, NEW k \in Kinds, NEW bit \in {0, 1}
  PROVE  LET split == Split(h.range, Chance(k, h.slots))
             n == Narrow(h, k, bit)
         IN  /\ split \in 1 .. h.range - 1
             /\ bit = 1 => n.low = h.low + split /\ n.range = h.range - split
             /\ bit = 0 => n.low = h.low /\ n.range = split
             /\ n.shifts = h.shifts /\ n.slots = Adapted(k, h.slots, bit)
             /\ n \in Intervals
<1> DEFINE split == Split(h.range, Chance(k, h.slots))
           low == IF bit = 1 THEN h.low + split ELSE h.low
           range == IF bit = 1 THEN h.range - split ELSE split
           slots == Adapted(k, h.slots, bit)
           n == Narrow(h, k, bit)
<1>1. h.low \in Nat /\ h.range \in 1 .. Full - 1 /\ h.slots \in SlotSet
  BY IntervalFields
<1>2. Chance(k, h.slots) \in 1 .. Prob - 1 /\ slots \in SlotSet
  BY <1>1, SlotsKept
<1>3. Top \in Nat /\ Full \in Nat
  BY Powers
<1>4. h.range \in Top .. Full - 1
  BY <1>1, <1>3
<1>5. split \in 1 .. h.range - 1
  BY <1>2, <1>4, SplitInside
<1>6. n = [h EXCEPT !.low = low, !.range = range, !.slots = slots]
  BY Zenon DEF Narrow, low, range, slots, split
<1> HIDE DEF split, slots, n
<1>7. low \in Numbers /\ range \in Ranges
  BY <1>1, <1>3, <1>5 DEF Numbers, Ranges
<1> HIDE DEF low, range
<1>8. /\ n \in Intervals /\ n.low = low /\ n.range = range /\ n.slots = slots
      /\ n.shifts = h.shifts
  BY <1>2, <1>6, <1>7 DEF Intervals
<1>9. QED
  BY <1>5, <1>8 DEF low, range, slots, n, split

-----------------------------------------------------------------------------
(* The encoder follows it: what it has spelled is the lower bound.         *)

Spells(c, h) == Spelled(c) = h.low /\ c.range = h.range /\ Len(Held(c)) = h.shifts + 1

LEMMA WiderSpells ==
  ASSUME NEW c \in EncSet, Room(c), NEW h \in Intervals, Spells(c, h)
  PROVE  /\ Widened(c) \in EncSet /\ Room(Widened(c))
         /\ Spells(Widened(c), Wider(h))
<1>1. Widened(c) \in EncSet /\ Room(Widened(c))
  <2>1. c.range \in 1 .. Full - 1 /\ Top \in Nat /\ Byte \in Nat
    BY Fields, Powers
  <2>2. 0 \in Nat /\ 0 <= c.range /\ 0 * Byte <= Top
    BY <2>1
  <2>3. QED
    BY <2>2, WidenedKept
<1>2. CASE c.range < Top
  <2> DEFINE range == c.range * Byte
             s == [rc_shift(c) EXCEPT !.range = range]
  <2>1. Widened(c) = s
    BY <1>2, ShiftRange DEF Widened
  <2>2. s.range = range
    BY <1>2, ShiftKept
  <2> HIDE DEF range
  <2>3. Spelled(s) = Spelled(c) * Byte /\ Len(Held(s)) = Len(Held(c)) + 1
    BY ShiftSpells
  <2> HIDE DEF s
  <2>4. h.range < Top /\ h.shifts \in Nat
    BY <1>2, IntervalFields DEF Spells
  <2>5. /\ Wider(h).low = h.low * Byte /\ Wider(h).range = h.range * Byte
        /\ Wider(h).shifts = h.shifts + 1
    BY <2>4, WiderFields
  <2>6. Spells(s, Wider(h))
    BY <2>2, <2>3, <2>5 DEF Spells, range
  <2>7. QED
    BY <1>1, <2>1, <2>6
<1>3. CASE ~(c.range < Top)
  <2>1. Widened(c) = c
    BY <1>3 DEF Widened
  <2>2. Wider(h) = h
    BY <1>3, WiderFields DEF Spells
  <2>3. QED
    BY <1>1, <2>1, <2>2
<1>4. QED
  BY <1>2, <1>3

LEMMA NormSpells ==
  ASSUME NEW c \in EncSet, Room(c), NEW h \in Intervals, Spells(c, h)
  PROVE  Spells(rc_norm(c), Wide(h))
<1> DEFINE x == Widened(c)
           y == Widened(x)
           u == Wider(h)
           v == Wider(u)
<1>1. x \in EncSet /\ Room(x) /\ u \in Intervals /\ Spells(x, u)
  BY WiderSpells, WideFields
<1> HIDE DEF x, u
<1>2. y \in EncSet /\ Room(y) /\ v \in Intervals /\ Spells(y, v)
  BY <1>1, WiderSpells, WideFields
<1> HIDE DEF y, v
<1>3. Spells(Widened(y), Wider(v))
  BY <1>2, WiderSpells
<1>4. QED
  BY <1>3 DEF rc_norm, Wide, x, y, u, v

LEMMA CodedSpells ==
  ASSUME NEW c \in EncSet, Room(c), c.range >= Top, NEW h \in Intervals, Spells(c, h),
         c.slots = h.slots, NEW k \in Kinds, NEW bit \in {0, 1}
  PROVE  Spells(Coded(c, Chance(k, c.slots), bit), Wide(Narrow(h, k, bit)))
<1> DEFINE split == Split(h.range, Chance(k, h.slots))
           n == Narrow(h, k, bit)
<1>1. c.range = h.range /\ h.range >= Top
  BY DEF Spells
<1>2. /\ split \in 1 .. h.range - 1
      /\ bit = 1 => n.low = h.low + split /\ n.range = h.range - split
      /\ bit = 0 => n.low = h.low /\ n.range = split
      /\ n.shifts = h.shifts /\ n \in Intervals
  BY <1>1, NarrowFields
<1>3. /\ h.range \in 1 .. Full - 1 /\ h.low \in Nat /\ Full \in Nat
      /\ c.low \in 0 .. Full - 1 /\ c.carry * Full \in Nat
  <2>1. h.range \in 1 .. Full - 1 /\ h.low \in Nat /\ Full \in Nat
    BY IntervalFields, Powers
  <2>2. c.low \in 0 .. Full - 1 /\ c.carry \in {0, 1}
    BY Fields
  <2>3. QED
    BY <2>1, <2>2
<1>4. Split(c.range, Chance(k, c.slots)) = split
  BY <1>1
<1> HIDE DEF split, n
<1>5. CASE bit = 1
  <2> DEFINE range == h.range - split
             s == [rc_addlow(c, split) EXCEPT !.range = range]
  <2>1. split \in Nat /\ range \in 1 .. Full - 1 /\ split + range <= c.range
    BY <1>1, <1>2, <1>3
  <2>2. Coded(c, Chance(k, c.slots), bit) = rc_norm(s)
    BY <1>1, <1>4, <1>5 DEF Coded
  <2> HIDE DEF range
  <2>3. s \in EncSet /\ Room(s) /\ s.range = range
    BY <2>1, AddKept
  <2>4. Spelled(s) = Spelled(c) + split /\ Len(Held(s)) = Len(Held(c))
    BY <2>1, AddSpells
  <2> HIDE DEF s
  <2>5. Spells(s, n)
    BY <1>2, <1>5, <2>3, <2>4 DEF Spells, range
  <2>6. QED
    BY <1>2, <2>2, <2>3, <2>5, NormSpells DEF n
<1>6. CASE bit = 0
  <2> DEFINE s == [c EXCEPT !.range = split]
  <2>1. split \in Ranges
    BY <1>2, <1>3 DEF Ranges
  <2>2. Coded(c, Chance(k, c.slots), bit) = rc_norm(s)
    BY <1>4, <1>6 DEF Coded
  <2>3. /\ s \in EncSet /\ s.low = c.low /\ s.range = split /\ s.carry = c.carry
        /\ s.cache = c.cache /\ s.out = c.out
    BY <2>1, Ranged
  <2>4. s.pending = c.pending
    BY DEF EncSet
  <2> HIDE DEF s
  <2>5. Held(s) = Held(c) /\ Spelled(s) = Spelled(c)
    BY <2>3, <2>4 DEF Held, Spelled
  <2>6. Spells(s, n)
    BY <1>2, <1>6, <2>3, <2>5 DEF Spells
  <2>7. Room(s)
    <3>1. Need(s) <= Need(c) /\ Need(s) \in Int /\ Need(c) \in Int
      BY <1>1, <1>2, <1>3, <2>3 DEF Need
    <3>2. QED
      BY <1>3, <2>3, <3>1 DEF Room
  <2>8. QED
    BY <1>2, <2>2, <2>3, <2>6, <2>7, NormSpells DEF n
<1>7. QED
  BY <1>5, <1>6

(* A change of the slots changes nothing of what is spelled.               *)
LEMMA SlotsSpell ==
  ASSUME NEW c \in EncSet, NEW s, NEW h, Spells(c, h)
  PROVE  Spells([c EXCEPT !.slots = s], h)
<1> DEFINE x == [c EXCEPT !.slots = s]
<1>1. /\ x.low = c.low /\ x.range = c.range /\ x.carry = c.carry /\ x.cache = c.cache
      /\ x.out = c.out /\ x.pending = c.pending
  BY DEF EncSet
<1> HIDE DEF x
<1>2. Held(x) = Held(c) /\ Spelled(x) = Spelled(c)
  BY <1>1 DEF Held, Spelled
<1>3. Spells(x, h)
  BY <1>1, <1>2 DEF Spells
<1>4. QED
  BY <1>3 DEF x

-----------------------------------------------------------------------------
(* The number the finished bytes spell lies in the interval of every bit   *)
(* sent.                                                                   *)

Good(h, z) ==
  /\ h.low <= Value(z)[h.shifts + 5] /\ Value(z)[h.shifts + 5] < h.low + h.range
  /\ h.shifts + 2 <= Len(z)

(* What is inside an interval widened by a digit is inside the interval.   *)
LEMMA WiderBack ==
  ASSUME NEW h \in Intervals, NEW z \in Seq(0 .. Byte - 1), Good(Wider(h), z)
  PROVE  Good(h, z)
<1> DEFINE n == h.shifts + 5
           v == Value(z)[n]
           b == rc_get(z, n)
<1>1. h.low \in Nat /\ h.range \in 1 .. Full - 1 /\ h.shifts \in Nat
  BY IntervalFields
<1>2. CASE ~(h.range < Top)
  BY <1>2, WiderFields
<1>3. CASE h.range < Top
  <2>1. /\ Wider(h).low = h.low * Byte /\ Wider(h).range = h.range * Byte
        /\ Wider(h).shifts = h.shifts + 1
    BY <1>3, WiderFields
  <2>2. n \in Nat /\ h.shifts + 1 + 5 = n + 1
    BY <1>1
  <2>3. v \in Nat /\ Value(z)[n + 1] = v * Byte + b
    BY <2>2, ValueStep
  <2>4. b \in 0 .. Byte - 1 /\ Byte \in Nat
    BY <2>2, GetByte, Powers
  <2>5. /\ h.low * Byte <= v * Byte + b /\ v * Byte + b < h.low * Byte + h.range * Byte
        /\ h.shifts + 1 + 2 <= Len(z)
    BY <2>1, <2>2, <2>3 DEF Good
  <2> HIDE DEF n, v, b
  <2>6. h.low <= v
    <3>1. SUFFICES ASSUME v + 1 <= h.low PROVE FALSE
      BY <1>1, <2>3
    <3>2. (v + 1) * Byte <= h.low * Byte
      <4>1. v + 1 \in Nat
        BY <2>3
      <4>2. QED
        BY <1>1, <2>4, <3>1, <4>1, Scaled
    <3> DEFINE x == v * Byte
               y == h.low * Byte
    <3>3. (v + 1) * Byte = x + Byte /\ x \in Nat /\ y \in Nat
      BY <1>1, <2>3, <2>4
    <3>4. x + Byte <= y /\ y <= x + b
      BY <2>5, <3>2, <3>3
    <3> HIDE DEF x, y
    <3>5. QED
      BY <2>4, <3>3, <3>4
  <2>7. v < h.low + h.range
    <3> DEFINE m == h.low + h.range
    <3>1. m \in Nat
      BY <1>1
    <3>2. h.low * Byte + h.range * Byte = m * Byte
      BY <1>1, <2>4
    <3> HIDE DEF m
    <3>3. SUFFICES ASSUME m <= v PROVE FALSE
      BY <2>3, <3>1 DEF m
    <3>4. m * Byte <= v * Byte
      BY <2>3, <2>4, <3>1, <3>3, Scaled
    <3> DEFINE x == v * Byte
               y == m * Byte
    <3>5. x \in Nat /\ y \in Nat /\ y <= x /\ x + b < y
      BY <2>3, <2>4, <2>5, <3>1, <3>2, <3>4
    <3> HIDE DEF x, y
    <3>6. QED
      BY <2>4, <3>5
  <2>8. h.shifts + 2 <= Len(z)
    BY <1>1, <2>5
  <2>9. QED
    BY <2>6, <2>7, <2>8 DEF Good, v, n
<1>4. QED
  BY <1>2, <1>3

LEMMA WideBack ==
  ASSUME NEW h \in Intervals, NEW z \in Seq(0 .. Byte - 1), Good(Wide(h), z)
  PROVE  Good(Wider(Wider(h)), z) /\ Good(Wider(h), z) /\ Good(h, z)
<1>1. Good(Wider(Wider(h)), z)
  BY WideFields, WiderBack DEF Wide
<1>2. Good(Wider(h), z)
  BY <1>1, WideFields, WiderBack
<1>3. QED
  BY <1>1, <1>2, WiderBack

(* What is inside the part of a bit is inside the whole, and on that bit's *)
(* side of the split.                                                      *)
LEMMA NarrowBack ==
  ASSUME NEW h \in Intervals, h.range >= Top, NEW k \in Kinds, NEW bit \in {0, 1},
         NEW z \in Seq(0 .. Byte - 1), Good(Narrow(h, k, bit), z)
  PROVE  /\ Good(h, z)
         /\ Value(z)[h.shifts + 5] - h.low < Split(h.range, Chance(k, h.slots)) <=> bit = 0
<1> DEFINE split == Split(h.range, Chance(k, h.slots))
           n == Narrow(h, k, bit)
           v == Value(z)[h.shifts + 5]
<1>1. /\ split \in 1 .. h.range - 1
      /\ bit = 1 => n.low = h.low + split /\ n.range = h.range - split
      /\ bit = 0 => n.low = h.low /\ n.range = split
      /\ n.shifts = h.shifts
  BY NarrowFields
<1>2. h.low \in Nat /\ h.range \in Nat /\ h.shifts \in Nat
  BY IntervalFields, Powers
<1>3. v \in Nat
  <2>1. h.shifts + 5 \in Nat
    BY <1>2
  <2>2. QED
    BY <2>1, ValueStep
<1>4. n.low <= v /\ v < n.low + n.range /\ h.shifts + 2 <= Len(z)
  BY <1>1 DEF Good
<1> HIDE DEF split, n, v
<1>5. CASE bit = 0
  BY <1>1, <1>2, <1>3, <1>4, <1>5 DEF Good, split, v
<1>6. CASE bit = 1
  <2>1. h.low + split <= v /\ v < h.low + split + (h.range - split)
    BY <1>1, <1>4, <1>6
  <2>2. h.low <= v /\ v < h.low + h.range /\ ~(v - h.low < split)
    BY <1>1, <1>2, <1>3, <2>1
  <2>3. QED
    BY <1>4, <1>6, <2>2 DEF Good, split, v
<1>7. QED
  BY <1>5, <1>6

(* The bytes of a finish: those held after it.                             *)
LEMMA FinishedHeld ==
  ASSUME NEW c \in EncSet, Room(c), c.range >= Top
  PROVE  Finished(c).out = Held(FinishLow(c))
<1> DEFINE f == FinishLow(c)
           out == f.out \o <<f.cache>> \o Copies(Byte - 1, f.pending - 1)
           failed == f.failed \/ (f.out = <<>> /\ f.cache # 0)
<1>1. f \in EncSet
  BY FinishKept
<1>2. Finished(c) = [f EXCEPT !.out = out, !.pending = 0, !.failed = failed]
  BY Zenon DEF Finished, f, out, failed
<1>3. out = Held(f)
  BY DEF Held, Behind
<1> HIDE DEF f, out, failed
<1>4. Finished(c).out = out
  BY <1>1, <1>2 DEF EncSet
<1>5. QED
  BY <1>3, <1>4 DEF f

(* One round of the finish.                                                *)
Round(c) == [rc_shift(c) EXCEPT !.range = c.range * Byte]

LEMMA RoundSpells ==
  ASSUME NEW c \in EncSet, Room(c), c.range < Top
  PROVE  /\ Round(c) \in EncSet /\ Room(Round(c)) /\ Round(c).range = c.range * Byte
         /\ Spelled(Round(c)) = Spelled(c) * Byte /\ Len(Held(Round(c))) = Len(Held(c)) + 1
         /\ Round(c).carry = 0
<1> DEFINE range == c.range * Byte
           s == [rc_shift(c) EXCEPT !.range = range]
<1>1. s \in EncSet /\ Room(s) /\ s.range = range
  BY ShiftKept
<1>2. s = Round(c)
  BY DEF Round
<1> HIDE DEF range
<1>3. Spelled(s) = Spelled(c) * Byte /\ Len(Held(s)) = Len(Held(c)) + 1 /\ s.carry = 0
  BY ShiftSpells
<1>4. QED
  BY <1>1, <1>2, <1>3 DEF range

LEMMA FinishGood ==
  ASSUME NEW c \in EncSet, Room(c), c.range >= Top, NEW h \in Intervals, Spells(c, h)
  PROVE  /\ Finished(c).out \in Seq(0 .. Byte - 1)
         /\ Good(h, Finished(c).out)
<1> DEFINE f == FinishLow(c)
           z == Held(f)
           m == h.shifts
           w == h.low
<1>1. /\ Byte \in Nat /\ Byte >= 2 /\ Prob \in Nat /\ Prob >= 4 /\ Top \in Nat /\ Top >= 2 * Prob
      /\ Prob = Byte * Byte /\ Top = Prob * Byte /\ Full \in Nat /\ Full = Top * Byte
      /\ Full >= 2 * Top
  BY Powers DEF Prob
<1>2. /\ m \in Nat /\ w \in Nat /\ c.range \in 1 .. Full - 1 /\ c.range = h.range
      /\ Spelled(c) = w /\ Len(Held(c)) = m + 1
  BY IntervalFields DEF Spells
<1>3. Finished(c).out = z
  BY FinishedHeld
<1>4. f \in EncSet
  BY FinishKept
<1>5. z \in Seq(0 .. Byte - 1) /\ Number(z) \in Nat /\ f.low \in 0 .. Full - 1
  BY <1>4, HeldBytes, Fields
<1>6. ASSUME f.carry = 0
      PROVE  Spelled(f) = Number(z) * Full + f.low
  <2>1. \A n \in Nat, l \in 0 .. Full - 1 : n * Full + 0 * Full + l = n * Full + l
    BY <1>1
  <2>2. QED
    BY <1>5, <1>6, <2>1 DEF Spelled
<1>7. CASE c.range > 2 * Top
  <2> DEFINE r == Top \div 2
             s == [rc_addlow(c, Top) EXCEPT !.range = r]
             v == Value(z)[m + 5]
  <2>1. r \in 1 .. Full - 1 /\ r < Top /\ Top + r <= c.range
    BY <1>1, <1>2, <1>7
  <2>2. s \in EncSet /\ Room(s) /\ s.range = r
    <3> HIDE DEF r
    <3>1. QED
      BY <1>1, <2>1, AddKept
  <2>3. f = Round(s)
    <3> DEFINE round(x) == [rc_shift(x) EXCEPT !.range = @ * Byte]
    <3>1. f = round(s)
      BY <1>7 DEF FinishLow
    <3>2. \A x \in EncSet : round(x) = Round(x)
      BY ShiftRange DEF Round
    <3> HIDE DEF round, s, f
    <3>3. QED
      BY <2>2, <3>1, <3>2
  <2> HIDE DEF r, f
  <2>4. Spelled(s) = w + Top /\ Len(Held(s)) = m + 1
    <3> DEFINE t == Top
    <3>1. t \in Nat /\ t + r <= c.range
      BY <1>1, <2>1
    <3> HIDE DEF t
    <3>2. LET x == [rc_addlow(c, t) EXCEPT !.range = r]
          IN  Spelled(x) = Spelled(c) + t /\ Len(Held(x)) = Len(Held(c))
      BY <2>1, <3>1, AddSpells
    <3>3. QED
      BY <1>2, <3>2 DEF t
  <2> HIDE DEF s
  <2>5. Spelled(f) = (w + Top) * Byte /\ Len(z) = m + 2 /\ f.carry = 0
    BY <1>2, <2>1, <2>2, <2>3, <2>4, RoundSpells
  <2>6. v = Number(z) * Top
    <3>1. /\ m + 2 \in Nat /\ m + 3 \in Nat /\ m + 4 \in Nat
          /\ m + 2 + 1 = m + 3 /\ m + 3 + 1 = m + 4 /\ m + 4 + 1 = m + 5
      BY <1>2
    <3>2. /\ m + 2 >= Len(z) /\ m + 3 >= Len(z) /\ m + 4 >= Len(z)
      BY <1>2, <2>5
    <3> HIDE DEF z
    <3>3. /\ Value(z)[m + 2 + 1] = Value(z)[m + 2] * Byte
          /\ Value(z)[m + 3 + 1] = Value(z)[m + 3] * Byte
          /\ Value(z)[m + 4 + 1] = Value(z)[m + 4] * Byte
      BY <1>5, <3>1, <3>2, ValueBehind
    <3>4. v = Value(z)[m + 2] * Byte * Byte * Byte
      BY <3>1, <3>3
    <3>5. Value(z)[m + 2] = Number(z)
      BY <2>5 DEF Number
    <3>6. \A n \in Nat : n * Byte * Byte * Byte = n * Top
      <4>1. \A n \in Nat : n * Byte * Byte * Byte = n * (Byte * Byte * Byte)
        BY <1>1
      <4>2. QED
        BY <1>1, <4>1
    <3>7. QED
      BY <1>5, <3>4, <3>5, <3>6
  <2>7. v \in Nat
    BY <1>1, <1>5, <2>6
  <2>8. (w + Top) * Byte = v * Byte + f.low
    <3>1. \A n \in Nat : (n * Top) * Byte = n * Full
      BY <1>1
    <3>2. v * Byte = Number(z) * Full
      BY <1>5, <2>6, <3>1
    <3>3. QED
      BY <1>6, <2>5, <3>2
  <2> HIDE DEF v, z
  <2>9. v <= w + Top
    <3>1. SUFFICES ASSUME w + Top + 1 <= v PROVE FALSE
      BY <1>1, <1>2, <2>7
    <3> DEFINE u == w + Top
               x == u * Byte
               y == v * Byte
    <3>2. u \in Nat
      BY <1>1, <1>2
    <3>3. x = y + f.low
      BY <2>8
    <3> HIDE DEF u
    <3>4. (u + 1) * Byte <= y
      <4>1. u + 1 \in Nat /\ u + 1 <= v
        BY <3>1, <3>2 DEF u
      <4>2. QED
        BY <1>1, <2>7, <4>1, Scaled
    <3>5. (u + 1) * Byte = x + Byte /\ x \in Nat /\ y \in Nat
      BY <1>1, <2>7, <3>2
    <3> HIDE DEF x, y
    <3>6. QED
      BY <1>1, <1>5, <3>3, <3>4, <3>5
  <2>10. w < v
    <3>1. SUFFICES ASSUME v <= w PROVE FALSE
      BY <1>2, <2>7
    <3>2. v * Byte <= w * Byte
      BY <1>1, <1>2, <2>7, <3>1, Scaled
    <3>3. (w + Top) * Byte = w * Byte + Full
      BY <1>1, <1>2
    <3> DEFINE x == w * Byte
               y == v * Byte
    <3>4. x \in Nat /\ y \in Nat /\ y <= x /\ x + Full = y + f.low
      BY <1>1, <1>2, <2>7, <2>8, <3>2, <3>3
    <3> HIDE DEF x, y
    <3>5. QED
      BY <1>1, <1>5, <3>4
  <2>11. w <= v /\ v < w + h.range
    BY <1>1, <1>2, <1>7, <2>7, <2>9, <2>10
  <2>12. m + 2 <= Len(z)
    BY <1>2, <2>5 DEF z
  <2>13. Good(h, z)
    BY <2>11, <2>12 DEF Good, v
  <2>14. QED
    BY <1>3, <1>5, <2>13 DEF z
<1>8. CASE ~(c.range > 2 * Top)
  <2> DEFINE t == Top \div 2
             p == Prob \div 2
             s == [rc_addlow(c, t) EXCEPT !.range = p]
             v == Value(z)[m + 5]
  <2>1. /\ t \in Nat /\ p \in 1 .. Full - 1 /\ t + p <= c.range /\ p < Top /\ 2 * p <= Prob
        /\ Prob <= t /\ t < Top
    BY <1>1, <1>2
  <2>2. f = Round(Round(s))
    <3>1. s \in EncSet /\ Room(s) /\ s.range = p
      <4> HIDE DEF t, p
      <4>1. QED
        BY <2>1, AddKept
    <3> DEFINE round(x) == [rc_shift(x) EXCEPT !.range = @ * Byte]
    <3>2. f = round(round(s))
      BY <1>8 DEF FinishLow
    <3>3. \A x \in EncSet : round(x) = Round(x)
      BY ShiftRange DEF Round
    <3>4. Round(s) \in EncSet
      <4> HIDE DEF s, p
      <4>1. QED
        BY <2>1, <3>1, RoundSpells
    <3> HIDE DEF round, s, f
    <3>5. QED
      BY <3>1, <3>2, <3>3, <3>4
  <2> HIDE DEF t, p, f
  <2>3. s \in EncSet /\ Room(s) /\ s.range = p
    BY <2>1, AddKept
  <2>4. Spelled(s) = w + t /\ Len(Held(s)) = m + 1
    BY <1>2, <2>1, AddSpells
  <2> HIDE DEF s
  <2>5. p * Byte < Top
    <3>1. p \in Nat /\ 2 * p \in Nat /\ 1 <= p
      BY <1>1, <2>1
    <3>2. (2 * p) * Byte <= Prob * Byte
      BY <1>1, <2>1, <3>1, Scaled
    <3> DEFINE x == p * Byte
    <3>3. (2 * p) * Byte = x + x /\ x \in Nat
      BY <1>1, <3>1
    <3>4. 1 * Byte <= x
      BY <1>1, <3>1, Scaled
    <3>5. x + x <= Top
      BY <1>1, <3>2, <3>3
    <3> HIDE DEF x
    <3>6. x < Top
      BY <1>1, <3>3, <3>4, <3>5
    <3>7. QED
      BY <3>6 DEF x
  <2> DEFINE q == Round(s)
  <2>6. /\ q \in EncSet /\ Room(q) /\ q.range = p * Byte
        /\ Spelled(q) = (w + t) * Byte /\ Len(Held(q)) = m + 1 + 1
    BY <2>1, <2>3, <2>4, RoundSpells
  <2>7. f = Round(q)
    BY <2>2
  <2> HIDE DEF q
  <2>8. Spelled(f) = (w + t) * Byte * Byte /\ Len(z) = m + 3 /\ f.carry = 0
    <3>1. Spelled(f) = Spelled(q) * Byte /\ Len(z) = Len(Held(q)) + 1 /\ f.carry = 0
      BY <2>5, <2>6, <2>7, RoundSpells
    <3>2. QED
      BY <1>2, <2>6, <3>1
  <2>9. v = Number(z) * Prob
    <3>1. m + 3 \in Nat /\ m + 4 \in Nat /\ m + 3 + 1 = m + 4 /\ m + 4 + 1 = m + 5
      BY <1>2
    <3>2. m + 3 >= Len(z) /\ m + 4 >= Len(z)
      BY <1>2, <2>8
    <3> HIDE DEF z
    <3>3. /\ Value(z)[m + 3 + 1] = Value(z)[m + 3] * Byte
          /\ Value(z)[m + 4 + 1] = Value(z)[m + 4] * Byte
      BY <1>5, <3>1, <3>2, ValueBehind
    <3>4. v = Value(z)[m + 3] * Byte * Byte
      BY <3>1, <3>3
    <3>5. Value(z)[m + 3] = Number(z)
      BY <2>8 DEF Number
    <3>6. \A n \in Nat : n * Byte * Byte = n * Prob
      BY <1>1
    <3>7. QED
      BY <1>5, <3>4, <3>5, <3>6
  <2>10. v \in Nat
    BY <1>1, <1>5, <2>9
  <2>11. (w + t) * Prob = v * Prob + f.low
    <3>1. Full = Prob * Prob
      <4>1. (Prob * Byte) * Byte = Prob * (Byte * Byte)
        BY <1>1
      <4>2. QED
        BY <1>1, <4>1
    <3>2. \A n \in Nat : (n * Prob) * Prob = n * Full
      <4>1. \A n \in Nat : (n * Prob) * Prob = n * (Prob * Prob)
        BY <1>1
      <4>2. QED
        BY <3>1, <4>1
    <3>3. v * Prob = Number(z) * Full
      BY <1>5, <2>9, <3>2
    <3>4. w + t \in Nat
      BY <1>2, <2>1
    <3>5. \A n \in Nat : n * Byte * Byte = n * Prob
      BY <1>1
    <3>6. QED
      BY <1>6, <2>8, <3>3, <3>4, <3>5
  <2> DEFINE u == w + t
  <2>12. u \in Nat
    BY <1>2, <2>1
  <2>13. u * Prob = v * Prob + f.low /\ f.low \in 0 .. Full - 1 /\ Full = Prob * Prob
    <3>1. (Prob * Byte) * Byte = Prob * (Byte * Byte)
      BY <1>1
    <3>2. QED
      BY <1>1, <1>5, <2>11, <3>1
  <2> HIDE DEF v, z, u
  <2>14. v <= u
    <3>1. SUFFICES ASSUME u + 1 <= v PROVE FALSE
      BY <2>10, <2>12
    <3> DEFINE x == u * Prob
               y == v * Prob
    <3>2. (u + 1) * Prob <= y
      <4>1. u + 1 \in Nat
        BY <2>12
      <4>2. QED
        BY <1>1, <2>10, <3>1, <4>1, Scaled
    <3>3. (u + 1) * Prob = x + Prob /\ x \in Nat /\ y \in Nat
      BY <1>1, <2>10, <2>12
    <3>4. x = y + f.low
      BY <2>13
    <3> HIDE DEF x, y
    <3>5. QED
      BY <1>1, <2>13, <3>2, <3>3, <3>4
  <2>15. u < v + Prob
    <3>1. SUFFICES ASSUME v + Prob <= u PROVE FALSE
      BY <1>1, <2>10, <2>12
    <3> DEFINE x == u * Prob
               y == v * Prob
    <3>2. (v + Prob) * Prob <= x
      <4>1. v + Prob \in Nat
        BY <1>1, <2>10
      <4>2. QED
        BY <1>1, <2>12, <3>1, <4>1, Scaled
    <3>3. (v + Prob) * Prob = y + Full /\ x \in Nat /\ y \in Nat
      BY <1>1, <2>10, <2>12, <2>13
    <3>4. x = y + f.low
      BY <2>13
    <3> HIDE DEF x, y
    <3>5. QED
      BY <1>1, <2>13, <3>2, <3>3, <3>4
  <2>16. w <= v /\ v < w + h.range
    <3>1. Top <= h.range
      BY <1>1, <1>2
    <3>2. QED
      BY <1>1, <1>2, <2>1, <2>10, <2>14, <2>15, <3>1 DEF u
  <2>17. m + 2 <= Len(z)
    BY <1>2, <2>8 DEF z
  <2>18. Good(h, z)
    BY <2>16, <2>17 DEF Good, v
  <2>19. QED
    BY <1>3, <1>5, <2>18 DEF z
<1>9. QED
  BY <1>7, <1>8

-----------------------------------------------------------------------------
(* The decoder follows it on the finished bytes: its code is how far the   *)
(* number they spell is above the lower bound.                             *)

Ahead(s) == IF Len(s) < 4 THEN Len(s) ELSE 4

Follows(c, h, z) ==
  /\ c.stream = Tail(z) /\ c.range = h.range /\ c.slots = h.slots
  /\ c.code = Value(z)[h.shifts + 5] - h.low
  /\ c.pos = Ahead(Tail(z)) + h.shifts

(* The first byte is not in the stream.                                    *)
LEMMA TailDigit ==
  ASSUME NEW z \in Seq(0 .. Byte - 1), z # <<>>, NEW i \in Nat
  PROVE  rc_get(Tail(z), i) = rc_get(z, i + 1)
<1>1. /\ Tail(z) \in Seq(0 .. Byte - 1) /\ Len(Tail(z)) = Len(z) - 1
      /\ \A j \in 1 .. Len(Tail(z)) : Tail(z)[j] = z[j + 1]
  BY HeadTailProperties
<1>2. Len(z) \in Nat
  OBVIOUS
<1>3. CASE i < Len(Tail(z))
  <2>1. i + 1 < Len(z) /\ i + 1 \in 1 .. Len(Tail(z))
    BY <1>1, <1>2, <1>3
  <2>2. QED
    BY <1>1, <1>3, <2>1 DEF rc_get
<1>4. CASE ~(i < Len(Tail(z)))
  <2>1. ~(i + 1 < Len(z))
    BY <1>1, <1>2, <1>4
  <2>2. QED
    BY <1>4, <2>1 DEF rc_get
<1>5. QED
  BY <1>3, <1>4

LEMMA NextDigit ==
  ASSUME NEW z \in Seq(0 .. Byte - 1), z # <<>>, NEW m \in Nat
  PROVE  rc_get(Tail(z), Ahead(Tail(z)) + m) = rc_get(z, m + 5)
<1> DEFINE s == Tail(z)
<1>1. s \in Seq(0 .. Byte - 1) /\ Len(s) \in Nat
  BY HeadTailProperties
<1>2. CASE Len(s) < 4
  <2>1. Ahead(s) = Len(s) /\ ~(Len(s) + m < Len(s)) /\ ~(m + 4 < Len(s))
    BY <1>1, <1>2 DEF Ahead
  <2>2. rc_get(s, Ahead(s) + m) = rc_get(s, m + 4)
    BY <2>1 DEF rc_get
  <2>3. m + 4 \in Nat /\ m + 4 + 1 = m + 5
    OBVIOUS
  <2>4. QED
    BY <2>2, <2>3, TailDigit
<1>3. CASE ~(Len(s) < 4)
  <2>1. Ahead(s) + m = m + 4 /\ m + 4 \in Nat /\ m + 4 + 1 = m + 5
    BY <1>1, <1>3 DEF Ahead
  <2>2. QED
    BY <2>1, TailDigit
<1>4. QED
  BY <1>2, <1>3

LEMMA WiderFollows ==
  ASSUME NEW z \in Seq(0 .. Byte - 1), z # <<>>, NEW c \in DecSet, NEW h \in Intervals,
         Good(h, z), Follows(c, h, z)
  PROVE  Follows(rc_dec_widened(c), Wider(h), z) /\ rc_dec_widened(c) \in DecSet
<1> DEFINE n == h.shifts + 5
           v == Value(z)[n]
           b == rc_get(z, n)
<1>1. /\ h.low \in Nat /\ h.range \in 1 .. Full - 1 /\ h.shifts \in Nat
      /\ c.code \in 0 .. Full - 1 /\ c.pos \in Nat /\ c.range = h.range
  BY IntervalFields, DecFields DEF Follows
<1>2. rc_dec_widened(c) \in DecSet
  <2>1. 0 \in Nat /\ 0 <= c.range /\ 0 * Byte <= Top
    BY <1>1, Powers
  <2>2. QED
    BY <2>1, DecWidened
<1>3. CASE ~(c.range < Top)
  <2>1. rc_dec_widened(c) = c
    BY <1>3 DEF rc_dec_widened
  <2>2. Wider(h) = h
    BY <1>1, <1>3, WiderFields
  <2>3. QED
    BY <1>2, <2>1, <2>2
<1>4. CASE c.range < Top
  <2> DEFINE code == c.code * Byte + b
             range == c.range * Byte
             pos == c.pos + 1
  <2>1. /\ Wider(h).low = h.low * Byte /\ Wider(h).range = h.range * Byte
        /\ Wider(h).shifts = h.shifts + 1 /\ Wider(h).slots = h.slots
    BY <1>1, <1>4, WiderFields
  <2>2. n \in Nat /\ h.shifts + 1 + 5 = n + 1
    BY <1>1
  <2>3. v \in Nat /\ Value(z)[n + 1] = v * Byte + b
    BY <2>2, ValueStep
  <2>4. b \in 0 .. Byte - 1 /\ Byte \in Nat /\ Top \in Nat /\ Full = Top * Byte /\ Full \in Nat
    BY <2>2, GetByte, Powers
  <2>5. rc_get(c.stream, c.pos) = b
    BY <1>1, NextDigit DEF Follows
  <2>6. c.code = v - h.low /\ h.low <= v /\ c.code < c.range
    BY <1>1, <2>3 DEF Follows, Good
  <2> HIDE DEF v, b
  <2>7. code \in 0 .. Full - 1
    <3>1. c.code \in 0 .. Top - 1
      BY <1>1, <1>4, <2>4, <2>6
    <3>2. c.code * Byte + b \in 0 .. Top * Byte - 1
      BY <2>4, <3>1, Digit
    <3>3. QED
      BY <2>4, <3>2
  <2>8. code % Full = code
    <3> HIDE DEF code
    <3>1. QED
      BY <2>4, <2>7
  <2>9. code = Value(z)[n + 1] - h.low * Byte
    <3> DEFINE x == v * Byte
               y == h.low * Byte
               g == Value(z)[n + 1]
    <3>1. (v - h.low) * Byte = x - y /\ x \in Nat /\ y \in Nat
      BY <1>1, <2>3, <2>4
    <3>2. code = x - y + b
      BY <2>6, <3>1
    <3>3. g = x + b
      BY <2>3
    <3> HIDE DEF x, y, g, code
    <3>4. code = g - y
      BY <2>4, <3>1, <3>2, <3>3
    <3>5. QED
      BY <3>4 DEF y, g
  <2>10. rc_dec_widened(c) = [c EXCEPT !.code = code, !.pos = pos, !.range = range]
    <3>1. rc_dec_widened(c) =
            [c EXCEPT !.code = (c.code * Byte + rc_get(c.stream, c.pos)) % Full,
                      !.pos = c.pos + 1, !.range = c.range * Byte]
      BY <1>4, Zenon DEF rc_dec_widened
    <3>2. (c.code * Byte + rc_get(c.stream, c.pos)) % Full = code
      BY <2>5, <2>8
    <3>3. QED
      BY <3>1, <3>2
  <2> DEFINE w == rc_dec_widened(c)
  <2> HIDE DEF code, w
  <2>11. /\ w.stream = c.stream /\ w.slots = c.slots /\ w.code = code /\ w.pos = c.pos + 1
         /\ w.range = c.range * Byte
    <3> HIDE DEF pos, range
    <3>1. /\ w.stream = c.stream /\ w.slots = c.slots /\ w.code = code /\ w.pos = pos
          /\ w.range = range
      BY <2>10 DEF DecSet, w
    <3>2. QED
      BY <3>1 DEF pos, range
  <2>12. w.code = Value(z)[Wider(h).shifts + 5] - Wider(h).low
    BY <2>1, <2>2, <2>9, <2>11
  <2>13. w.pos = Ahead(Tail(z)) + Wider(h).shifts
    <3>1. Ahead(Tail(z)) \in Nat
      <4>1. Len(Tail(z)) \in Nat
        BY HeadTailProperties
      <4>2. QED
        BY <4>1 DEF Ahead
    <3>2. c.pos = Ahead(Tail(z)) + h.shifts
      BY DEF Follows
    <3>3. QED
      BY <1>1, <2>1, <2>11, <3>1, <3>2
  <2>14. Follows(w, Wider(h), z)
    BY <1>1, <2>1, <2>11, <2>12, <2>13 DEF Follows
  <2>15. QED
    BY <1>2, <2>14 DEF w
<1>5. QED
  BY <1>3, <1>4

LEMMA NormFollows ==
  ASSUME NEW z \in Seq(0 .. Byte - 1), z # <<>>, NEW c \in DecSet, NEW h \in Intervals,
         Good(Wide(h), z), Follows(c, h, z)
  PROVE  Follows(rc_dec_norm(c), Wide(h), z)
<1> DEFINE x == rc_dec_widened(c)
           y == rc_dec_widened(x)
           u == Wider(h)
           v == Wider(u)
<1>1. Good(h, z) /\ Good(u, z) /\ Good(v, z) /\ u \in Intervals /\ v \in Intervals
  BY WideBack, WideFields
<1>2. x \in DecSet /\ Follows(x, u, z)
  BY <1>1, WiderFollows
<1> HIDE DEF x, u
<1>3. y \in DecSet /\ Follows(y, v, z)
  BY <1>1, <1>2, WiderFollows DEF v
<1> HIDE DEF y, v
<1>4. Follows(rc_dec_widened(y), Wider(v), z)
  BY <1>1, <1>3, WiderFollows
<1>5. QED
  BY <1>4 DEF rc_dec_norm, Wide, x, y, u, v

(* It begins so: its first four digits are those behind a zero.            *)
LEMMA StartFollows ==
  ASSUME NEW z \in Seq(0 .. Byte - 1), z # <<>>, Good(Whole, z)
  PROVE  Follows(rc_dec_init(Tail(z)), Whole, z)
<1> DEFINE s == Tail(z)
           a(i) == rc_get(z, i)
           x1 == a(0)
           x2 == x1 * Byte + a(1)
           x3 == x2 * Byte + a(2)
           x4 == x3 * Byte + a(3)
           x5 == x4 * Byte + a(4)
           code == ((a(1) * Byte + a(2)) * Byte + a(3)) * Byte + a(4)
<1>1. /\ Byte \in Nat /\ Byte >= 2 /\ Prob = Byte * Byte /\ Top = Prob * Byte /\ Full = Top * Byte
      /\ Full \in Nat
  BY Powers DEF Prob
<1>2. \A i \in Nat : a(i) \in 0 .. Byte - 1
  BY GetByte
<1>3. Value(z)[5] = x5
  <2>1. /\ 0 \in Nat /\ 1 \in Nat /\ 2 \in Nat /\ 3 \in Nat /\ 4 \in Nat
        /\ 0 + 1 = 1 /\ 1 + 1 = 2 /\ 2 + 1 = 3 /\ 3 + 1 = 4 /\ 4 + 1 = 5
    OBVIOUS
  <2> DEFINE v == Value(z)
  <2>2. /\ v[0] = 0 /\ v[1] = v[0] * Byte + a(0) /\ v[2] = v[1] * Byte + a(1)
        /\ v[3] = v[2] * Byte + a(2) /\ v[4] = v[3] * Byte + a(3) /\ v[5] = v[4] * Byte + a(4)
    BY <2>1, ValueStep
  <2>3. 0 * Byte + a(0) = a(0)
    BY <1>1, <1>2
  <2> HIDE DEF v, a
  <2>4. v[5] = x5
    BY <2>2, <2>3
  <2>5. QED
    BY <2>4 DEF v
<1>4. /\ Whole.low = 0 /\ Whole.range = Full - 1 /\ Whole.shifts = 0 /\ Whole.slots = Slots
      /\ 0 + 5 = 5
  BY DEF Whole
<1>5. 0 <= x5 /\ x5 < 0 + (Full - 1)
  BY <1>3, <1>4 DEF Good
<1>6. /\ a(0) \in 0 .. Byte - 1 /\ a(1) \in 0 .. Byte - 1 /\ a(2) \in 0 .. Byte - 1
      /\ a(3) \in 0 .. Byte - 1 /\ a(4) \in 0 .. Byte - 1
  BY <1>2
<1>7. rc_dec_init(s) =
        [stream |-> s, range |-> Full - 1, slots |-> Slots, pos |-> Ahead(s), code |-> code]
  <2>1. /\ rc_get(s, 0) = a(1) /\ rc_get(s, 1) = a(2) /\ rc_get(s, 2) = a(3)
        /\ rc_get(s, 3) = a(4)
    <3>1. /\ 0 \in Nat /\ 1 \in Nat /\ 2 \in Nat /\ 3 \in Nat
          /\ 0 + 1 = 1 /\ 1 + 1 = 2 /\ 2 + 1 = 3 /\ 3 + 1 = 4
      OBVIOUS
    <3>2. QED
      BY <3>1, TailDigit
  <2> HIDE DEF a, s
  <2>2. QED
    BY <2>1 DEF rc_dec_init, Ahead
<1> HIDE DEF a
<1>8. a(0) = 0
  <2>1. SUFFICES ASSUME a(0) >= 1 PROVE FALSE
    BY <1>1, <1>6
  <2>2. ASSUME NEW p \in Nat, NEW q \in Nat, NEW i \in 0 .. Byte - 1, p <= q
        PROVE  p * Byte <= q * Byte + i /\ p * Byte \in Nat /\ q * Byte + i \in Nat
    <3>1. p * Byte <= q * Byte
      BY <1>1, <2>2, Scaled
    <3> DEFINE x == p * Byte
               y == q * Byte
    <3>2. x <= y /\ x \in Nat /\ y \in Nat
      BY <1>1, <3>1
    <3> HIDE DEF x, y
    <3>3. x <= y + i /\ y + i \in Nat
      BY <1>1, <3>2
    <3>4. QED
      BY <3>2, <3>3 DEF x, y
  <2>3. 1 \in Nat /\ x1 \in Nat /\ 1 <= x1 /\ 1 * Byte = Byte
    BY <1>1, <1>6, <2>1
  <2> HIDE DEF x1
  <2>4. Byte <= x2 /\ x2 \in Nat /\ Byte \in Nat
    BY <1>1, <1>6, <2>2, <2>3
  <2> HIDE DEF x2
  <2>5. Prob <= x3 /\ x3 \in Nat /\ Prob \in Nat
    BY <1>1, <1>6, <2>2, <2>4
  <2> HIDE DEF x3
  <2>6. Top <= x4 /\ x4 \in Nat /\ Top \in Nat
    BY <1>1, <1>6, <2>2, <2>5
  <2> HIDE DEF x4
  <2>7. Full <= x5 /\ x5 \in Nat
    BY <1>1, <1>6, <2>2, <2>6
  <2> HIDE DEF x5
  <2>8. QED
    BY <1>1, <1>5, <2>7
<1>9. x5 = code
  <2>1. 0 * Byte + a(1) = a(1)
    BY <1>1, <1>6
  <2>2. QED
    BY <1>8, <2>1
<1>10. code \in Int
  <2>1. \A p, q \in Int : p * Byte + q \in Int
    BY <1>1
  <2>2. a(1) \in Int /\ a(2) \in Int /\ a(3) \in Int /\ a(4) \in Int
    BY <1>6
  <2>3. a(1) * Byte + a(2) \in Int
    BY <2>1, <2>2
  <2>4. (a(1) * Byte + a(2)) * Byte + a(3) \in Int
    BY <2>1, <2>2, <2>3
  <2>5. QED
    BY <2>1, <2>2, <2>4
<1>11. Ahead(s) = Ahead(s) + 0
  <2>1. Len(s) \in Nat
    BY HeadTailProperties
  <2>2. QED
    BY <2>1 DEF Ahead
<1> HIDE DEF code, x5
<1>12. code = Value(z)[0 + 5] - 0
  BY <1>3, <1>4, <1>9, <1>10
<1>13. QED
  BY <1>4, <1>7, <1>11, <1>12 DEF Follows

(* It finds the bit that was sent, and follows on.                         *)
LEMMA TakenFollows ==
  ASSUME NEW z \in Seq(0 .. Byte - 1), NEW c \in DecSet, NEW h \in Intervals, h.range >= Top,
         Follows(c, h, z), NEW k \in Kinds, NEW bit \in {0, 1}, Good(Narrow(h, k, bit), z)
  PROVE  LET prob == Chance(k, c.slots)
             t == [Taken(c, prob, bit) EXCEPT !.slots = Adapted(k, c.slots, bit)]
         IN  BitOf(c, prob) = bit /\ Follows(t, Narrow(h, k, bit), z)
<1> DEFINE split == Split(h.range, Chance(k, h.slots))
           n == Narrow(h, k, bit)
           prob == Chance(k, c.slots)
           slots == Adapted(k, c.slots, bit)
           t == [Taken(c, prob, bit) EXCEPT !.slots = slots]
           v == Value(z)[h.shifts + 5]
<1>1. /\ split \in 1 .. h.range - 1
      /\ bit = 1 => n.low = h.low + split /\ n.range = h.range - split
      /\ bit = 0 => n.low = h.low /\ n.range = split
      /\ n.shifts = h.shifts /\ n.slots = Adapted(k, h.slots, bit)
  BY NarrowFields
<1>2. /\ c.stream = Tail(z) /\ c.range = h.range /\ c.slots = h.slots
      /\ c.code = v - h.low /\ c.pos = Ahead(Tail(z)) + h.shifts
  BY DEF Follows
<1>3. Split(c.range, prob) = split
  BY <1>2
<1>4. v - h.low < split <=> bit = 0
  BY NarrowBack
<1>5. BitOf(c, prob) = bit
  BY <1>2, <1>3, <1>4 DEF BitOf
<1>6. h.low \in Nat /\ h.range \in Nat /\ v \in Nat
  <2>1. h.low \in Nat /\ h.range \in Nat /\ h.shifts \in Nat
    BY IntervalFields, Powers
  <2>2. h.shifts + 5 \in Nat
    BY <2>1
  <2>3. QED
    BY <2>1, <2>2, ValueStep
<1>7. slots = n.slots
  BY <1>1, <1>2
<1> HIDE DEF n, v, slots
<1>8. CASE bit = 1
  <2> DEFINE code == c.code - split
             range == c.range - split
  <2>1. Taken(c, prob, bit) = [c EXCEPT !.code = code, !.range = range]
    BY <1>3, <1>8, Zenon DEF Taken
  <2>2. code = v - n.low /\ range = n.range
    BY <1>1, <1>2, <1>6, <1>8
  <2> HIDE DEF code, range, prob, split
  <2>3. t.stream = c.stream /\ t.range = range /\ t.slots = slots /\ t.code = code /\ t.pos = c.pos
    BY <2>1 DEF DecSet
  <2> HIDE DEF t
  <2>4. Follows(t, n, z)
    BY <1>1, <1>2, <1>7, <2>2, <2>3 DEF Follows, v
  <2>5. QED
    BY <1>5, <2>4 DEF t, n, prob, slots
<1>9. CASE bit = 0
  <2>1. Taken(c, prob, bit) = [c EXCEPT !.range = split]
    <3>1. bit # 1
      BY <1>9
    <3>2. QED
      BY <1>3, <3>1, Zenon DEF Taken
  <2> HIDE DEF prob, split
  <2>2. t.stream = c.stream /\ t.range = split /\ t.slots = slots /\ t.code = c.code /\ t.pos = c.pos
    BY <2>1 DEF DecSet
  <2> HIDE DEF t
  <2>3. Follows(t, n, z)
    BY <1>1, <1>2, <1>7, <1>9, <2>2 DEF Follows, v
  <2>4. QED
    BY <1>5, <2>3 DEF t, n, prob, slots
<1>10. QED
  BY <1>8, <1>9

-----------------------------------------------------------------------------
(* The whole run.  H is the interval after each bit of s.                  *)

History(H, s) ==
  /\ H \in [0 .. Len(s) -> Intervals] /\ H[0] = Whole
  /\ \A i \in 1 .. Len(s) : H[i] = Narrow(Wide(H[i - 1]), s[i].k, s[i].bit)

(* While encoding the encoder is where the bits so far lead; when decoding *)
(* every interval of the way holds the number of the finished bytes, and   *)
(* the decoder is at that of the bits it has found, the ones sent.         *)
Followed ==
  /\ phase = "encode" =>
       got = <<>> /\ \E H : /\ History(H, sent) /\ Spells(e, Wide(H[Len(sent)]))
                            /\ e.slots = H[Len(sent)].slots
  /\ phase = "decode" /\ sent # <<>> =>
       /\ e.out \in Seq(0 .. Byte - 1) /\ e.out # <<>>
       /\ \E H : /\ History(H, sent) /\ \A i \in 0 .. Len(sent) : Good(H[i], e.out)
                 /\ Len(got) <= Len(sent) /\ Follows(d, H[Len(got)], e.out)
       /\ \A i \in 1 .. Len(got) : got[i] = sent[i].bit

RInv == IInv /\ Followed

(* The finished number lies in the interval of every bit, as it lies in    *)
(* that of the last.                                                       *)
LEMMA AllGood ==
  ASSUME NEW s \in Seq(SentSet), NEW H, History(H, s), NEW z \in Seq(0 .. Byte - 1),
         Good(Wide(H[Len(s)]), z)
  PROVE  \A i \in 0 .. Len(s) : Good(H[i], z)
<1> DEFINE n == Len(s)
           D == {j \in Nat : j <= n => Good(H[n - j], z)}
<1>1. n \in Nat
  OBVIOUS
<1>2. \A i \in 0 .. n : H[i] \in Intervals
  BY DEF History
<1>3. 0 \in D
  <2>1. n - 0 = n /\ n \in 0 .. n
    BY <1>1
  <2>2. Good(H[n], z)
    <3>1. H[n] \in Intervals
      BY <1>2, <2>1
    <3>2. QED
      BY <3>1, WideBack
  <2>3. QED
    BY <2>1, <2>2
<1>4. ASSUME NEW j \in Nat, j \in D PROVE j + 1 \in D
  <2>1. SUFFICES ASSUME j + 1 <= n PROVE Good(H[n - (j + 1)], z)
    OBVIOUS
  <2> DEFINE i == n - (j + 1)
             h == H[i]
             k == s[i + 1].k
             bit == s[i + 1].bit
  <2>2. i \in 0 .. n /\ i + 1 \in 1 .. n /\ n - j = i + 1 /\ i + 1 - 1 = i /\ j <= n
    BY <1>1, <2>1
  <2>3. s[i + 1] \in SentSet
    BY <2>2, ElementOfSeq
  <2>4. k \in Kinds /\ bit \in {0, 1} /\ h \in Intervals
    BY <1>2, <2>2, <2>3 DEF SentSet
  <2>5. Good(Narrow(Wide(h), k, bit), z)
    <3>1. Good(H[i + 1], z)
      BY <1>4, <2>2
    <3>2. H[i + 1] = Narrow(Wide(H[i + 1 - 1]), k, bit)
      BY <2>2 DEF History
    <3>3. QED
      BY <2>2, <3>1, <3>2
  <2> HIDE DEF h, k, bit
  <2>6. Good(Wide(h), z)
    BY <2>4, <2>5, WideFields, NarrowBack
  <2>7. Good(h, z)
    BY <2>4, <2>6, WideBack
  <2>8. QED
    BY <2>7 DEF h
<1> HIDE DEF D
<1>5. \A j \in Nat : j \in D
  BY <1>3, <1>4, Inducts
<1>6. ASSUME NEW i \in 0 .. n PROVE Good(H[i], z)
  <2>1. n - i \in Nat /\ n - i <= n /\ n - (n - i) = i
    BY <1>1
  <2>2. n - i \in D
    BY <1>5, <2>1
  <2>3. QED
    BY <2>1, <2>2 DEF D
<1>7. QED
  BY <1>6

LEMMA InitFollowed == Init => Followed
<1>1. SUFFICES ASSUME Init PROVE Followed
  OBVIOUS
<1>2. e = Encoder /\ sent = <<>> /\ got = <<>> /\ Len(sent) = 0
  BY <1>1 DEF Init
<1> DEFINE H == [i \in 0 .. 0 |-> Whole]
<1>3. History(H, <<>>) /\ H[0] = Whole
  BY WholeInterval DEF History
<1>4. Wide(Whole) = Whole
  <2>1. ~(Whole.range < Top)
    <3>1. Full \in Nat /\ Top \in Nat /\ Top > 0 /\ Full >= 2 * Top
      BY Powers
    <3>2. Whole.range = Full - 1
      BY DEF Whole
    <3>3. QED
      BY <3>1, <3>2
  <2>2. Wider(Whole) = Whole
    BY <2>1 DEF Wider
  <2>3. QED
    BY <2>2 DEF Wide
<1>5. Spells(Encoder, Whole) /\ Encoder.slots = Whole.slots
  <2>1. /\ Encoder.low = 0 /\ Encoder.range = Full - 1 /\ Encoder.carry = 0 /\ Encoder.cache = 0
        /\ Encoder.pending = 1 /\ Encoder.out = <<>> /\ Encoder.slots = Slots
    BY DEF Encoder
  <2>2. Whole.low = 0 /\ Whole.range = Full - 1 /\ Whole.shifts = 0 /\ Whole.slots = Slots
    BY DEF Whole
  <2>3. /\ Byte \in Nat /\ Byte >= 2 /\ Full \in Nat /\ 0 \in 0 .. Byte - 1
        /\ Byte - 1 \in 0 .. Byte - 1 /\ <<>> \in Seq(0 .. Byte - 1)
    BY Powers
  <2>4. Held(Encoder) = Append(<<>>, 0)
    <3>1. \A x \in 0 .. Byte - 1 : Behind(<<>>, 0, x, 0) = Append(<<>>, 0)
      <4>1. \A s \in Seq(0 .. Byte - 1), b, x \in 0 .. Byte - 1, n \in Nat :
              Behind(s, b, x, 0) = Append(s, b)
        BY BehindGrows
      <4>2. QED
        BY <2>3, <4>1
    <3>2. Held(Encoder) = Behind(<<>>, 0, Byte - 1, 0)
      <4>1. 1 - 1 = 0
        OBVIOUS
      <4>2. QED
        BY <2>1, <4>1 DEF Held
    <3>3. QED
      BY <2>3, <3>1, <3>2
  <2>5. Number(Held(Encoder)) = 0
    <3>1. Number(<<>>) = 0
      <4>1. Len(<<>>) = 0
        OBVIOUS
      <4>2. QED
        BY <2>3, <4>1, ValueStep DEF Number
    <3>2. Number(Append(<<>>, 0)) = Number(<<>>) * Byte + 0
      BY <2>3, NumberAppend
    <3>3. QED
      BY <2>3, <2>4, <3>1, <3>2
  <2>6. Spelled(Encoder) = 0
    BY <2>1, <2>3, <2>5 DEF Spelled
  <2>7. Len(Held(Encoder)) = 0 + 1
    BY <2>4
  <2>8. QED
    BY <2>1, <2>2, <2>6, <2>7 DEF Spells
<1>6. phase = "encode" => got = <<>> /\ \E G : /\ History(G, sent)
                                               /\ Spells(e, Wide(G[Len(sent)]))
                                               /\ e.slots = G[Len(sent)].slots
  BY <1>2, <1>3, <1>4, <1>5
<1>7. QED
  BY <1>2, <1>6 DEF Followed

(* A history of one more bit.                                              *)
LEMMA HistoryGrows ==
  ASSUME NEW s \in Seq(SentSet), NEW H, History(H, s), NEW k \in Kinds, NEW bit \in {0, 1}
  PROVE  LET t == Append(s, [k |-> k, bit |-> bit])
             next == Narrow(Wide(H[Len(s)]), k, bit)
         IN  \E G : History(G, t) /\ G[Len(t)] = next
<1> DEFINE n == Len(s)
           x == [k |-> k, bit |-> bit]
           t == Append(s, x)
           next == Narrow(Wide(H[n]), k, bit)
           G == [i \in 0 .. n + 1 |-> IF i <= n THEN H[i] ELSE next]
<1>1. n \in Nat /\ Len(t) = n + 1 /\ t[n + 1] = x /\ \A i \in 1 .. n : t[i] = s[i]
  BY AppendProperties DEF SentSet
<1>2. \A i \in 0 .. n : H[i] \in Intervals
  BY DEF History
<1>3. next \in Intervals
  <2>1. n \in 0 .. n
    BY <1>1
  <2>2. H[n] \in Intervals
    BY <1>2, <2>1
  <2>3. QED
    BY <2>2, WideFields, NarrowFields
<1>4. x.k = k /\ x.bit = bit
  OBVIOUS
<1> HIDE DEF t, next, x
<1>5. G \in [0 .. n + 1 -> Intervals] /\ G[0] = Whole /\ G[n + 1] = next
  BY <1>1, <1>2, <1>3 DEF History
<1>6. ASSUME NEW i \in 1 .. n + 1
      PROVE  G[i] = Narrow(Wide(G[i - 1]), t[i].k, t[i].bit)
  <2>1. i - 1 \in 0 .. n /\ G[i - 1] = H[i - 1]
    BY <1>1
  <2>2. CASE i \in 1 .. n
    <3>1. G[i] = H[i]
      BY <1>1, <2>2
    <3>2. QED
      BY <1>1, <2>1, <2>2, <3>1 DEF History
  <2>3. CASE i = n + 1
    <3>1. G[i - 1] = H[n]
      BY <1>1, <2>1, <2>3
    <3>2. QED
      BY <1>1, <1>4, <1>5, <2>3, <3>1 DEF next
  <2>4. QED
    BY <1>1, <2>2, <2>3
<1> HIDE DEF G
<1>7. History(G, t)
  BY <1>1, <1>5, <1>6 DEF History
<1>8. QED
  BY <1>1, <1>5, <1>7 DEF t, next, x

LEMMA EncBitFollowed ==
  ASSUME RInv, rc_enc_bit
  PROVE  Followed'
<1>1. phase = "encode" /\ Ready /\ sent \in Seq(SentSet)
  BY DEF RInv, IInv, rc_enc_bit
<1>2. PICK k \in Kinds, bit \in {0, 1} :
        /\ e' = [Coded(e, Chance(k, e.slots), bit) EXCEPT !.slots = Adapted(k, e.slots, bit)]
        /\ sent' = Append(sent, [k |-> k, bit |-> bit])
  BY DEF rc_enc_bit
<1>3. PICK H : /\ History(H, sent) /\ Spells(e, Wide(H[Len(sent)]))
               /\ e.slots = H[Len(sent)].slots
  BY <1>1 DEF RInv, Followed
<1>4. got' = <<>> /\ phase' = "encode"
  <2>1. got = <<>> /\ got' = got
    BY <1>1 DEF RInv, Followed, rc_enc_bit
  <2>2. IInv'
    BY EncBit DEF RInv
  <2>3. QED
    BY <2>1, <2>2 DEF rc_enc_bit, IInv
<1> DEFINE h == Wide(H[Len(sent)])
           next == Narrow(h, k, bit)
           c == Coded(e, Chance(k, e.slots), bit)
<1>5. h \in Intervals /\ h.slots = e.slots /\ e \in EncSet /\ Room(e) /\ e.range >= Top
  <2>1. Len(sent) \in 0 .. Len(sent)
    BY <1>1
  <2>2. H[Len(sent)] \in Intervals
    BY <1>3, <2>1 DEF History
  <2>3. QED
    BY <1>1, <1>3, <2>2, WideFields DEF Ready
<1>6. h.range >= Top
  BY <1>3, <1>5 DEF Spells
<1>7. Spells(e, h)
  BY <1>3
<1> HIDE DEF h
<1>8. Spells(c, Wide(next))
  BY <1>5, <1>7, CodedSpells
<1>9. c \in EncSet
  <2>1. Chance(k, e.slots) \in 1 .. Prob - 1
    <3>1. e.slots \in SlotSet
      BY <1>5, Fields
    <3>2. QED
      BY <3>1, SlotsKept
  <2>2. QED
    BY <1>5, <2>1, CodedKept
<1> DEFINE slots == Adapted(k, e.slots, bit)
<1>10. next.slots = slots
  BY <1>5, <1>6, NarrowFields
<1> HIDE DEF c, slots, next
<1>11. e' = [c EXCEPT !.slots = slots]
  BY <1>2 DEF c, slots
<1>12. Spells(e', Wide(next)) /\ e'.slots = slots
  <2>1. Spells(e', Wide(next))
    BY <1>8, <1>9, <1>11, SlotsSpell
  <2>2. e'.slots = slots
    BY <1>9, <1>11 DEF EncSet
  <2>3. QED
    BY <2>1, <2>2
<1>13. \E G : History(G, sent') /\ G[Len(sent')] = next
  BY <1>1, <1>2, <1>3, HistoryGrows DEF next, h
<1>14. QED
  BY <1>4, <1>10, <1>12, <1>13 DEF Followed

LEMMA EncFinishFollowed ==
  ASSUME RInv, rc_enc_finish
  PROVE  Followed'
<1>1. phase = "encode" /\ Ready /\ sent \in Seq(SentSet) /\ sent # <<>>
  BY DEF RInv, IInv, rc_enc_finish
<1>2. PICK H : /\ History(H, sent) /\ Spells(e, Wide(H[Len(sent)]))
               /\ e.slots = H[Len(sent)].slots
  BY <1>1 DEF RInv, Followed
<1> DEFINE h == Wide(H[Len(sent)])
           z == Finished(e).out
<1>3. h \in Intervals
  <2>1. Len(sent) \in 0 .. Len(sent)
    BY <1>1
  <2>2. H[Len(sent)] \in Intervals
    BY <1>2, <2>1 DEF History
  <2>3. QED
    BY <2>2, WideFields
<1>4. z \in Seq(0 .. Byte - 1) /\ Good(h, z) /\ z # <<>>
  <2>1. e \in EncSet /\ Room(e) /\ e.range >= Top /\ Spells(e, h)
    BY <1>1, <1>2 DEF Ready
  <2> HIDE DEF h
  <2>2. QED
    BY <1>3, <2>1, FinishGood, FinishedKept
<1>5. \A i \in 0 .. Len(sent) : Good(H[i], z)
  BY <1>1, <1>2, <1>4, AllGood
<1>6. e'.out = z /\ sent' = sent /\ got' = <<>> /\ d' = rc_dec_init(Tail(z)) /\ phase' # "encode"
  BY <1>1 DEF RInv, Followed, rc_enc_finish
<1>7. Follows(rc_dec_init(Tail(z)), Whole, z) /\ H[0] = Whole
  <2>1. H[0] = Whole /\ 0 \in 0 .. Len(sent)
    BY <1>1, <1>2 DEF History
  <2>2. Good(Whole, z)
    BY <1>5, <2>1
  <2>3. QED
    BY <1>4, <2>1, <2>2, StartFollows
<1> HIDE DEF z, h
<1>8. Len(got') = 0 /\ 0 <= Len(sent)
  BY <1>1, <1>6
<1>9. Follows(d', H[Len(got')], e'.out)
  BY <1>6, <1>7, <1>8
<1>10. \A i \in 1 .. Len(got') : got'[i] = sent'[i].bit
  BY <1>8
<1>11. /\ e'.out \in Seq(0 .. Byte - 1) /\ e'.out # <<>> /\ Len(got') <= Len(sent')
       /\ History(H, sent') /\ \A i \in 0 .. Len(sent') : Good(H[i], e'.out)
  BY <1>2, <1>4, <1>5, <1>6, <1>8
<1>12. QED
  BY <1>6, <1>9, <1>10, <1>11 DEF Followed

LEMMA DecBitFollowed ==
  ASSUME RInv, rc_dec_bit
  PROVE  Followed'
<1>1. /\ phase = "decode" /\ phase' = "decode" /\ e' = e /\ sent' = sent
      /\ sent \in Seq(SentSet) /\ got \in Seq({0, 1}) /\ d \in DecSet
  BY DEF RInv, IInv, rc_dec_bit
<1>2. CASE sent = <<>>
  BY <1>1, <1>2 DEF Followed
<1>3. CASE sent # <<>>
  <2> DEFINE n == Len(got)
             z == e.out
  <2>1. /\ z \in Seq(0 .. Byte - 1) /\ z # <<>>
        /\ \A i \in 1 .. n : got[i] = sent[i].bit
    BY <1>1, <1>3 DEF RInv, Followed
  <2>2. PICK H : /\ History(H, sent) /\ \A i \in 0 .. Len(sent) : Good(H[i], z)
                 /\ Follows(d, H[n], z)
    BY <1>1, <1>3 DEF RInv, Followed
  <2>3. n \in Nat /\ n < Len(sent) /\ Len(sent) \in Nat
    BY <1>1, <1>3 DEF rc_dec_bit
  <2>4. n \in 0 .. Len(sent) /\ n + 1 \in 1 .. Len(sent) /\ n + 1 \in 0 .. Len(sent)
        /\ n + 1 - 1 = n /\ n + 1 <= Len(sent)
    BY <2>3
  <2> DEFINE k == sent[n + 1].k
             bit == sent[n + 1].bit
             h == H[n]
             w == Wide(h)
             c == rc_dec_norm(d)
  <2>5. k \in Kinds /\ bit \in {0, 1}
    <3>1. sent[n + 1] \in SentSet
      BY <1>1, <2>4, ElementOfSeq
    <3>2. QED
      BY <3>1 DEF SentSet
  <2>6. h \in Intervals
    BY <2>2, <2>4 DEF History
  <2>7. w \in Intervals /\ w.range >= Top
    BY <2>6, WideFields
  <2>8. Narrow(w, k, bit) = H[n + 1] /\ Good(Narrow(w, k, bit), z)
    <3>1. H[n + 1] = Narrow(Wide(H[n + 1 - 1]), k, bit)
      BY <2>2, <2>4 DEF History
    <3>2. Good(H[n + 1], z)
      BY <2>2, <2>4
    <3>3. QED
      BY <2>4, <3>1, <3>2
  <2>9. d' = [Taken(c, Chance(k, d.slots), BitOf(c, Chance(k, d.slots)))
                EXCEPT !.slots = Adapted(k, d.slots, BitOf(c, Chance(k, d.slots)))]
        /\ got' = Append(got, BitOf(c, Chance(k, d.slots)))
    <3>1. PICK j \in (IF sent # <<>> THEN {sent[Len(got) + 1].k} ELSE Kinds) :
            /\ d' = [Taken(c, Chance(j, d.slots), BitOf(c, Chance(j, d.slots)))
                      EXCEPT !.slots = Adapted(j, d.slots, BitOf(c, Chance(j, d.slots)))]
            /\ got' = Append(got, BitOf(c, Chance(j, d.slots)))
      BY Zenon DEF rc_dec_bit
    <3>2. j = k
      BY <1>3, <3>1
    <3>3. QED
      BY <3>1, <3>2, Zenon
  <2>10. c \in DecSet /\ c.slots = d.slots
    BY <1>1, DecNorm
  <2> HIDE DEF w, k, bit, z
  <2>11. Good(w, z)
    BY <2>1, <2>5, <2>7, <2>8, NarrowBack
  <2>12. Follows(c, w, z)
    <3>1. Follows(d, h, z) /\ Good(Wide(h), z)
      BY <2>2, <2>11 DEF w
    <3> HIDE DEF h
    <3>2. QED
      BY <1>1, <2>1, <2>6, <3>1, NormFollows DEF w
  <2> HIDE DEF c, h
  <2> DEFINE prob == Chance(k, c.slots)
             t == [Taken(c, prob, bit) EXCEPT !.slots = Adapted(k, c.slots, bit)]
  <2>13. BitOf(c, prob) = bit /\ Follows(t, Narrow(w, k, bit), z)
    BY <2>1, <2>5, <2>7, <2>8, <2>10, <2>12, TakenFollows
  <2>14. d' = t /\ got' = Append(got, bit)
    BY <2>9, <2>10, <2>13
  <2> HIDE DEF t, prob
  <2>15. Follows(d', H[n + 1], z)
    BY <2>8, <2>13, <2>14
  <2>16. /\ Len(got') = n + 1 /\ got'[n + 1] = bit /\ \A i \in 1 .. n : got'[i] = got[i]
    BY <1>1, <2>5, <2>14, AppendProperties
  <2>17. ASSUME NEW i \in 1 .. Len(got') PROVE got'[i] = sent'[i].bit
    <3>1. CASE i \in 1 .. n
      BY <1>1, <2>1, <2>16, <3>1
    <3>2. CASE i = n + 1
      BY <1>1, <2>16, <3>2 DEF bit
    <3>3. QED
      BY <2>3, <2>16, <3>1, <3>2
  <2> HIDE DEF n
  <2>18. Follows(d', H[Len(got')], e'.out) /\ Len(got') <= Len(sent')
    BY <1>1, <2>4, <2>15, <2>16 DEF z
  <2>19. \E G : /\ History(G, sent') /\ \A i \in 0 .. Len(sent') : Good(G[i], e'.out)
                /\ Len(got') <= Len(sent') /\ Follows(d', G[Len(got')], e'.out)
    BY <1>1, <2>2, <2>18 DEF z
  <2>20. e'.out \in Seq(0 .. Byte - 1) /\ e'.out # <<>>
    BY <1>1, <2>1 DEF z
  <2>21. QED
    BY <1>1, <2>17, <2>19, <2>20 DEF Followed
<1>4. QED
  BY <1>2, <1>3

LEMMA NextRInv == RInv /\ [Next]_vars => RInv'
<1>1. SUFFICES ASSUME RInv, [Next]_vars PROVE Followed'
  BY NextIInv DEF RInv
<1>2. CASE rc_enc_bit
  BY <1>1, <1>2, EncBitFollowed
<1>3. CASE rc_enc_finish
  BY <1>1, <1>3, EncFinishFollowed
<1>4. CASE rc_dec_bit
  BY <1>1, <1>4, DecBitFollowed
<1>5. CASE UNCHANGED vars
  BY <1>1, <1>5 DEF RInv, Followed, vars
<1>6. QED
  BY <1>1, <1>2, <1>3, <1>4, <1>5 DEF Next

LEMMA AlwaysFollowed == Spec => []RInv
<1>1. Init => RInv
  BY InitIInv, InitFollowed DEF RInv
<1>2. QED
  BY <1>1, NextRInv, PTL DEF Spec

(* The decoder of rc.h gives back every bit rc.c's encoder was given, for  *)
(* every sequence of bits and probabilities, whatever the width of a byte: *)
(* no carry is lost, the finish writes enough bytes, and both sides adapt  *)
(* alike.                                                                  *)
THEOREM DecodesWhatWasSent == Spec => []RoundTrip
<1>1. RInv => RoundTrip
  <2>1. SUFFICES ASSUME RInv, sent # <<>> PROVE \A i \in DOMAIN got : got[i] = sent[i].bit
    BY DEF RoundTrip
  <2>2. phase \in {"encode", "decode"} /\ got \in Seq({0, 1})
    BY <2>1 DEF RInv, IInv
  <2>3. CASE phase = "encode"
    BY <2>1, <2>3 DEF RInv, Followed
  <2>4. CASE phase = "decode"
    <3>1. \A i \in 1 .. Len(got) : got[i] = sent[i].bit
      BY <2>1, <2>4 DEF RInv, Followed
    <3>2. DOMAIN got = 1 .. Len(got)
      BY <2>2, LenProperties
    <3>3. QED
      BY <3>1, <3>2
  <2>5. QED
    BY <2>2, <2>3, <2>4
<1>2. QED
  BY AlwaysFollowed, <1>1, PTL

(* Decoding what was encoded, the code is always inside the range, and the *)
(* decoder never reads so far past the end that rc_dec_spent would take    *)
(* its stream for a damaged one.                                           *)
THEOREM NeverLooksSpent == Spec => []InRange
<1>1. RInv => InRange
  <2>1. SUFFICES ASSUME RInv, phase = "decode", sent # <<>>
                 PROVE  d.code < d.range /\ d.pos <= Len(d.stream) + Slack
    BY DEF InRange
  <2> DEFINE n == Len(got)
             z == e.out
  <2>2. z \in Seq(0 .. Byte - 1) /\ z # <<>>
    BY <2>1 DEF RInv, Followed
  <2>3. PICK H : /\ History(H, sent) /\ \A i \in 0 .. Len(sent) : Good(H[i], z)
                 /\ Len(got) <= Len(sent) /\ Follows(d, H[n], z)
    BY <2>1 DEF RInv, Followed
  <2>4. n \in 0 .. Len(sent)
    BY <2>1, <2>3 DEF RInv, IInv
  <2>5. H[n] \in Intervals /\ Good(H[n], z)
    BY <2>3, <2>4 DEF History
  <2> DEFINE h == H[n]
             v == Value(z)[h.shifts + 5]
  <2>6. h.low \in Nat /\ h.range \in 1 .. Full - 1 /\ h.shifts \in Nat /\ Full \in Nat
    BY <2>5, IntervalFields, Powers
  <2>7. v \in Nat
    <3>1. h.shifts + 5 \in Nat
      BY <2>6
    <3>2. QED
      BY <2>2, <3>1, ValueStep
  <2>8. d.code = v - h.low /\ d.range = h.range /\ v < h.low + h.range
    BY <2>3, <2>5 DEF Follows, Good
  <2>9. d.code < d.range
    <3> HIDE DEF v, h
    <3>1. QED
      BY <2>6, <2>7, <2>8
  <2>10. /\ d.stream = Tail(z) /\ d.pos = Ahead(Tail(z)) + h.shifts
         /\ h.shifts + 2 <= Len(z) /\ Len(Tail(z)) = Len(z) - 1
         /\ Len(z) \in Nat
    BY <2>2, <2>3, <2>5, HeadTailProperties DEF Follows, Good
  <2>11. Ahead(Tail(z)) <= 4 /\ Ahead(Tail(z)) \in Int
    BY <2>10 DEF Ahead
  <2>12. d.pos <= Len(d.stream) + Slack
    BY <2>6, <2>10, <2>11, SlackAssumption
  <2>13. QED
    BY <2>9, <2>12
<1>2. QED
  BY AlwaysFollowed, <1>1, PTL
=============================================================================
