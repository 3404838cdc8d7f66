----------------------------- MODULE RangeCoder ----------------------------
(***************************************************************************)
(* The binary range coder of src/rc.h and src/rc.c: an encoder that codes  *)
(* a sequence of bits, each with a probability that both sides know, into  *)
(* bytes, and the decoder that gets the bits back out of them.             *)
(*                                                                         *)
(* The code's widths are those of a byte of Byte = 256 values: low, range  *)
(* and code have four bytes (Full), range is kept at three or more (Top)   *)
(* and a probability has two (Prob).  The module is about any even Byte.   *)
(* "carry" is the bit that does not fit in low; "cache" is the last byte   *)
(* not yet written, because a carry may still reach it, and pending counts *)
(* it and the bytes of all ones behind it.                                 *)
(*                                                                         *)
(* The bits are coded with a probability the caller gives ("raw") or with  *)
(* one of two adaptive slots, one with a fixed rate and one that counts.   *)
(* A decoder is also run on bytes that no encoder wrote.                   *)
(***************************************************************************)
EXTENDS Integers, Sequences

CONSTANTS
  Byte,    \* values of a byte
  Rate,    \* divisor of the fixed adaptation rate
  Limit,   \* the count at which a counting slot stops (RC_ALIM)
  Slack,   \* RC_SPENT_SLACK
  Probs,   \* the probabilities callers give
  BitMax,  \* bound on the bits coded
  Given    \* the streams, other than those encoded here, that are decoded

ASSUME ByteAssumption == Byte \in Nat /\ Byte >= 2 /\ Byte = 2 * (Byte \div 2)
ASSUME RateAssumption == Rate \in Nat /\ Rate >= 2 /\ Limit \in Nat
ASSUME ProbsAssumption == Probs \subseteq 1 .. Byte * Byte - 1
ASSUME SlackAssumption == Slack \in Nat /\ Slack >= 3
ASSUME GivenAssumption == Given \subseteq Seq(0 .. Byte - 1)

Prob == Byte * Byte
Top == Prob * Byte
Full == Top * Byte

VARIABLES
  e,      \* the encoder
  sent,   \* what has been encoded: kind of probability, its value, the bit
  d,      \* the decoder
  got,    \* the bits decoded
  phase   \* "encode", "decode", or "fatal"

vars == <<e, sent, d, got, phase>>

(* The adaptive probabilities, the same on both sides.                     *)
Slots == [fixed |-> Prob \div 2, counted |-> Prob \div 2, count |-> 0]

(* An adaptation that rounds its step up.                                  *)
AdaptedUp(v, bit) ==
  IF bit = 1 THEN v - (v + Rate - 1) \div Rate ELSE v + (Prob + Rate - 2 - v) \div Rate

rc_adapt_fixed(v, bit) == IF bit = 1 THEN v - v \div Rate ELSE v + (Prob - 1 - v) \div Rate

(* rc_divt: 1 / (count + 3) in sixteen bits.                               *)
rc_divt(count) == (Prob - 1) \div (count + 3)

rc_adapt_prob(v, rate, bit) ==
  IF bit = 1 THEN v - (v * rate) \div Prob ELSE v + ((Prob - 1 - v) * rate) \div Prob

Kinds == {[kind |-> "raw", prob |-> p] : p \in Probs}
         \cup {[kind |-> k, prob |-> 0] : k \in {"fixed", "counted"}}

Chance(k, s) == IF k.kind = "raw" THEN k.prob ELSE s[k.kind]

Adapted(k, s, bit) ==
  CASE k.kind = "fixed"   -> [s EXCEPT !.fixed = rc_adapt_fixed(@, bit)]
    [] k.kind = "counted" ->
         [s EXCEPT !.counted = rc_adapt_prob(@, rc_divt(s.count), bit),
                   !.count = IF @ < Limit THEN @ + 1 ELSE @]
    [] OTHER              -> s

-----------------------------------------------------------------------------
(* The encoder.                                                            *)

Encoder ==
  [low |-> 0, range |-> Full - 1, carry |-> 0, cache |-> 0, pending |-> 1,
   out |-> <<>>, failed |-> FALSE, slots |-> Slots]

Copies(b, n) == [i \in 1 .. n |-> b]

(* A byte cache that a carry reaches is one higher; so are the ones behind *)
(* it, which become zero.                                                  *)
Released(c) == <<(c.cache + c.carry) % Byte>> \o Copies((Byte - 1 + c.carry) % Byte, c.pending - 1)

(* A shift that never holds back a byte of all ones.                       *)
ShiftAlways(c) ==
  [c EXCEPT !.out = @ \o Released(c), !.cache = c.low \div Top, !.pending = 1,
            !.carry = 0, !.low = (@ % Top) * Byte]

(* A shift that leaves a carry it has passed on where it was.              *)
ShiftKeepsCarry(c) ==
  LET low == (c.low % Top) * Byte
  IN  IF c.low < (Byte - 1) * Top \/ c.carry = 1
        THEN [c EXCEPT !.out = @ \o Released(c), !.cache = c.low \div Top, !.pending = 1,
                       !.low = low]
        ELSE [c EXCEPT !.pending = @ + 1, !.low = low]

(* The top byte leaves low.  It waits when it is all ones and no carry has *)
(* come; otherwise what was waiting is released.  The first byte of all    *)
(* has to be the zero the encoder began with: it is not written.           *)
rc_shift(c) ==
  LET low == (c.low % Top) * Byte
  IN  IF c.low < (Byte - 1) * Top \/ c.carry = 1
        THEN [c EXCEPT !.out = @ \o Released(c), !.cache = c.low \div Top, !.pending = 1,
                       !.carry = 0, !.low = low,
                       !.failed = @ \/ (c.out = <<>> /\ Released(c)[1] # 0)]
        ELSE [c EXCEPT !.pending = @ + 1, !.low = low]

(* A round of rc_norm; three make any range wide again, as it is not zero. *)
Widened(c) == IF c.range < Top THEN [rc_shift(c) EXCEPT !.range = @ * Byte] ELSE c
rc_norm(c) == Widened(Widened(Widened(c)))

(* low grows; a second carry before the first one is passed on is fatal.   *)
rc_addlow(c, split) ==
  LET low == c.low + split
  IN  [c EXCEPT !.low = low % Full,
                !.carry = IF low >= Full THEN 1 ELSE @,
                !.failed = @ \/ (low >= Full /\ c.carry = 1)]

(* A bit of one takes the upper part of the range, a zero the lower.       *)
Split(range, prob) == (range \div Prob) * prob

Coded(c, prob, bit) ==
  LET split == Split(c.range, prob)
  IN  rc_norm(IF bit = 1 THEN [rc_addlow(c, split) EXCEPT !.range = c.range - split]
              ELSE [c EXCEPT !.range = split])

rc_enc_bit ==
  /\ phase = "encode" /\ Len(sent) < BitMax
  /\ \E k \in Kinds, bit \in {0, 1} :
       /\ e' = [Coded(e, Chance(k, e.slots), bit) EXCEPT !.slots = Adapted(k, e.slots, bit)]
       /\ sent' = Append(sent, [k |-> k, bit |-> bit])
  /\ phase' = IF e'.failed THEN "fatal" ELSE "encode"
  /\ UNCHANGED <<d, got>>

(* A finish that flushes one byte whatever the range is.                   *)
FinishShort(c) == [rc_shift(rc_addlow(c, Top)) EXCEPT !.range = (Top \div 2) * Byte]

(* Enough bytes for the number they spell to be inside the range.          *)
FinishLow(c) ==
  LET round(x) == [rc_shift(x) EXCEPT !.range = @ * Byte]
  IN  IF c.range > 2 * Top
        THEN round([rc_addlow(c, Top) EXCEPT !.range = Top \div 2])
        ELSE round(round([rc_addlow(c, Top \div 2) EXCEPT !.range = Prob \div 2]))

Finished(c) ==
  LET f == FinishLow(c)
  IN  [f EXCEPT !.out = @ \o <<f.cache>> \o Copies(Byte - 1, f.pending - 1), !.pending = 0,
                !.failed = @ \/ (f.out = <<>> /\ f.cache # 0)]

-----------------------------------------------------------------------------
(* The decoder.                                                            *)

(* The next byte of stream s, zero past its end.                           *)
rc_get(s, pos) == IF pos < Len(s) THEN s[pos + 1] ELSE 0

rc_dec_init(s) ==
  [stream |-> s, range |-> Full - 1, slots |-> Slots,
   pos |-> IF Len(s) < 4 THEN Len(s) ELSE 4,
   code |-> ((rc_get(s, 0) * Byte + rc_get(s, 1)) * Byte + rc_get(s, 2)) * Byte + rc_get(s, 3)]

rc_dec_widened(c) ==
  IF c.range < Top
    THEN [c EXCEPT !.code = (@ * Byte + rc_get(c.stream, c.pos)) % Full,
                   !.pos = @ + 1, !.range = @ * Byte]
    ELSE c
rc_dec_norm(c) == rc_dec_widened(rc_dec_widened(rc_dec_widened(c)))

(* A decoder that gives the split itself to the zero.                      *)
BitOfLoose(c, prob) == IF c.code <= Split(c.range, prob) THEN 0 ELSE 1

BitOf(c, prob) == IF c.code < Split(c.range, prob) THEN 0 ELSE 1

(* A decoder that does not narrow its range when the bit is one.           *)
TakenWide(c, prob, bit) ==
  LET split == Split(c.range, prob)
  IN  IF bit = 1 THEN [c EXCEPT !.code = @ - split]
      ELSE [c EXCEPT !.range = split]

Taken(c, prob, bit) ==
  LET split == Split(c.range, prob)
  IN  IF bit = 1 THEN [c EXCEPT !.code = @ - split, !.range = @ - split]
      ELSE [c EXCEPT !.range = split]

rc_enc_finish ==
  /\ phase = "encode" /\ sent # <<>>
  /\ e' = Finished(e)
  /\ d' = rc_dec_init(Tail(e'.out))
  /\ phase' = IF e'.failed THEN "fatal" ELSE "decode"
  /\ UNCHANGED <<sent, got>>

rc_dec_spent == d.pos > Len(d.stream) + Slack

(* The decoder is asked for the bits that were encoded, as they were.  Of  *)
(* foreign bytes it may be asked for anything, until they are spent.       *)
rc_dec_bit ==
  /\ phase = "decode"
  /\ IF sent # <<>> THEN Len(got) < Len(sent) ELSE Len(got) < BitMax /\ ~rc_dec_spent
  /\ \E k \in (IF sent # <<>> THEN {sent[Len(got) + 1].k} ELSE Kinds) :
       LET c == rc_dec_norm(d)
           prob == Chance(k, d.slots)
           bit == BitOf(c, prob)
       IN  /\ d' = [Taken(c, prob, bit) EXCEPT !.slots = Adapted(k, d.slots, bit)]
           /\ got' = Append(got, bit)
  /\ UNCHANGED <<e, sent, phase>>

Init ==
  /\ e = Encoder /\ sent = <<>> /\ got = <<>>
  /\ \/ phase = "encode" /\ d = rc_dec_init(<<>>)
     \/ phase = "decode" /\ d \in {rc_dec_init(s) : s \in Given}

Next == rc_enc_bit \/ rc_enc_finish \/ rc_dec_bit

Spec == Init /\ [][Next]_vars

-----------------------------------------------------------------------------
(* Properties.                                                             *)

SlotSet == [fixed : 1 .. Prob - 2, counted : 1 .. Prob - 2, count : 0 .. Limit]

(* Both sides have their types: in particular an adaptive probability is   *)
(* never nought or one, which would leave one of the bits no range.        *)
TypeOK ==
  /\ e \in [low : 0 .. Full - 1, range : 1 .. Full - 1, carry : 0 .. 1, cache : 0 .. Byte - 1,
            pending : Nat, out : Seq(0 .. Byte - 1), failed : BOOLEAN, slots : SlotSet]
  /\ d.range \in 1 .. Full - 1 /\ d.code \in 0 .. Full - 1 /\ d.pos \in Nat
  /\ d.slots \in SlotSet
  /\ phase \in {"encode", "decode", "fatal"}

(* The number the encoder has not yet passed on.                           *)
Reach == e.carry * Full + e.low + e.range

(* A carry always finds a byte to go to: it is one at most, a cached byte  *)
(* of all ones never gets it, and the first byte never does.               *)
CarryFits ==
  phase = "encode" =>
    /\ Reach <= 2 * Full
    /\ e.cache = Byte - 1 => Reach <= Full
    /\ e.out = <<>> => e.cache = 0 /\ Reach <= Full

(* No sequence of bits makes the encoder give up: neither "two carries     *)
(* pending" nor "leading carry byte" can happen.                           *)
NeverFails == phase # "fatal"

(* The decoder gets the bits that were sent.                               *)
RoundTrip == sent # <<>> => \A i \in DOMAIN got : got[i] = sent[i].bit

(* It finds each of them inside its range, and never looks spent although  *)
(* it looks past the end.                                                  *)
InRange ==
  phase = "decode" /\ sent # <<>> => d.code < d.range /\ d.pos <= Len(d.stream) + Slack

(* On any bytes at all, a decoded bit narrows the range or takes a byte,   *)
(* so a decoder that is asked for bits forever is spent in the end.        *)
Consumes == [][got' # got => d'.pos > d.pos \/ d'.range < d.range]_vars
=============================================================================
