------------------------------ MODULE OpusRange ------------------------------
(***************************************************************************)
(* The entropy coder of Opus frames: the decoder the packer reads a frame  *)
(* with (raw_dec_* of src/opus/entdec.c) and the encoder that writes its   *)
(* mirror, and the frame itself when it is unpacked (src/opus/entenc.c).   *)
(* The parser decides by ec_tell what it asks for next, and asks a decoder *)
(* when it packs and an encoder when it unpacks.                           *)
(*                                                                         *)
(* Values of a set of intervals are coded with ec_encode; ec_enc_bit_logp, *)
(* ec_enc_icdf, ec_enc_icdf16 and ec_encode_bin are ec_encode with a power *)
(* of two for a total, and so are the functions that read them.            *)
(***************************************************************************)
EXTENDS Integers, SequencesExt, Bitwise

CONSTANTS
  SymBits,    \* EC_SYM_BITS, 8
  CodeBits,   \* EC_CODE_BITS, 32
  UintBits,   \* EC_UINT_BITS, 8
  WindowBits, \* EC_WINDOW_SIZE, 32
  LapBits,    \* the bits of the total of a Laplace value, 15
  LapMin,     \* LAPLACE_NMIN, 16
  RangeOps,   \* what is asked for
  RangeFrames,\* the frames it is asked of
  MaxValues   \* the most values of a frame

VARIABLES
  frame,  \* the original
  dec,    \* the context that reads it
  mirror, \* the context that writes its mirror
  vals,   \* what was asked for, and the answers
  state   \* "walk", or how it ended

rangeVars == <<frame, dec, mirror, vals, state>>

EC_SYM_MAX    == 2 ^ SymBits - 1
EC_CODE_TOP   == 2 ^ (CodeBits - 1)
EC_CODE_BOT   == 2 ^ (CodeBits - 1 - SymBits)
EC_CODE_SHIFT == CodeBits - SymBits - 1
EC_CODE_EXTRA == ((CodeBits - 2) % SymBits) + 1

Least(a, b) == IF a < b THEN a ELSE b

ilog(v) == CHOOSE n \in 0 .. 31 : v < 2 ^ n /\ (n > 0 => v >= 2 ^ (n - 1))

isqrt32(v) == CHOOSE g \in 0 .. v : g * g <= v /\ v < (g + 1) * (g + 1)

ec_tell(x) == x.nbits - ilog(x.rng)

-----------------------------------------------------------------------------
(* The decoder.                                                            *)

ec_read_byte(d) ==
  IF d.offs < Len(d.buf) THEN [d EXCEPT !.rem = d.buf[d.offs + 1], !.offs = @ + 1]
  ELSE [d EXCEPT !.rem = 0]

(* The symbol of the last byte's low bits and the next one's high bits.    *)
Symbol(last, next) ==
  ((last * 2 ^ SymBits + next) \div 2 ^ (SymBits - EC_CODE_EXTRA)) % 2 ^ SymBits

RECURSIVE ec_dec_normalize(_)
ec_dec_normalize(d) ==
  IF d.rng > EC_CODE_BOT THEN d
  ELSE LET r == ec_read_byte(d)
       IN  ec_dec_normalize(
             [r EXCEPT !.nbits = @ + SymBits, !.rng = @ * 2 ^ SymBits,
                       !.val = (@ * 2 ^ SymBits + EC_SYM_MAX - Symbol(d.rem, r.rem)) % EC_CODE_TOP])

raw_dec_init(bytes) ==
  LET d == ec_read_byte(
             [buf |-> bytes, offs |-> 0, endOffs |-> 0, window |-> 0, avail |-> 0, rem |-> 0, val |-> 0,
              err |-> FALSE, rng |-> 2 ^ EC_CODE_EXTRA,
              nbits |-> CodeBits + 1 - ((CodeBits - EC_CODE_EXTRA) \div SymBits) * SymBits])
  IN  ec_dec_normalize([d EXCEPT !.val = d.rng - 1 - d.rem \div 2 ^ (SymBits - EC_CODE_EXTRA)])

raw_decode(d, ft) == ft - Least(d.val \div (d.rng \div ft) + 1, ft)

raw_dec_update(d, x) ==
  LET ext == d.rng \div x.ft
      s == ext * (x.ft - x.fh)
  IN  ec_dec_normalize([d EXCEPT !.val = @ - s,
                                 !.rng = IF x.fl > 0 THEN ext * (x.fh - x.fl) ELSE @ - s])

RECURSIVE Refilled(_)
Refilled(d) ==
  LET b == IF d.endOffs < Len(d.buf) THEN d.buf[Len(d.buf) - d.endOffs] ELSE 0
      y == [d EXCEPT !.window = @ + b * 2 ^ d.avail, !.avail = @ + SymBits,
                     !.endOffs = Least(@ + 1, Len(d.buf))]
  IN  IF y.avail <= WindowBits - SymBits THEN Refilled(y) ELSE y

raw_dec_bits(d, bits) ==
  LET y == IF d.avail < bits THEN Refilled(d) ELSE d
  IN  [v |-> y.window % 2 ^ bits,
       d |-> [y EXCEPT !.window = @ \div 2 ^ bits, !.avail = @ - bits, !.nbits = @ + bits]]

-----------------------------------------------------------------------------
(* The encoder.                                                            *)

ec_enc_init(size) ==
  [buf |-> [i \in 1 .. size |-> EC_SYM_MAX], offs |-> 0, endOffs |-> 0, window |-> 0, used |-> 0,
   nbits |-> CodeBits + 1, rng |-> EC_CODE_TOP, rem |-> -1, val |-> 0, ext |-> 0, err |-> FALSE]

Filled(e) == e.offs + e.endOffs >= Len(e.buf)

ec_write_byte(e, v) ==
  IF Filled(e) THEN [e EXCEPT !.err = TRUE]
  ELSE [e EXCEPT !.buf[e.offs + 1] = v % 2 ^ SymBits, !.offs = @ + 1]

ec_write_byte_at_end(e, v) ==
  IF Filled(e) THEN [e EXCEPT !.err = TRUE]
  ELSE [e EXCEPT !.buf[Len(e.buf) - e.endOffs] = v % 2 ^ SymBits, !.endOffs = @ + 1]

CarryLost(e, carry) ==
  FoldLeft(LAMBDA x, sym : ec_write_byte(x, sym),
           IF e.rem >= 0 THEN ec_write_byte(e, e.rem + carry) ELSE e,
           [i \in 1 .. e.ext |-> EC_SYM_MAX])

(* A carry goes through to the buffered symbol and those of all ones.      *)
Carried(e, carry) ==
  FoldLeft(LAMBDA x, sym : ec_write_byte(x, sym),
           IF e.rem >= 0 THEN ec_write_byte(e, e.rem + carry) ELSE e,
           [i \in 1 .. e.ext |-> EC_SYM_MAX + carry])

ec_enc_carry_out(e, c) ==
  IF c = EC_SYM_MAX THEN [e EXCEPT !.ext = @ + 1]
  ELSE [Carried(e, c \div 2 ^ SymBits) EXCEPT !.rem = c % 2 ^ SymBits, !.ext = 0]

RECURSIVE ec_enc_normalize(_)
ec_enc_normalize(e) ==
  IF e.rng > EC_CODE_BOT THEN e
  ELSE ec_enc_normalize(
         [ec_enc_carry_out(e, e.val \div 2 ^ EC_CODE_SHIFT) EXCEPT
            !.val = (@ * 2 ^ SymBits) % EC_CODE_TOP, !.rng = @ * 2 ^ SymBits, !.nbits = @ + SymBits])

ec_encode(e, x) ==
  LET r == e.rng \div x.ft
  IN  ec_enc_normalize(
        IF x.fl > 0
        THEN [e EXCEPT !.val = @ + e.rng - r * (x.ft - x.fl), !.rng = r * (x.fh - x.fl)]
        ELSE [e EXCEPT !.rng = @ - r * (x.ft - x.fh)])

RECURSIVE Spilled(_)
Spilled(e) ==
  IF e.used < SymBits THEN e
  ELSE Spilled([ec_write_byte_at_end(e, e.window) EXCEPT !.window = @ \div 2 ^ SymBits, !.used = @ - SymBits])

ec_enc_bits(e, v, bits) ==
  LET y == IF e.used + bits > WindowBits THEN Spilled(e) ELSE e
  IN  [y EXCEPT !.window = @ + v * 2 ^ y.used, !.used = @ + bits, !.nbits = @ + bits]

(* The fewest bits that stay inside the range whatever follows them.       *)
Ending(e) ==
  LET End(l) == LET msk == (EC_CODE_TOP - 1) \div 2 ^ l
                IN  [l |-> l, msk |-> msk, end |-> ((e.val + msk) \div (msk + 1)) * (msk + 1)]
      first == End(CodeBits - ilog(e.rng))
  IN  IF first.end + first.msk >= e.val + e.rng THEN End(first.l + 1) ELSE first

RECURSIVE Ended(_, _, _)
Ended(e, l, end) ==
  IF l <= 0 THEN [e |-> e, spare |-> -l]
  ELSE Ended(ec_enc_carry_out(e, end \div 2 ^ EC_CODE_SHIFT), l - SymBits, (end * 2 ^ SymBits) % EC_CODE_TOP)

(* What is left of the raw bits goes to the byte before them, which may be *)
(* the last of the front: of that only the spare bits are free.            *)
LastBits(e, spare) ==
  IF e.endOffs >= Len(e.buf) THEN [e EXCEPT !.err = TRUE]
  ELSE LET tight == Filled(e) /\ spare < e.used
           bits == IF tight THEN e.window % 2 ^ spare ELSE e.window
       IN  [e EXCEPT !.err = tight, !.buf[Len(e.buf) - e.endOffs] = (@ | bits) % 2 ^ SymBits]

ec_enc_done(e) ==
  LET x == Ended(e, Ending(e).l, Ending(e).end)
      front == IF x.e.rem >= 0 \/ x.e.ext > 0 THEN ec_enc_carry_out(x.e, 0) ELSE x.e
      both == Spilled(front)
      clear == [both EXCEPT !.buf = [i \in DOMAIN @ |-> IF i \in both.offs + 1 .. Len(@) - both.endOffs
                                                        THEN 0 ELSE @[i]]]
  IN  IF both.err THEN both ELSE IF both.used > 0 THEN LastBits(clear, x.spare) ELSE clear

-----------------------------------------------------------------------------
(* The intervals of values.                                                *)

LapTotal == 2 ^ LapBits

ec_laplace_get_freq1(fs0, decay) ==
  ((LapTotal - 2 * LapMin - fs0) * (LapTotal \div 2 - decay)) \div LapTotal

(* The decaying part, which the encoder searches for a value and the       *)
(* decoder for a place.                                                    *)
RECURSIVE EncSearch(_, _, _, _, _)
EncSearch(decay, fl, fs, i, mag) ==
  IF fs > 0 /\ i < mag THEN EncSearch(decay, fl + 2 * fs + 2, (2 * fs * decay) \div LapTotal, i + 1, mag)
  ELSE [fl |-> fl, fs |-> fs, i |-> i]

Mag(v) == IF v < 0 THEN -v ELSE v

(* The interval of a value, and the value that really was coded.           *)
ec_laplace_encode(op, v) ==
  IF v = 0 THEN [v |-> 0, fl |-> 0, fh |-> op.fs, ft |-> LapTotal]
  ELSE LET neg == IF v < 0 THEN 1 ELSE 0
           x == EncSearch(op.decay, op.fs, ec_laplace_get_freq1(op.fs, op.decay), 1, Mag(v))
           most == (LapTotal - x.fl + neg) \div 2
           di == Least(Mag(v) - x.i, most - 1)
           fl == IF x.fs = 0 THEN x.fl + 2 * di + 1 - neg ELSE x.fl + (1 - neg) * (x.fs + 1)
           fs == IF x.fs = 0 THEN Least(1, LapTotal - fl) ELSE x.fs + 1
       IN  [v |-> IF x.fs > 0 THEN v ELSE (x.i + di) * (1 - 2 * neg), fl |-> fl, fh |-> fl + fs,
            ft |-> LapTotal]

RECURSIVE DecSearch(_, _, _, _, _)
DecSearch(decay, fl, fs, i, fm) ==
  IF fs > 1 /\ fm >= fl + 2 * fs
  THEN DecSearch(decay, fl + 2 * fs, ((2 * fs - 2) * decay) \div LapTotal + 1, i + 1, fm)
  ELSE [fl |-> fl, fs |-> fs, i |-> i]

ec_laplace_decode_raw(op, fm) ==
  IF fm < op.fs THEN [v |-> 0, fl |-> 0, fh |-> op.fs, ft |-> LapTotal]
  ELSE LET x == DecSearch(op.decay, op.fs, ec_laplace_get_freq1(op.fs, op.decay) + 1, 1, fm)
           di == IF x.fs <= 1 THEN (fm - x.fl) \div 2 ELSE 0
           low == x.fl + 2 * di
           fl == IF fm < low + x.fs THEN low ELSE low + x.fs
       IN  [v |-> IF fm < low + x.fs THEN -(x.i + di) ELSE x.i + di,
            fl |-> fl, fh |-> Least(fl + x.fs, LapTotal), ft |-> LapTotal]

(* An angle of two channels: three times the chance up to the middle.      *)
StepTotal(qn) == 3 * (qn \div 2 + 1) + qn \div 2

StepOf(qn, x) ==
  LET x0 == qn \div 2
      Fl(n) == IF n <= x0 THEN 3 * n ELSE n - 1 - x0 + (x0 + 1) * 3
  IN  [v |-> x, fl |-> Fl(x), fh |-> IF x <= x0 THEN 3 * (x + 1) ELSE Fl(x + 1), ft |-> StepTotal(qn)]

StepAt(qn, fs) ==
  LET x0 == qn \div 2
  IN  IF fs < (x0 + 1) * 3 THEN fs \div 3 ELSE x0 + 1 + fs - (x0 + 1) * 3

(* An angle of one channel: the chance rises to the middle and falls.      *)
TriTotal(qn) == (qn \div 2 + 1) * (qn \div 2 + 1)

Rising(x) == [v |-> x, fl |-> (x * (x + 1)) \div 2, fh |-> (x * (x + 1)) \div 2 + x + 1]

Falling(qn, x) ==
  LET fl == TriTotal(qn) - ((qn + 1 - x) * (qn + 2 - x)) \div 2
  IN  [v |-> x, fl |-> fl, fh |-> fl + qn + 1 - x]

Whole(x, ft) == [v |-> x.v, fl |-> x.fl, fh |-> x.fh, ft |-> ft]

Triangle(qn, x) == Whole(IF x <= qn \div 2 THEN Rising(x) ELSE Falling(qn, x), TriTotal(qn))

TriangleAt(qn, fm) ==
  LET h == qn \div 2
  IN  Whole(IF fm < (h * (h + 1)) \div 2 THEN Rising((isqrt32(8 * fm + 1) - 1) \div 2)
            ELSE Falling(qn, (2 * (qn + 1) - isqrt32(8 * (TriTotal(qn) - fm - 1) + 1)) \div 2),
            TriTotal(qn))

(* The values of a table, by where they end.                               *)
Table(op, v) ==
  [v |-> v, fl |-> IF v = 0 THEN 0 ELSE op.ends[v], fh |-> op.ends[v + 1], ft |-> Last(op.ends)]

TableAt(op, fs) == Table(op, CHOOSE v \in 0 .. Len(op.ends) - 1 :
                               fs < op.ends[v + 1] /\ (v > 0 => fs >= op.ends[v]))

(* The interval the encoder gives a value, and that the decoder finds.     *)
EncodedAs(op, v) ==
  CASE op.kind = "icdf" -> Table(op, v)
    [] op.kind = "laplace" -> ec_laplace_encode(op, v)
    [] op.kind = "step" -> StepOf(op.qn, v)
    [] op.kind = "triangle" -> Triangle(op.qn, v)

TotalOf(op) ==
  CASE op.kind = "icdf" -> Last(op.ends)
    [] op.kind = "laplace" -> LapTotal
    [] op.kind = "step" -> StepTotal(op.qn)
    [] op.kind = "triangle" -> TriTotal(op.qn)

FoundAt(op, fs) ==
  CASE op.kind = "icdf" -> TableAt(op, fs)
    [] op.kind = "laplace" -> ec_laplace_decode_raw(op, fs)
    [] op.kind = "step" -> StepOf(op.qn, StepAt(op.qn, fs))
    [] op.kind = "triangle" -> TriangleAt(op.qn, fs)

-----------------------------------------------------------------------------
(* Values.  A large number is an interval for its top bits and raw bits.   *)

LowBits(ft) == ilog(ft - 1) - UintBits

Top(ft, v, n) == [v |-> v, fl |-> v, fh |-> v + 1, ft |-> (ft - 1) \div 2 ^ n + 1]

raw_dec_uint(d, ft) ==
  LET n == LowBits(ft)
  IN  IF n > 0
      THEN LET s == raw_decode(d, (ft - 1) \div 2 ^ n + 1)
               r == raw_dec_bits(raw_dec_update(d, Top(ft, s, n)), n)
               t == s * 2 ^ n + r.v
           IN  IF t <= ft - 1 THEN [v |-> t, d |-> r.d] ELSE [v |-> ft - 1, d |-> [r.d EXCEPT !.err = TRUE]]
      ELSE LET s == raw_decode(d, ft) IN [v |-> s, d |-> raw_dec_update(d, Top(ft, s, 0))]

UintWhole(e, v, ft) == ec_encode(e, Top(ft, v, 0))

ec_enc_uint(e, v, ft) ==
  LET n == LowBits(ft)
  IN  IF n > 0 THEN ec_enc_bits(ec_encode(e, Top(ft, v \div 2 ^ n, n)), v % 2 ^ n, n)
      ELSE ec_encode(e, Top(ft, v, 0))

Decoded(d, op) ==
  CASE op.kind = "bits" -> raw_dec_bits(d, op.bits)
    [] op.kind = "uint" -> raw_dec_uint(d, op.ft)
    [] OTHER -> LET x == FoundAt(op, raw_decode(d, TotalOf(op)))
                IN  [v |-> x.v, d |-> raw_dec_update(d, x)]

Encoded(e, op, v) ==
  CASE op.kind = "bits" -> ec_enc_bits(e, v, op.bits)
    [] op.kind = "uint" -> ec_enc_uint(e, v, op.ft)
    [] OTHER -> ec_encode(e, EncodedAs(op, v))

(* orec_laplace_decode, when it unpacks.                                   *)
Representable(op, v) == op.kind = "laplace" => ec_laplace_encode(op, v).v = v

-----------------------------------------------------------------------------
Init ==
  /\ frame \in RangeFrames
  /\ dec = raw_dec_init(frame) /\ mirror = ec_enc_init(Len(frame))
  /\ vals = <<>> /\ state = "walk"

ec_dec_op ==
  /\ state = "walk" /\ Len(vals) < MaxValues
  /\ \E op \in RangeOps : \E r \in {Decoded(dec, op)} :
       /\ dec' = r.d /\ mirror' = Encoded(mirror, op, r.v)
       /\ vals' = Append(vals, [op |-> op, v |-> r.v])
       /\ state' = IF Representable(op, r.v) THEN "walk" ELSE "died"
  /\ UNCHANGED frame

oe_close ==
  /\ state = "walk"
  /\ mirror' = ec_enc_done(mirror) /\ state' = "done"
  /\ UNCHANGED <<frame, dec, vals>>

Next == ec_dec_op \/ oe_close

Spec == Init /\ [][Next]_rangeVars

-----------------------------------------------------------------------------
(* Whatever the bytes of a frame are, the encoder that is given the values *)
(* of its decoder has spent as much of the frame as it, so that the parser *)
(* takes the same branches, and no value is refused as not representable   *)
(* (ec_tell, orec_laplace_decode).                                         *)
TellsAgree ==
  /\ state # "died"
  /\ state = "walk" => ec_tell(dec) = ec_tell(mirror) /\ dec.rng = mirror.rng /\ dec.nbits = mirror.nbits

(* A mirror that was closed without an error reads as the frame did.       *)
MirrorReads ==
  state = "done" /\ ~mirror.err =>
    FoldLeft(LAMBDA x, y : IF x.same THEN LET r == Decoded(x.d, y.op) IN [d |-> r.d, same |-> r.v = y.v] ELSE x,
             [d |-> raw_dec_init(mirror.buf), same |-> TRUE], vals).same
=============================================================================
