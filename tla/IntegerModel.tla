---------------------------- MODULE IntegerModel ----------------------------
(***************************************************************************)
(* The integer models of src/model.c: a number is coded as its difference  *)
(* from what a predictor says, and that as bits for nought, sign, length   *)
(* and the digits below the top one, each with a slot of its own.          *)
(*                                                                         *)
(* A coded bit is kept with the slot that coded it; a decoder that asks    *)
(* for it with another slot has lost the stream.  The adaptive chances of  *)
(* the slots are those of the range coder.                                 *)
(***************************************************************************)
EXTENDS Integers, SequencesExt

CONSTANT WordBits   \* the width of a number, 32 in the code

WordSize == 2 ^ WordBits

Wrap(v) == v % WordSize

(* A model: mdl_cfg and the histories and predictors of mdl_reset.         *)
mdl_init(c) == [c |-> c, h0 |-> 0, h1 |-> 0, hl |-> 0, m0 |-> 0, m1 |-> 0]

mdl_reset(m) == mdl_init(m.c)

bitlen(v) == CHOOSE n \in 0 .. WordBits : 2 ^ n <= v /\ v < 2 ^ (n + 1)

(* The predictors: what is coded for v, and what comes back for it.        *)
fwd(m, v) ==
  LET r == Wrap(v - m.m0)
  IN  CASE m.c.order = 0 -> [r |-> v, m |-> m]
        [] m.c.order = 1 -> [r |-> r, m |-> [m EXCEPT !.m0 = v]]
        [] OTHER         -> [r |-> Wrap(r - m.m1), m |-> [m EXCEPT !.m0 = v, !.m1 = r]]

(* A second-order prediction that forgets its own difference.              *)
InvFirst(m, r) ==
  LET v == Wrap(m.m0 + r + m.m1)
  IN  IF m.c.order = 0 THEN [v |-> r, m |-> m] ELSE [v |-> v, m |-> [m EXCEPT !.m0 = v]]

inv(m, r) ==
  LET t == IF m.c.order > 1 THEN Wrap(r + m.m1) ELSE r
      v == Wrap(m.m0 + t)
  IN  IF m.c.order = 0 THEN [v |-> r, m |-> m]
      ELSE [v |-> v, m |-> [m EXCEPT !.m0 = v, !.m1 = IF m.c.order > 1 THEN t ELSE @]]

(* The histories after a bit for nought, and after a sign.                 *)
nzstep(m, nz) ==
  [m EXCEPT !.h0 = (nz + 2 * @) % 4, !.hl = IF nz = 0 THEN 0 ELSE @]

sgstep(m, neg) ==
  [m EXCEPT !.h1 = IF m.c.shist = 1 THEN neg ELSE (neg + 2 * @) % 4]

LenStep(m, n) == [m EXCEPT !.hl = n + 1]

nzslot(m) == <<"zero", m.h0>>
sgslot(m) == <<"sign", m.h1>>
LenSlot(m, idx) == <<"length", m.hl, idx>>
MantSlot(m, n, idx) == <<"mantissa", IF m.c.bank THEN n ELSE 0, idx>>

NextMant(m, idx, b) ==
  IF idx < m.c.freeze THEN (2 * idx + b) % (2 * m.c.freeze) ELSE idx

(* Bit i of v, the lowest being bit nought.                                *)
BitAt(v, i) == (v \div 2 ^ i) % 2

(* The bits of v from `high' downwards, each with the slot Slot(idx) of    *)
(* the path above it.                                                      *)
Digits(v, high, Slot(_), Step(_, _)) ==
  FoldLeft(LAMBDA x, k : LET b == BitAt(v, high - k) IN
                         [idx |-> Step(x.idx, b),
                          bits |-> Append(x.bits, [slot |-> Slot(x.idx), bit |-> b])],
           [idx |-> 1, bits |-> <<>>], [k \in 1 .. high |-> k]).bits

Path(idx, b) == 2 * idx + b

(* A residue as sign and magnitude, if its model is signed.                *)
Signed(f) ==
  LET neg == f.m.c.sgn /\ f.r >= WordSize \div 2
  IN  [m |-> f.m, neg |-> IF neg THEN 1 ELSE 0, r |-> IF neg THEN Wrap(0 - f.r) ELSE f.r]

AfterSign(m, neg) == IF m.c.sgn THEN sgstep(m, neg) ELSE m

(* The bits of residue x, n bits long, s being the model after its sign.   *)
Residue(x, s, n) ==
  [bits |-> <<[slot |-> nzslot(x.m), bit |-> 1]>>
            \o (IF s.c.sgn THEN <<[slot |-> sgslot(x.m), bit |-> x.neg]>> ELSE <<>>)
            \o Digits(n, s.c.depth, LAMBDA i : LenSlot(s, i), Path)
            \o Digits(x.r, n, LAMBDA i : MantSlot(s, n, i), LAMBDA i, b : NextMant(s, i, b)),
   m |-> LenStep(s, n), fits |-> n < 2 ^ s.c.depth]

(* The bits of v, and the model after it; a length beyond the tree fails.  *)
mdl_enc(m, v) ==
  LET Of(x) == IF x.r = 0
                 THEN [bits |-> <<[slot |-> nzslot(x.m), bit |-> 0]>>, m |-> nzstep(x.m, 0),
                       fits |-> TRUE]
               ELSE Residue(x, AfterSign(nzstep(x.m, 1), x.neg), bitlen(x.r))
  IN  Of(Signed(fwd(m, v)))

(* A reader of coded bits: those left, and whether it asked aright so far. *)
Reader(bits) == [left |-> bits, ok |-> TRUE, bit |-> 0]

Asked(rd, slot) ==
  IF rd.ok /\ rd.left # <<>> /\ Head(rd.left).slot = slot
    THEN [left |-> Tail(rd.left), ok |-> TRUE, bit |-> Head(rd.left).bit]
    ELSE [rd EXCEPT !.ok = FALSE, !.bit = 0]

(* A number of `high' digits below `top', read along its path.             *)
ReadDigits(rd, top, high, Slot(_), Step(_, _)) ==
  FoldLeft(LAMBDA x, k : LET a == Asked(x.rd, Slot(x.idx)) IN
                         [idx |-> Step(x.idx, a.bit), v |-> 2 * x.v + a.bit, rd |-> a],
           [idx |-> 1, v |-> top, rd |-> rd], [k \in 1 .. high |-> k])

Back(x, rd) == [v |-> x.v, m |-> x.m, rd |-> rd]

(* The number after its nought (a bit of one) and its sign, and after its  *)
(* length.                                                                 *)
DecodedLength(s, len, neg) ==
  LET Of(r) == Back(inv(LenStep(s, len.v), IF neg = 1 THEN Wrap(0 - r.v) ELSE Wrap(r.v)), r.rd)
  IN  Of(ReadDigits(len.rd, 1, len.v, LAMBDA i : MantSlot(s, len.v, i),
                    LAMBDA i, b : NextMant(s, i, b)))

DecodedSign(m, sg) ==
  LET Of(s) == DecodedLength(s, ReadDigits(sg, 0, s.c.depth, LAMBDA i : LenSlot(s, i), Path), sg.bit)
  IN  Of(AfterSign(m, sg.bit))

mdl_dec(m, rd) ==
  LET Of(nz) == IF nz.bit = 0 THEN Back(inv(nzstep(m, 0), 0), nz)
                ELSE DecodedSign(nzstep(m, 1),
                                 IF m.c.sgn THEN Asked(nz, sgslot(m)) ELSE [nz EXCEPT !.bit = 0])
  IN  Of(Asked(rd, nzslot(m)))
=============================================================================
