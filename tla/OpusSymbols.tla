---------------------------- MODULE OpusSymbols -----------------------------
(***************************************************************************)
(* om_op of src/opusmode.c: how the packer codes the symbols of Opus       *)
(* frames with adaptive contexts of its own, and the unpacker gets them    *)
(* back.  As in the code, one set of operators does both: they work on a   *)
(* record x of all the state, and mode says which way.                     *)
(*                                                                         *)
(* The coder is kept as the steps it is asked for: fl to fh of ft, or a    *)
(* bit with its chance.  A decoder that asks for another ft or chance has  *)
(* lost the stream; one that asks aright is told a target from fl to fh-1, *)
(* any of them.  An op has what the walker of the frame tells om_op of a   *)
(* symbol, which is the same on both sides (OpusFrames).                   *)
(***************************************************************************)
EXTENDS Integers, SequencesExt

CONSTANTS
  Scale, Inc, Cap,    \* kparm: the weight of a prior, the step, the halving point
  Block,              \* 2^CB_SHIFT, the symbols of a block sum
  FirstSize,          \* the slots of the first table, 2^CHB0
  HashSize,           \* hashes are below this
  HashOf(_, _),       \* the hash of a key and a prior
  BinTag(_),          \* the part of a key that tags a slot of bits, and
  BinHash(_),         \* the slot where the search for it starts
  Bins,               \* NBIN
  Chance,             \* the chances of a bit are below this
  HeadBits,           \* the bits of a uniform value's head, 8
  RawBits,            \* the most bits that are coded at once, 16
  LapWindow,          \* LAPW
  LapWeight(_, _),    \* the frequency that lap_freq gives a value
  PvqN, PvqK, PvqBad, \* PVQ_UN, PVQ_UK and PVQ_UBAD
  PvqDepth,           \* pvq_lev
  PvqFrom,            \* the alphabet from which an index is split, 16
  ModelMax,           \* the largest alphabet with counts, 1024
  SymbolRuns          \* the sequences of ops that are coded

VARIABLES
  ops,    \* the symbols of the packets
  model,  \* the state of om_op: tables, histories, the steps coded
  got,    \* the values decoded
  doing   \* "pack", "unpack", "done", or how it failed

symVars == <<ops, model, got, doing>>

(* What the walker tells of a symbol has its kind and its value, and bits  *)
(* how many they are; the first table has two slots at least.              *)
IsOp(op) ==
  /\ {"kind", "v"} \subseteq DOMAIN op
  /\ op.kind \in {"icdf", "logp", "laplace", "theta", "uint", "bits"}
  /\ op.kind = "bits" => "nb" \in DOMAIN op /\ op.nb \in Nat

SymbolAssumption ==
  /\ FirstSize \in Nat /\ FirstSize >= 2 /\ HashSize \in Nat /\ HashSize > 0
  /\ RawBits \in Nat /\ RawBits > 0 /\ HeadBits \in Nat /\ PvqN \in Nat
  /\ \A r \in SymbolRuns : r \in Seq({r[i] : i \in DOMAIN r}) /\ \A i \in DOMAIN r : IsOp(r[i])

(* What counts are made of: the weight of a prior, the step, the block.    *)
CountAssumption == Scale \in Nat /\ Inc \in Nat /\ Block \in Nat /\ Block > 0

-----------------------------------------------------------------------------
(* Priors.                                                                 *)

(* The sum of s from number a to number b.                                 *)
Between(s, a, b) ==
  LET sum[i \in a - 1 .. b] == IF i < a THEN 0 ELSE sum[i - 1] + s[i] IN sum[b]

Added(s) == Between(s, 1, Len(s))

AtLeastOne(n) == IF n < 1 THEN 1 ELSE n

(* Frequencies of the codec scaled to `scale', none of them nought.        *)
pri_build(id, raw, ft, scale) ==
  LET Of(f) == [id |-> id, f |-> f, tot |-> Added(f)]
  IN  Of([i \in DOMAIN raw |-> AtLeastOne((raw[i] * scale + ft \div 2) \div ft)])

prior_icdf(raw) == pri_build(<<"icdf", raw>>, raw, Added(raw), Scale)

(* Values within the window, and last the escape for all others.           *)
prior_laplace(fs0, decay) ==
  pri_build(<<"laplace", fs0, decay>>,
            [i \in 1 .. 2 * LapWindow + 2 |->
               IF i = 2 * LapWindow + 2 THEN 1 ELSE LapWeight(fs0, i - 1 - LapWindow)], 16, Scale)

prior_theta(step, qn) ==
  pri_build(<<"theta", step, qn>>,
            [i \in 1 .. qn + 1 |-> IF step THEN IF i - 1 <= qn \div 2 THEN 3 ELSE 1
                                   ELSE IF i - 1 <= qn \div 2 THEN i ELSE qn + 2 - i],
            IF step THEN 3 * (qn \div 2 + 1) + qn \div 2 ELSE (qn \div 2 + 1) * (qn \div 2 + 1), Scale)

prior_uniform(n) == pri_build(<<"uniform", n>>, [i \in 1 .. n |-> 1], n, Scale)

-----------------------------------------------------------------------------
(* The context table: open addressing, at most half full.                  *)

BlockCount(n) == (n + Block - 1) \div Block

BlockOf(i) == (i - 1) \div Block + 1

BlockSums(f) ==
  [b \in 1 .. BlockCount(Len(f)) |->
     Between(f, (b - 1) * Block + 1, IF b * Block < Len(f) THEN b * Block ELSE Len(f))]

Empty == [used |-> FALSE]

NewContext(key, pr) ==
  [used |-> TRUE, key |-> key, pr |-> pr, f |-> pr.f, blk |-> BlockSums(pr.f), tot |-> 0]

TableSlots(size) == 0 .. size - 1

ctx_new(size) == [size |-> size, slot |-> [i \in TableSlots(size) |-> Empty], live |-> <<>>]

(* The upper bits of the hash, as many as the table has.                   *)
ctx_slot(size, key, pr) == (HashOf(key, pr) * size) \div HashSize

(* The first slot from i on, around the table, for which Stop holds.       *)
Probed(t, i, Stop(_)) ==
  LET at(n) == (i + n) % t.size
  IN  at(CHOOSE n \in TableSlots(t.size) :
           Stop(t.slot[at(n)]) /\ \A m \in 0 .. n - 1 : ~Stop(t.slot[at(m)]))

(* A table that grows by moving each entry to where its hash says.         *)
GrowUnprobed(t) ==
  FoldLeft(LAMBDA u, k : LET e == t.slot[t.live[k]] IN
             [u EXCEPT !.slot[ctx_slot(u.size, e.key, e.pr)] = e,
                       !.live = Append(@, ctx_slot(u.size, e.key, e.pr))],
           ctx_new(2 * t.size), [k \in DOMAIN t.live |-> k])

(* Where a context goes that is not in the table; where one is, or goes.   *)
FreeSlot(t, key, pr) == Probed(t, ctx_slot(t.size, key, pr), LAMBDA c : ~c.used)

Holds(c, key, pr) == c.used /\ c.key = key /\ c.pr = pr

SlotOf(t, key, pr) ==
  Probed(t, ctx_slot(t.size, key, pr), LAMBDA c : ~c.used \/ Holds(c, key, pr))

PutAt(t, i, c) == [t EXCEPT !.slot[i] = c, !.live = Append(@, i)]

(* The entries move, in the order they came, and so does the list of them. *)
ctx_grow(t) ==
  LET Move(u, e) == PutAt(u, FreeSlot(u, e.key, e.pr), e)
      grown[k \in 0 .. Len(t.live)] ==
        IF k = 0 THEN ctx_new(2 * t.size) ELSE Move(grown[k - 1], t.slot[t.live[k]])
  IN  grown[Len(t.live)]

Grown(t) == IF 2 * Len(t.live) >= t.size THEN ctx_grow(t) ELSE t

(* The table with the context in it, and where it is.                      *)
ctx_find(t, key, pr) ==
  LET Found(u, i) == [at |-> i, t |-> IF u.slot[i].used THEN u ELSE PutAt(u, i, NewContext(key, pr))]
      In(u) == Found(u, SlotOf(u, key, pr))
  IN  In(Grown(t))

-----------------------------------------------------------------------------
(* Steps of the coder.                                                     *)

Packing(x) == x.mode = "pack"

Lost(x) == [x EXCEPT !.mode = "lost"]
Fatal(x) == [x EXCEPT !.mode = "fatal"]

Step(fl, fh, ft) == [fl |-> fl, fh |-> fh, ft |-> ft]

p_cum(x, fl, fh, ft) ==
  IF fl < fh /\ fh <= ft THEN [x EXCEPT !.wire = Append(@, Step(fl, fh, ft))] ELSE Fatal(x)

(* What Read makes of the target, the same whatever target it is; the step *)
(* that Read finds must be the one that was coded.                         *)
Targeted(x, ft, Read(_), Bounds(_)) ==
  LET Of(st, v) == IF st.ft = ft /\ Read(st.fh - 1) = v /\ Bounds(v) = <<st.fl, st.fh>>
                     THEN [x EXCEPT !.wire = Tail(@), !.v = v] ELSE Lost(x)
  IN  IF x.wire = <<>> \/ x.mode # "unpack" \/ "fl" \notin DOMAIN Head(x.wire) THEN Lost(x)
      ELSE Of(Head(x.wire), Read(Head(x.wire).fl))

(* A value below ft, all alike.                                            *)
Flat(x, v, ft) ==
  IF Packing(x) THEN [p_cum(x, v, v + 1, ft) EXCEPT !.v = v]
  ELSE Targeted(x, ft, LAMBDA s : s, LAMBDA s : <<s, s + 1>>)

(* The low nbits of v, at most RawBits at a time from the top: `low' of    *)
(* them are left after a time.                                             *)
p_raw(x, v, nbits) ==
  LET times == (nbits + RawBits - 1) \div RawBits
      low(i) == IF i * RawBits < nbits THEN nbits - i * RawBits ELSE 0
      Joined(y, i, sofar) ==
        [Flat(y, (v \div 2 ^ low(i)) % 2 ^ (low(i - 1) - low(i)), 2 ^ (low(i - 1) - low(i)))
           EXCEPT !.v = sofar + @ * 2 ^ low(i)]
      y[i \in 0 .. times] == IF i = 0 THEN [x EXCEPT !.v = 0] ELSE Joined(y[i - 1], i, y[i - 1].v)
  IN  y[times]

(* The bits of a number of 32 at most; 2 * n is no more than 2 ^ n.        *)
ilog(v) == Cardinality({n \in 0 .. 31 : 2 * n <= v /\ 2 ^ n <= v})

(* A value below V: its head as one step, the rest raw.  The decoder keeps *)
(* it below V.                                                             *)
UniformSplit(x, v, t, low) ==
  LET Joined(y, hi) == [y EXCEPT !.v = IF hi * 2 ^ low + @ > t THEN t ELSE hi * 2 ^ low + @]
      Of(y) == Joined(p_raw(y, v % 2 ^ low, low), y.v)
  IN  Of(Flat(x, v \div 2 ^ low, t \div 2 ^ low + 1))

p_uniform(x, v, V) ==
  IF V <= 1 THEN [x EXCEPT !.v = 0]
  ELSE IF Packing(x) /\ v >= V THEN Fatal(x)
  ELSE IF ilog(V - 1) > HeadBits THEN UniformSplit(x, v, V - 1, ilog(V - 1) - HeadBits)
  ELSE Flat(x, v, V)

(* The symbol of a context that a target lies in: blocks are skipped, then *)
(* symbols; past the last it is the last.                                  *)
FirstOf(c, i) ==
  Between(c.blk, 1, BlockOf(i) - 1) + Between(c.f, (BlockOf(i) - 1) * Block + 1, i - 1)

Symbol(c, target) ==
  LET n == Len(c.f)
      skipped == {b \in 0 .. n \div Block : \A d \in 1 .. b : target >= Between(c.blk, 1, d)}
      from == Block * (CHOOSE b \in skipped : \A d \in skipped : d <= b)
      within == {i \in from + 1 .. n : target < Between(c.blk, 1, from \div Block)
                                                + Between(c.f, from + 1, i)}
  IN  IF within = {} THEN n ELSE CHOOSE i \in within : \A j \in within : i <= j

(* Halved counts whose block sums stay as they were.                       *)
CountedStale(c, i) ==
  LET Halved(d) == [d EXCEPT !.f = [j \in DOMAIN d.f |-> d.pr.f[j] + (d.f[j] - d.pr.f[j]) \div 2],
                             !.tot = @ \div 2]
      Of(d) == IF d.tot > Cap THEN Halved(d) ELSE d
  IN  Of([c EXCEPT !.f[i] = @ + Inc, !.blk[BlockOf(i)] = @ + Inc, !.tot = @ + Inc])

(* The counts after symbol i; halved when there are many, but for the prior.*)
Counted(c, i) ==
  LET Summed(d, f, add) == [d EXCEPT !.f = f, !.blk = BlockSums(f), !.tot = Added(add)]
      Halved(d) == Summed(d, [j \in DOMAIN d.f |-> d.pr.f[j] + (d.f[j] - d.pr.f[j]) \div 2],
                          [j \in DOMAIN d.f |-> (d.f[j] - d.pr.f[j]) \div 2])
      Of(d) == IF d.tot > Cap THEN Halved(d) ELSE d
  IN  Of([c EXCEPT !.f[i] = @ + Inc, !.blk[BlockOf(i)] = @ + Inc, !.tot = @ + Inc])

Clamp(v, n) == IF v < 0 THEN 0 ELSE IF v >= n THEN n - 1 ELSE v

(* Symbol v, counted from nought, in its context.                          *)
ctx_code(x, key, pr, v) ==
  LET Updated(y, a, c) == IF y.mode = x.mode
                         THEN [y EXCEPT !.ctxs = [a.t EXCEPT !.slot[a.at] = Counted(c, y.v + 1)]]
                       ELSE y
      In(a, c, t) == IF Packing(x)
                       THEN Updated([p_cum(x, FirstOf(c, t + 1), FirstOf(c, t + 1) + c.f[t + 1],
                                           pr.tot + c.tot) EXCEPT !.v = t], a, c)
                     ELSE Updated(Targeted(x, pr.tot + c.tot, LAMBDA s : Symbol(c, s) - 1,
                                           LAMBDA i : <<FirstOf(c, i + 1), FirstOf(c, i + 1) + c.f[i + 1]>>),
                                  a, c)
      Of(a) == In(a, a.t.slot[a.at], Clamp(v, Len(pr.f)))
  IN  IF x.mode \in {"pack", "unpack"} THEN Of(ctx_find(x.ctxs, key, pr)) ELSE x

(* A bit with the adaptive chance of its slot.                             *)
rc_adapt(p, bit) == IF bit = 1 THEN p - p \div 4 ELSE p + (Chance - p) \div 4

bin_slot(b, key) ==
  LET at(n) == (BinHash(key) + n) % Bins
      stops == {n \in 0 .. Bins - 1 : ~b[at(n)].used \/ b[at(n)].tag = BinTag(key)}
  IN  IF stops = {} THEN Bins ELSE at(CHOOSE n \in stops : \A m \in stops : n <= m)

(* The slots with one for the key.                                         *)
WithSlot(x, key, init) ==
  LET In(i) == IF i = Bins THEN Fatal(x)
               ELSE IF x.bins[i].used THEN x
               ELSE [x EXCEPT !.bins[i] = [used |-> TRUE, tag |-> BinTag(key), p |-> init]]
  IN  In(bin_slot(x.bins, key))

p_bit(x, i, p, bit) ==
  LET Adapted(y, b) == [y EXCEPT !.v = b, !.bins[i].p = rc_adapt(p, b)]
      Told(st) == IF st = [p |-> p, bit |-> st.bit] THEN Adapted([x EXCEPT !.wire = Tail(@)], st.bit)
                  ELSE Lost(x)
  IN  IF Packing(x) THEN Adapted([x EXCEPT !.wire = Append(@, [p |-> p, bit |-> bit])], bit)
      ELSE IF x.wire = <<>> \/ x.mode # "unpack" \/ "bit" \notin DOMAIN Head(x.wire) THEN Lost(x)
      ELSE Told(Head(x.wire))

SlotBit(x, i, bit) == IF x.mode \in {"pack", "unpack"} THEN p_bit(x, i, x.bins[i].p, bit) ELSE x

om_bit(x, key, init, bit) ==
  LET In(y) == SlotBit(y, bin_slot(y.bins, key), bit) IN In(WithSlot(x, key, init))

-----------------------------------------------------------------------------
(* Pulse vectors: y of n numbers whose magnitudes are k in all.            *)

(* U(n, k), row by row, so that there are V(n, k) of them.                 *)
NextRow(row) ==
  LET u[k \in 0 .. PvqK + 2] ==
        IF k = 0 THEN 0
        ELSE LET v == row[k + 1] + u[k - 1] + row[k] IN IF v >= PvqBad THEN PvqBad ELSE v
  IN  [k \in 1 .. PvqK + 3 |-> u[k - 1]]

pvq_ubuild ==
  LET First == [k \in 1 .. PvqK + 3 |-> IF k = 1 THEN 1 ELSE 0]
  IN  FoldLeft(LAMBDA rows, n : Append(rows, NextRow(Last(rows))), <<First>>, [n \in 1 .. PvqN |-> n])

PU(ut, n, k) == ut[n + 1][k + 1]

pvq_V(ut, n, k) ==
  IF n \notin 0 .. PvqN \/ k \notin 0 .. PvqK + 1 THEN PvqBad
  ELSE IF PvqBad \in {PU(ut, n, k), PU(ut, n, k + 1)} THEN PvqBad
  ELSE IF PU(ut, n, k) + PU(ut, n, k + 1) >= PvqBad THEN PvqBad
  ELSE PU(ut, n, k) + PU(ut, n, k + 1)

Mag(v) == IF v < 0 THEN -v ELSE v

(* Vector i of its kind: the first number is negative in the upper part of *)
(* the range, and the more is left for the others, the larger i is.        *)
pvq_dec(ut, n, k, i) ==
  LET Rest(a, m, left, j, neg) ==
        [k |-> left, i |-> j - PU(ut, m, left), y |-> Append(a.y, IF neg THEN left - a.k ELSE a.k - left)]
      In(a, m, j, neg) == Rest(a, m, CHOOSE left \in 0 .. a.k :
                                       /\ PU(ut, m, left) <= j
                                       /\ \A l \in left + 1 .. a.k : PU(ut, m, l) > j, j, neg)
      One(a, m) == IF a.i >= PU(ut, m, a.k + 1) THEN In(a, m, a.i - PU(ut, m, a.k + 1), TRUE)
                   ELSE In(a, m, a.i, FALSE)
      Last1(a) == Append(a.y, IF a.i = 0 THEN a.k ELSE -a.k)
  IN  IF k = 0 THEN [j \in 1 .. n |-> 0]
      ELSE Last1(FoldLeft(One, [k |-> k, i |-> i, y |-> <<>>], [j \in 1 .. n - 1 |-> n + 1 - j]))

(* The index of a vector, from its last number to its first.               *)
pvq_enc(ut, n, k, y) ==
  LET Taken(a, v, m) == [i |-> a.i + PU(ut, m, a.k) + (IF v < 0 THEN PU(ut, m, a.k + Mag(v) + 1) ELSE 0),
                         k |-> a.k + Mag(v)]
  IN  IF k = 0 THEN 0
      ELSE FoldLeft(LAMBDA a, j : Taken(a, y[n - j], j + 1),
                    [i |-> IF y[n] < 0 THEN 1 ELSE 0, k |-> Mag(y[n])], [j \in 1 .. n - 1 |-> j]).i

(* How the pulses of the whole fall on the first half.                     *)
prior_split(ut, n1, n2, k) ==
  pri_build(<<"split", n1, n2, k>>,
            [j \in 1 .. k + 1 |-> LET t == pvq_V(ut, n1, j - 1) * pvq_V(ut, n2, k - j + 1)
                                  IN  IF t >= PvqBad THEN PvqBad - 1 ELSE t],
            pvq_V(ut, n1 + n2, k), Scale)

Magnitudes(y) == Added([j \in DOMAIN y |-> Mag(y[j])])

Part(n, k, dep, y) == [n |-> n, k |-> k, dep |-> dep, y |-> y]

(* Parts below the last depth are coded by their index.                    *)
Leaf(p) == p.n < 2 \/ p.k = 0 \/ p.dep >= PvqDepth

LeafCoded(x, p) ==
  LET Decoded(z) == IF z.mode = x.mode THEN [z EXCEPT !.y = @ \o pvq_dec(x.ut, p.n, p.k, z.v)] ELSE z
  IN  Decoded(p_uniform(x, IF Packing(x) THEN pvq_enc(x.ut, p.n, p.k, p.y) ELSE 0, pvq_V(x.ut, p.n, p.k)))

SplitCoded(x, p, band) ==
  ctx_code(x, <<"halves", p.dep, band>>, prior_split(x.ut, p.n \div 2, p.n - p.n \div 2, p.k),
           IF Packing(x) THEN Magnitudes(SubSeq(p.y, 1, p.n \div 2)) ELSE 0)

HalvesOf(p, k1) ==
  LET half == p.n \div 2
  IN  <<Part(half, k1, p.dep + 1, SubSeq(p.y, 1, half)),
        Part(p.n - half, p.k - k1, p.dep + 1, SubSeq(p.y, half + 1, p.n))>>

(* A vector by halves, how many pulses the first has and then both: what   *)
(* is left to code is a list of parts, of which the first is next.  There  *)
(* are fewer than 2 * n parts.                                             *)
pvq_tree(x, band, n, k, y) ==
  LET Walk(z, todo) == [x |-> z, todo |-> todo]
      Split(z, p, todo) == Walk(z, HalvesOf(p, z.v) \o todo)
      Of(z, p, todo) == IF Leaf(p) THEN Walk(LeafCoded(z, p), todo) ELSE Split(SplitCoded(z, p, band), p, todo)
      Next(w) == IF w.todo = <<>> \/ w.x.mode # x.mode THEN w ELSE Of(w.x, Head(w.todo), Tail(w.todo))
      walk[i \in 0 .. 2 * n] == IF i = 0 THEN Walk([x EXCEPT !.y = <<>>], <<Part(n, k, 0, y)>>)
                                ELSE Next(walk[i - 1])
  IN  walk[2 * n].x

-----------------------------------------------------------------------------
(* The kinds of symbols.                                                   *)

(* Histories, by band and channel; one that is not set has no band.        *)
NoBand == -1

om_init(mode) ==
  [mode |-> mode, done |-> 0, v |-> 0, y |-> <<>>, wire |-> <<>>, ctxs |-> ctx_new(FirstSize),
   bins |-> [i \in 0 .. Bins - 1 |-> [used |-> FALSE, tag |-> 0, p |-> 0]],
   ut |-> pvq_ubuild, site |-> <<>>, qi |-> <<>>, bandqi |-> <<0, 0>>, c0qi |-> <<NoBand, 0>>,
   theta |-> <<>>, fine |-> <<>>, c0fine |-> <<NoBand, 0, 0>>, pvq |-> <<>>, k |-> 0, n |-> 0]

(* A history kept for a key, nought before it is set.                      *)
HistoryOf(f, key) == IF key \in DOMAIN f THEN f[key] ELSE 0

Set(f, key, v) == [q \in DOMAIN f \cup {key} |-> IF q = key THEN v ELSE f[q]]

q5of(v) == IF v < -1 THEN 0 ELSE IF v > 1 THEN 4 ELSE v + 2
bktN(n) == Cardinality({t \in {2, 4, 8, 16, 32, 64, 128} : n > t})
bktK(k) == Cardinality({t \in {1, 3, 6, 12, 24, 48, 96} : k >= t})

om_icdf(x, op) ==
  LET Kept(z) == [z EXCEPT !.site = Set(@, op.site, IF z.v > 7 THEN 7 ELSE z.v)]
  IN  Kept(ctx_code(x, <<"icdf", op.table, op.site, HistoryOf(x.site, op.site)>>, prior_icdf(op.table), op.v))

om_logp(x, op) ==
  LET Kept(z) == [z EXCEPT !.site = Set(@, op.site, (2 * HistoryOf(x.site, op.site) + z.v) % 4)]
  IN  Kept(om_bit(x, <<"logp", op.site, op.logp, HistoryOf(x.site, op.site)>>,
                  Chance - 1 - (Chance \div 2 ^ op.logp), op.v))

(* The escape is followed by the sign and the magnitude.                   *)
om_laplace(x, op) ==
  LET last == 2 * LapWindow + 1
      key == <<"laplace", op.b, op.c, op.intra, op.LM, q5of(HistoryOf(x.qi, <<op.b, op.c>>)),
               q5of(x.bandqi[op.c + 1]),
               IF op.c = 1 /\ x.c0qi[1] = op.b THEN 1 + q5of(x.c0qi[2]) ELSE 0>>
      sym == IF op.v + LapWindow \in 0 .. last - 1 THEN op.v + LapWindow ELSE last
      Kept(z) == [z EXCEPT !.qi = Set(@, <<op.b, op.c>>, z.v), !.bandqi[op.c + 1] = z.v,
                           !.c0qi = IF op.c = 0 THEN <<op.b, z.v>> ELSE @]
      Negated(z, sg) == [z EXCEPT !.v = IF sg = 1 THEN -@ ELSE @]
      Signed(z) == Negated(p_uniform(z, Mag(op.v), 2 ^ RawBits), z.v)
      Escaped(z) == IF z.v = last THEN Signed(om_bit(z, <<"escape">>, Chance \div 2,
                                                     IF op.v < 0 THEN 1 ELSE 0))
                    ELSE [z EXCEPT !.v = @ - LapWindow]
  IN  Kept(Escaped(ctx_code(x, key, prior_laplace(op.fs0, op.decay), sym)))

om_theta(x, op) ==
  LET qn == AtLeastOne(op.qn)
      Kept(z) == [z EXCEPT !.theta = Set(@, op.b, (z.v * 8) \div (qn + 1))]
  IN  Kept(ctx_code(x, <<"theta", op.b, op.step, bktN(op.n), qn, HistoryOf(x.theta, op.b) % 8>>,
                    prior_theta(op.step, qn), op.v))

(* An index of pulses: whether it is the last one again; if not, by halves *)
(* where its geometry is that of the alphabet, or else flat without the    *)
(* last one.                                                               *)
Geometry(x, V) == x.n \in 1 .. PvqN /\ x.k \in 1 .. PvqK /\ V = pvq_V(x.ut, x.n, x.k)

WithoutLast(v, last) == IF v > last THEN v - 1 ELSE v

om_pulses(x, op) ==
  LET g == <<op.b, bktN(x.n), bktK(x.k)>>
      known == g \in DOMAIN x.pvq
      last == IF known THEN x.pvq[g].v ELSE 0
      again == known /\ x.pvq[g].V = op.V
      key == <<"again">> \o g
      Kept(z) == [z EXCEPT !.pvq = Set(@, g, [v |-> z.v, V |-> op.V]), !.k = 0]
      Indexed(z) == IF z.mode = x.mode THEN [z EXCEPT !.v = pvq_enc(x.ut, x.n, x.k, z.y)] ELSE z
      Shifted(z) == IF again /\ ~Packing(x) /\ z.v >= last THEN [z EXCEPT !.v = @ + 1]
                    ELSE IF Packing(x) THEN [z EXCEPT !.v = op.v] ELSE z
      Whole(z) == IF Geometry(x, op.V)
                    THEN Indexed(pvq_tree(z, op.b, x.n, x.k,
                                          IF Packing(x) THEN pvq_dec(x.ut, x.n, x.k, op.v)
                                          ELSE [j \in 1 .. x.n |-> 0]))
                  ELSE Shifted(p_uniform(z, IF again THEN WithoutLast(op.v, last) ELSE op.v,
                                         IF again THEN op.V - 1 ELSE op.V))
      Repeats(z) == IF z.v = 1 THEN [z EXCEPT !.v = last, !.k = 0] ELSE Kept(Whole(z))
      Told(z) == IF ~again THEN Kept(Whole(z))
                 ELSE Repeats(SlotBit(z, bin_slot(z.bins, key), IF op.v = last THEN 1 ELSE 0))
  IN  Told(WithSlot(x, key, Chance - 2))

om_uint(x, op) ==
  IF x.k > 0 /\ op.V > PvqFrom THEN om_pulses(x, op)
  ELSE IF op.V <= ModelMax THEN ctx_code(x, <<"uint", op.site, op.V>>, prior_uniform(op.V), op.v)
  ELSE p_uniform(x, op.v, op.V)

(* Bits of the fine energy have contexts, others do not.                   *)
om_bits(x, op) ==
  LET Kept(z) == [z EXCEPT !.fine = Set(@, <<op.b, op.c>>, z.v),
                           !.c0fine = IF op.c = 0 THEN <<op.b, op.nb, z.v>> ELSE @]
      other == IF op.c = 1 /\ x.c0fine[1] = op.b /\ x.c0fine[2] = op.nb
                 THEN 1 + (x.c0fine[3] * 5) \div 2 ^ op.nb ELSE 0
  IN  IF op.fine THEN Kept(ctx_code(x, <<"bits", op.b, op.c, op.nb, HistoryOf(x.fine, <<op.b, op.c>>), other>>,
                                    prior_uniform(2 ^ op.nb), op.v))
      ELSE p_raw(x, op.v, op.nb)

(* The walker says how many pulses a band has before it asks for an index. *)
WithPulses(x, op) == IF "pulses" \in DOMAIN op THEN [x EXCEPT !.n = op.pulses[1], !.k = op.pulses[2]] ELSE x

om_op(x, op) ==
  CASE op.kind = "icdf" -> om_icdf(x, op)
    [] op.kind = "logp" -> om_logp(x, op)
    [] op.kind = "laplace" -> om_laplace(x, op)
    [] op.kind = "theta" -> om_theta(x, op)
    [] op.kind = "uint" -> om_uint(WithPulses(x, op), op)
    [] op.kind = "bits" -> om_bits(x, op)

-----------------------------------------------------------------------------
(* Packing all symbols, and then unpacking them from the steps.            *)

SymbolInit ==
  /\ ops \in SymbolRuns
  /\ model = om_init("pack") /\ got = <<>> /\ doing = "pack"

Pack ==
  /\ doing = "pack" /\ model.done < Len(ops)
  /\ \E x \in {om_op(model, ops[model.done + 1])} :
       /\ model' = [x EXCEPT !.done = @ + 1]
       /\ doing' = x.mode
  /\ UNCHANGED <<ops, got>>

Turn ==
  /\ doing = "pack" /\ model.done = Len(ops)
  /\ model' = [om_init("unpack") EXCEPT !.wire = model.wire]
  /\ doing' = "unpack"
  /\ UNCHANGED <<ops, got>>

(* What an op has besides its value.                                       *)
Asked(op) == [op EXCEPT !.v = 0]

Unpack ==
  /\ doing = "unpack" /\ model.done < Len(ops)
  /\ \E x \in {om_op(model, Asked(ops[model.done + 1]))} :
       /\ model' = [x EXCEPT !.done = @ + 1]
       /\ got' = Append(got, x.v)
       /\ doing' = x.mode
  /\ UNCHANGED ops

SymbolNext == Pack \/ Turn \/ Unpack

SymbolSpec == SymbolInit /\ [][SymbolNext]_symVars

-----------------------------------------------------------------------------
(* The unpacker gets every symbol of every kind back, whatever was coded   *)
(* before it: with escapes, indices that repeat, alphabets that are split  *)
(* and counts that are halved (om_op, ctx_code, pvq_tree); and no value is *)
(* outside its alphabet.                                                   *)
SymbolsComeBack ==
  /\ doing \notin {"lost", "fatal"}
  /\ \A i \in DOMAIN got : got[i] = ops[i].v

(* The context table is a map whatever collides in it and however often it *)
(* has grown: a context is in it once and found where it is, the list of   *)
(* live slots names each of them once, and there is room to end a search   *)
(* (ctx_find, ctx_grow).                                                   *)
TableIsMap ==
  LET t == model.ctxs
      used == {i \in TableSlots(t.size) : t.slot[i].used}
  IN  /\ used = {t.live[j] : j \in DOMAIN t.live} /\ Cardinality(used) = Len(t.live)
      /\ Cardinality(used) < t.size
      /\ \A i \in used : SlotOf(t, t.slot[i].key, t.slot[i].pr) = i
=============================================================================
