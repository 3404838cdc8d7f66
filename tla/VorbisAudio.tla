----------------------------- MODULE VorbisAudio -----------------------------
(***************************************************************************)
(* Audio packets of src/vorbis.c.  The packer first probes a packet for    *)
(* its type, and keeps the entries that it reads; then it codes the values *)
(* of the packet, from the entries kept if they all were, and whatever the *)
(* syntax does not account for as plain bits.  The unpacker runs the same  *)
(* functions and writes the packet that the values would be written as.    *)
(*                                                                         *)
(* A packet is a sequence of bits.  What is coded is kept as symbols, with *)
(* the contexts that earlier values make; which tables a digit or a floor  *)
(* value goes on from is left out, and so is what the mixer makes of it.   *)
(***************************************************************************)
EXTENDS Codebooks

CONSTANTS
  ByteBits,     \* the bits of a byte, 8
  MagBits,      \* AR_MAGB, the bits of a floor value and of a digit but its first, 8
  MaxIndex,     \* AR_MAXIDX, residues are coded below this, 8192
  MaxSymbols,   \* the most entries kept of a packet, 65536
  Passes,       \* the passes over a residue, 8
  NPart,        \* AR_NPART, the partitions that have contexts of their own
  Setups,       \* the setups that headers give
  PacketsOf(_)  \* the packets tried with a setup: all that may be the first, the second ...

VARIABLES
  given,    \* the setup as its header gives it
  v,        \* vb_ctx: the books, and the histories of packer and unpacker
  pkt,      \* the packet, cont, whether its page goes on with one, and its number
  io,       \* the cursor: side, position, entries kept, symbols, bits written
  work,     \* what is still to do with the packet, the next thing first
  step      \* "header", "next", "code", "done", "refused" or "lost"

audioVars == <<given, v, pkt, io, work, step>>

-----------------------------------------------------------------------------
(* Bits and symbols.  An operation changes z and leaves its value in r; it *)
(* is left alone when the packet has turned out to end early, or failed.   *)

Fresh(side, ctx, wire) ==
  [side |-> side, st |-> "ok", raw |-> FALSE, choices |-> FALSE, pos |-> 0, out |-> <<>>, wire |-> wire, r |-> 0,
   symbols |-> <<>>, symfull |-> FALSE, replay |-> FALSE, symbol |-> 0, v |-> ctx, type |-> 0, md |-> 0,
   u |-> 0, y |-> <<>>, classes |-> <<>>, nz |-> <<>>, w |-> <<0, 0>>, cl |-> <<>>, e |-> 0]

Going(z) == z.st = "ok" /\ ~z.raw
Fatal(z) == [z EXCEPT !.st = "fatal"]
Lost(z) == [z EXCEPT !.st = "lost"]
Each(z, s, Op(_, _)) == FoldLeft(LAMBDA x, i : IF Going(x) THEN Op(x, i) ELSE x, z, s)
Then(z, Op(_)) == Each(z, <<1>>, LAMBDA x, i : Op(x))
UpTo(k) == [i \in 1 .. k |-> i]

Reads(z) == z.side # "unpack"

Left(z) == Len(pkt.bits) - z.pos

bget(z, n) ==
  IF n > Left(z) THEN IF z.side = "probe" THEN [z EXCEPT !.raw = TRUE] ELSE Fatal(z)
  ELSE LET sum[i \in 0 .. n] == IF i = 0 THEN 0 ELSE sum[i - 1] + pkt.bits[z.pos + i] * 2 ^ (i - 1)
       IN  [z EXCEPT !.r = sum[n], !.pos = @ + n]

Written(z, bits) ==
  IF Len(bits) > Left(z) THEN Fatal(z) ELSE [z EXCEPT !.out = @ \o bits, !.pos = @ + Len(bits)]

bput(z, n, val) == Written(z, [i \in 1 .. n |-> (val \div 2 ^ (i - 1)) % 2])

(* The bits of a field, read if there is something to read.                *)
Asked(z, n) == IF Reads(z) THEN bget(z, n) ELSE z
Answered(z, n) == IF Reads(z) THEN z ELSE bput(z, n, z.r)

(* A value coded in a context: what the packer put, the unpacker must ask  *)
(* for in the same one.                                                    *)
coded(z, ctx, val) ==
  CASE z.side = "probe" -> z
    [] z.side = "pack"  -> [z EXCEPT !.wire = Append(@, [ctx |-> ctx, v |-> val]), !.r = val]
    [] z.side = "unpack" ->
         IF z.wire # <<>> /\ Head(z.wire).ctx = ctx THEN [z EXCEPT !.r = Head(z.wire).v, !.wire = Tail(@)]
         ELSE Lost(z)

-----------------------------------------------------------------------------
(* Codewords.                                                              *)

bk(i) == v.books[i]

Kept(z, e) ==
  IF z.side # "probe" \/ z.symfull THEN [z EXCEPT !.r = e]
  ELSE IF Len(z.symbols) = MaxSymbols THEN [z EXCEPT !.r = e, !.symfull = TRUE]
  ELSE [z EXCEPT !.r = e, !.symbols = Append(@, e)]

(* The entry at a node that is not gone on from.                           *)
Found(z, b, node) == IF LeafAt(b, node) < 0 THEN Fatal(z) ELSE Kept(z, LeafAt(b, node))

(* One bit after the other, from a node of the tree on.                    *)
Slowly(z, b, node) ==
  LET ahead == SubSeq(pkt.bits, z.pos + 1, Len(pkt.bits))
      k == Walk(b, node, ahead)
      end == node \o SubSeq(ahead, 1, k)
      Over(x) == IF x.side = "probe" THEN [x EXCEPT !.raw = TRUE] ELSE Fatal(x)
  IN  IF end \in Interior(b) THEN Over([z EXCEPT !.pos = Len(pkt.bits)])
      ELSE Found([z EXCEPT !.pos = @ + k], b, end)

(* With as many bits left as the table asks for, it says how many belong.  *)
Fast(z, b) ==
  LET bits == SubSeq(pkt.bits, z.pos + 1, z.pos + FastBits)
      k == Walk(b, <<>>, bits)
      end == SubSeq(bits, 1, k)
      Of(x) == IF end \in Interior(b) THEN Slowly(x, b, end) ELSE Found(x, b, end)
  IN  Of([z EXCEPT !.pos = @ + k])

Replayed(z, b) ==
  LET e == z.symbols[z.symbol + 1]
  IN  [z EXCEPT !.r = e, !.symbol = @ + 1, !.pos = @ + b.len[e + 1]]

bk_get(z, b) ==
  IF z.replay THEN Replayed(z, b)
  ELSE IF Left(z) >= FastBits THEN Fast(z, b)
  ELSE Slowly(z, b, <<>>)

bk_put(z, b, e) == IF e \notin Used(b.len) THEN Fatal(z) ELSE Written(z, WordOf(b, e))

-----------------------------------------------------------------------------
(* What there is to do, one thing after the other.                         *)

Job(kind) == [kind |-> kind]
Job1(kind, i) == [kind |-> kind, i |-> i]
Jobs(kind, k) == [i \in 1 .. k |-> Job1(kind, i)]

Doing(kind) == step = "code" /\ work # <<>> /\ Head(work).kind = kind
Here == Head(work)

(* What is left to do after the job in hand has become `rest'; nothing in  *)
(* a packet that ends early or failed.                                     *)
Became(z, rest) ==
  /\ io' = z /\ work' = IF Going(z) THEN rest \o Tail(work) ELSE <<>>
  /\ UNCHANGED <<given, v, pkt, step>>

-----------------------------------------------------------------------------
(* The head of a packet.  The mode is coded with the last mode, the last   *)
(* window's flag and cont; each window flag with the history of the other. *)

nmd == Len(given.modes)
Depth == ilog(nmd - 1)

Mode(z) == given.modes[z.md + 1]
Map(z) == given.mp[Mode(z).map]

(* What follows the mode: windows, floors of all channels, residues of all *)
(* submaps, and the end.                                                   *)
Body(z) ==
  (IF Mode(z).blockflag = 1 THEN Jobs("window", 2) ELSE <<>>)
  \o Jobs(IF z.side = "unpack" THEN "used" ELSE "floor", given.ch)
  \o <<Job("couple")>> \o Jobs("residue", Len(Map(z).fl)) \o <<Job("end")>>

Bank(z) == <<pkt.cont, z.v.pm % 2, z.v.pw[2]>>

(* What the next packet is to know, once the window flags are coded; a     *)
(* probe leaves no trace of itself.                                        *)
Windowed(z) == IF z.side = "probe" THEN z ELSE [z EXCEPT !.v.pm = z.md, !.v.pw = z.w]

audio_mode ==
  LET Flag(z) == IF z.r = 0 THEN z ELSE Fatal(z)
      Set(z) == IF Mode(z).blockflag = 1 THEN z ELSE Windowed(z)
      Moded(z) == IF z.r >= nmd THEN Fatal(z) ELSE Set([z EXCEPT !.md = z.r, !.nz = <<>>])
      Read(z) == Then(IF Reads(z) THEN Then(bget(z, 1), Flag) ELSE bput(z, 1, 0), LAMBDA x : Asked(x, Depth))
      Told(z) == Then(coded(z, <<"mode", Bank(z)>>, z.r), LAMBDA x : Answered(x, Depth))
  IN  /\ Doing("mode")
      /\ \E x \in {Read(io)} : \E y \in {Then(Then(x, Told), Moded)} :
           Became(y, IF Going(y) THEN Body(y) ELSE <<>>)

audio_window ==
  LET i == Here.i
      Told(z) == Then(coded(z, <<"window", i, z.v.pw[3 - i]>>, z.r), LAMBDA x : Answered(x, 1))
      Flag(z) == IF i = 2 THEN Windowed([z EXCEPT !.w[2] = z.r]) ELSE [z EXCEPT !.w[i] = z.r]
  IN  /\ Doing("window")
      /\ \E x \in {Asked(io, 1)} : \E y \in {Then(Then(x, Told), Flag)} : Became(y, <<>>)

-----------------------------------------------------------------------------
(* Floors.                                                                 *)

Floor(k) == given.fl[Map(io).fl[Map(io).mux[k]]]

PostsOf(f) == 2 + FoldLeft(LAMBDA s, c : s + f.cdim[c], 0, f.pcls)
From(f, i) == 2 + FoldLeft(LAMBDA s, c : s + f.cdim[c], 0, SubSeq(f.pcls, 1, i - 1))

Cut(val, k, s) == (val \div 2 ^ (k * s)) % 2 ^ s

Entries(b) == IF b = 0 THEN 1 ELSE Len(bk(b).len)

(* Whether a value could have been written with an earlier class, which    *)
(* the unpacker would take.                                                *)
Earlier(f, c, d, y) == \E j \in 0 .. d - 1 : y < Entries(f.csb[c][j + 1])

FloorJob(kind, k, i) == [kind |-> kind, k |-> k, i |-> i]
FloorJobs(kind, k, n) == [i \in 1 .. n |-> FloorJob(kind, k, i)]

(* fl_get: the flag, the two posts at the ends, and each partition.        *)
fl_get ==
  LET k == Here.i
      f == Floor(k)
      Curve(z) == [z EXCEPT !.u = z.r, !.y = <<>>, !.classes = <<>>]
      Rest(z) ==
        (IF z.u = 1 THEN FloorJobs("post", k, 2) \o FloorJobs("partition", k, Len(f.pcls)) ELSE <<>>)
        \o <<IF z.side = "probe" THEN Job1("noted", k) ELSE Job1("used", k)>>
  IN  /\ Doing("floor")
      /\ \E x \in {Then(bget(io, 1), Curve)} : Became(x, Rest(x))

fl_get_post ==
  /\ Doing("post")
  /\ \E x \in {bget(io, Floor(Here.k).bits)} : Became([x EXCEPT !.y = Append(@, x.r)], <<>>)

fl_get_partition ==
  LET f == Floor(Here.k)
      c == f.pcls[Here.i]
      d(z, k) == Cut(z.e, k, f.csub[c])
      Value(z, k) == IF f.csb[c][d(z, k) + 1] = 0 THEN [z EXCEPT !.r = 0] ELSE bk_get(z, bk(f.csb[c][d(z, k) + 1]))
      Valued(z, k) ==
        Then(Value(z, k), LAMBDA x : [x EXCEPT !.y = Append(@, x.r), !.choices = @ \/ Earlier(f, c, d(x, k), x.r)])
      Classed(z) ==
        [z EXCEPT !.e = z.r, !.classes = Append(@, z.r), !.choices = @ \/ z.r >= 2 ^ (f.csub[c] * f.cdim[c])]
  IN  /\ Doing("partition")
      /\ \E x \in {IF f.csub[c] = 0 THEN [io EXCEPT !.r = 0] ELSE bk_get(io, bk(f.cbook[c]))} :
           IF Going(x)
             THEN \E y \in {Each(Classed(x), UpTo(f.cdim[c]), LAMBDA w, k : Valued(w, k - 1))} : Became(y, <<>>)
           ELSE Became(x, <<>>)

(* A probe only notes which channels have floors.                          *)
fl_probed ==
  /\ Doing("noted")
  /\ Became([io EXCEPT !.nz = Append(@, io.u)], <<>>)

(* Whether a channel has a floor, then its values in the order of their    *)
(* places, then the floor is written; the packer only sees to it when it   *)
(* has made choices.                                                       *)
fl_used ==
  LET k == Here.i
      f == Floor(k)
      Known(z) == [z EXCEPT !.u = z.r, !.nz = Append(@, z.r), !.v.hu = (2 * @ + z.r) % 4]
      Noted(z) == IF Reads(z) THEN Known(z) ELSE Known([z EXCEPT !.y = [p \in 1 .. PostsOf(f) |-> 0]])
      Values == [i \in DOMAIN f.srt |-> FloorJob("value", k, f.srt[i])]
      Put(z) == IF Reads(z) /\ ~z.choices THEN <<>> ELSE <<Job1("put", k)>>
  IN  /\ Doing("used")
      /\ \E x \in {Then(coded(io, <<"used", io.v.hu>>, io.u), Noted)} :
           Became(x, (IF x.u = 1 THEN Values ELSE <<>>) \o Put(x))

fl_val ==
  LET p == Here.i
      val == IF Reads(io) THEN io.y[p] ELSE 0
      Known(z) == [z EXCEPT !.y[p] = z.r]
  IN  /\ Doing("value")
      /\ \E x \in {IF val >= 2 ^ MagBits THEN Fatal(io)
                   ELSE Then(coded(io, <<"floor", Map(io).fl[Map(io).mux[Here.k]], p>>, val), Known)} : Became(x, <<>>)

(* fl_put: the flag and the posts at the ends, and each partition.         *)
fl_put ==
  LET k == Here.i
      f == Floor(k)
      Post(z, p) == IF z.y[p] >= 2 ^ f.bits THEN Fatal(z) ELSE IF Reads(z) THEN z ELSE bput(z, f.bits, z.y[p])
      Flag(z) == IF Reads(z) THEN z ELSE bput(z, 1, z.u)
  IN  /\ Doing("put")
      /\ \E x \in {Each(Flag(io), IF io.u = 1 THEN <<1, 2>> ELSE <<>>, Post)} :
           Became(x, IF io.u = 1 THEN FloorJobs("choose", k, Len(f.pcls)) ELSE <<>>)

(* The first class whose book has the value.                               *)
Fits(f, c, y) == \E j \in 0 .. 2 ^ f.csub[c] - 1 : y < Entries(f.csb[c][j + 1])

FirstFit(f, c, y) == CHOOSE j \in 0 .. 2 ^ f.csub[c] - 1 : y < Entries(f.csb[c][j + 1]) /\ ~Earlier(f, c, j, y)

(* The first choice of each value as it stands.                            *)
NotChosen(z, i, cv) == [z EXCEPT !.r = cv]

(* Where another choice has been made, what is to be added to the first.   *)
Chosen(z, i, cv) ==
  IF z.choices
    THEN Then(coded(z, "class", (IF Reads(z) THEN z.classes[i] ELSE 0) - cv), LAMBDA x : [x EXCEPT !.r = @ + cv])
  ELSE [z EXCEPT !.r = cv]

fl_put_partition ==
  LET f == Floor(Here.k)
      c == f.pcls[Here.i]
      y == SubSeq(io.y, From(f, Here.i) + 1, From(f, Here.i) + f.cdim[c])
      cv == FoldLeft(LAMBDA s, k : s + FirstFit(f, c, y[k]) * 2 ^ ((k - 1) * f.csub[c]), 0, UpTo(f.cdim[c]))
      Classword(z) ==
        IF f.csub[c] = 0 THEN [z EXCEPT !.r = 0]
        ELSE IF \E k \in DOMAIN y : ~Fits(f, c, y[k]) THEN Fatal(z)
        ELSE Chosen(z, Here.i, cv)
      Book(z, k) == f.csb[c][Cut(z.e, k - 1, f.csub[c]) + 1]
      Word1(z) == IF f.csub[c] = 0 THEN z ELSE bk_put(z, bk(f.cbook[c]), z.e)
      Put(z) == Each(Word1(z), UpTo(f.cdim[c]), LAMBDA x, k : IF Book(x, k) = 0 THEN x ELSE bk_put(x, bk(Book(x, k)), y[k]))
  IN  /\ Doing("choose")
      /\ \E x \in {Then(Classword(io), LAMBDA z : [z EXCEPT !.e = z.r])} :
           IF Going(x) /\ ~Reads(x) THEN \E w \in {Put(x)} : Became(w, <<>>) ELSE Became(x, <<>>)

-----------------------------------------------------------------------------
(* Residues.  A coupled channel has one if the other has.                  *)

Coupled(nz, steps) ==
  FoldLeft(LAMBDA u, s : IF u[s[1]] = 1 \/ u[s[2]] = 1 THEN [u EXCEPT ![s[1]] = 1, ![s[2]] = 1] ELSE u, nz, steps)

coupling ==
  /\ Doing("couple")
  /\ Became([io EXCEPT !.nz = Coupled(@, Map(io).steps)], <<>>)

WordJob(rno, j, pc) == [kind |-> "word", rno |-> rno, j |-> j, pc |-> pc]
PartJob(rno, i, j, pc, il) == [kind |-> "part", rno |-> rno, i |-> i, j |-> j, pc |-> pc, il |-> il]

(* Pass by pass, partition by partition and vector by vector; in the first *)
(* pass a word of classes comes before as many partitions as it has.       *)
Order(rno, vch, np, pv, il) ==
  LET Vectors(J(_)) == [j \in 1 .. vch |-> J(j)]
      Words(i, pc) == IF i = 1 /\ pc % pv = 0 THEN Vectors(LAMBDA j : WordJob(rno, j, pc)) ELSE <<>>
      At(i, pc) == Words(i, pc) \o Vectors(LAMBDA j : PartJob(rno, i, j, pc + 1, il))
  IN  FlattenSeq([i \in 1 .. Passes |-> FlattenSeq([pc \in 1 .. np |-> At(i, pc - 1)])])

(* The partitions of a residue that n values of each of nch channels have. *)
Partitions(r, n, nch) ==
  LET end == Min({r.end, IF r.type = 2 THEN n * nch ELSE n})
  IN  IF end <= r.beg THEN 0 ELSE (end - r.beg) \div r.psz

residue ==
  LET i == Here.i
      rno == Map(io).rs[i]
      r == given.rs[rno]
      sub == SelectSeq(UpTo(given.ch), LAMBDA k : Map(io).mux[k] = i)
      nc == Len(SelectSeq(sub, LAMBDA k : io.nz[k] = 1))
      vch == IF r.type = 2 THEN 1 ELSE nc
      np == IF nc = 0 THEN 0 ELSE Partitions(r, given.half[Mode(io).blockflag + 1], Len(sub))
      il == IF r.type = 2 THEN Len(sub) ELSE 0
      pv == bk(r.cbook).dim
  IN  /\ Doing("residue")
      /\ IF np = 0 THEN Became(io, <<>>)
         ELSE Became([io EXCEPT !.cl = [j \in 1 .. vch |-> [p \in 1 .. np + pv |-> 0]]], Order(rno, vch, np, pv, il))

(* A word with no more digits than the classes say.                        *)
SplitsWhole(cw, r, pv) == cw < r.ncl ^ pv

(* The class that a partition had in the packet before.                    *)
Key(rno, j, p) == <<rno % 4, j, IF p > NPart THEN NPart ELSE p>>
Before(z, key) == IF key \in DOMAIN z.v.clsm THEN z.v.clsm[key] ELSE 0

(* The word of the classes of as many partitions as its book has           *)
(* dimensions, the first the highest.                                      *)
Split(z, r, j, pc) ==
  LET pv == bk(r.cbook).dim
      Digits(p) == (z.r \div r.ncl ^ (pc + pv - p)) % r.ncl
  IN  IF SplitsWhole(z.r, r, pv)
        THEN [z EXCEPT !.cl[j] = [p \in DOMAIN @ |-> IF p \in pc + 1 .. pc + pv THEN Digits(p) ELSE @[p]]]
      ELSE Fatal(z)

rs_cls(z, key, j, p) ==
  Then(coded(z, <<"class", key, Before(z, key)>>, IF Reads(z) THEN z.cl[j][p] ELSE 0),
       LAMBDA x : [x EXCEPT !.cl[j][p] = x.r, !.v.clsm = (key :> x.r) @@ @])

Classes(z, rno, j, pc, pv) == Each(z, UpTo(pv), LAMBDA x, k : rs_cls(x, Key(rno, j, pc + k), j, pc + k))

residue_word ==
  LET r == given.rs[Here.rno]
      b == bk(r.cbook)
      cw(z) == FoldLeft(LAMBDA s, k : s * r.ncl + z.cl[Here.j][Here.pc + k], 0, UpTo(b.dim))
      Coded(z) == IF z.side = "probe" THEN z ELSE Classes(z, Here.rno, Here.j, Here.pc, b.dim)
  IN  /\ Doing("word")
      /\ \E x \in {IF Reads(io) THEN Then(bk_get(io, b), LAMBDA z : Split(z, r, Here.j, Here.pc)) ELSE io} :
         \E y \in {Then(x, Coded)} : Became(IF Reads(y) \/ ~Going(y) THEN y ELSE bk_put(y, b, cw(y)), <<>>)

(* The entries of a partition, if its class has a book in this pass: where *)
(* each begins, and how far its digits are apart.                          *)
rs_part ==
  LET r == given.rs[Here.rno]
      class == io.cl[Here.j][Here.pc]
      b == r.book[class + 1][Here.i]
      g == r.beg + (Here.pc - 1) * r.psz
      syms == IF r.type = 0 THEN r.psz \div bk(b).dim ELSE (r.psz + bk(b).dim - 1) \div bk(b).dim
      Entry(s) == [kind |-> "entry", b |-> b, ctx |-> <<"digit", Here.rno % 4, Here.i, bk(b).slot>>, il |-> Here.il,
                   at |-> IF r.type = 0 THEN g + s - 1 ELSE g + (s - 1) * bk(b).dim,
                   by |-> IF r.type = 0 THEN syms ELSE 1]
  IN  /\ Doing("part")
      /\ IF class >= r.ncl THEN Became(Fatal(io), <<>>)
         ELSE IF b = 0 THEN Became(io, <<>>)
         ELSE IF r.type = 0 /\ r.psz % bk(b).dim # 0 THEN Became(Fatal(io), <<>>)
         ELSE Became(io, [s \in 1 .. syms |-> Entry(s)])

(* The index and the channel of a place, among il channels side by side or *)
(* in a vector of its own.                                                 *)
Index(p, il) == IF il = 0 THEN p ELSE p \div il
Channel(p, il) == IF il = 0 THEN 0 ELSE Min({p % il, 3})

(* A digit whose size has a bit more than a floor value.                   *)
Fitting(d) == d \in 1 - 2 ^ (MagBits + 1) .. 2 ^ (MagBits + 1) - 1

(* A digit at an index that has models.                                    *)
rs_val(z, k, d) ==
  LET p == Here.at + (k - 1) * Here.by
  IN  IF Index(p, Here.il) >= MaxIndex \/ (Reads(z) /\ ~Fitting(d)) THEN Fatal(z)
      ELSE coded(z, Here.ctx \o <<Index(p, Here.il), Channel(p, Here.il)>>, d)

(* One entry: its digits, a multiplicand each.                             *)
rs_sym ==
  LET b == bk(Here.b)
      Told(z, k) == rs_val(z, k, MultOf(b, Digit(b, z.e, k - 1)) - Middle(b))
      Places(z) == {p \in 0 .. b.nv - 1 : MultOf(b, p) = z.r + Middle(b)}
      Placed(z, k) == IF Places(z) = {} THEN Fatal(z) ELSE [z EXCEPT !.e = @ + Max(Places(z)) * b.nv ^ (k - 1)]
      Heard(z, k) == Then(rs_val(z, k, 0), LAMBDA x : Placed(x, k))
      Put(z) == IF z.e >= Len(b.len) THEN Fatal(z) ELSE bk_put(z, b, z.e)
  IN  /\ Doing("entry")
      /\ \E x \in {IF Reads(io) THEN bk_get(io, b) ELSE [io EXCEPT !.r = 0]} :
         \E y \in {IF x.side = "probe" \/ ~Going(x) THEN x
                   ELSE Each([x EXCEPT !.e = x.r], UpTo(b.dim), LAMBDA z, k : IF Reads(z) THEN Told(z, k) ELSE Heard(z, k))} :
           Became(IF Reads(y) THEN y ELSE Then(y, Put), <<>>)

-----------------------------------------------------------------------------
(* The end of a packet, and the packet as a whole.                         *)

(* What is left of a packet behind its payload: bits to code, or padding.  *)
Remains(z) == Left(z) >= ByteBits \/ \E i \in z.pos + 1 .. Len(pkt.bits) : pkt.bits[i] = 1

audio_end ==
  /\ Doing("end")
  /\ IF io.side = "probe" THEN Became(io, <<>>)
     ELSE IF io.replay /\ io.symbol # Len(io.symbols) THEN Became(Lost(io), <<>>)
     ELSE IF io.type \div 4 = 1 THEN Became(io, <<Job("tail")>>)
     ELSE Became(IF Reads(io) /\ Remains(io) THEN Fatal(io) ELSE io, <<>>)

(* The bits from here to the end, byte by byte.                            *)
packet_tail ==
  LET n == IF Left(io) < ByteBits THEN Left(io) ELSE ByteBits
      Told(z) == Then(coded(z, <<"tail", n>>, z.r), LAMBDA x : Answered(x, n))
      Began(z) == IF Reads(z) THEN pkt.bits[1] ELSE z.out[1]
  IN  /\ Doing("tail")
      /\ IF n = 0 THEN Became(IF io.type = 1 /\ Began(io) = 1 THEN Fatal(io) ELSE io, <<>>)
         ELSE \E x \in {Then(Asked(io, n), Told)} : Became(x, <<Job("tail")>>)

(* audio: one that ends early is coded as its bits, any other as its parts.*)
audio ==
  LET Typed(z) == [z EXCEPT !.type = z.r, !.choices = (z.r \div 2) % 2 = 1, !.replay = @ /\ z.r # 1]
  IN  /\ Doing("type")
      /\ \E x \in {Then(coded(io, "type", io.type), Typed)} :
           Became(x, IF x.type = 1 THEN <<Job("tail")>> ELSE <<Job("mode")>>)

(* The type that a probe has come to.                                      *)
TypeOf(z) == IF z.raw THEN 1 ELSE (IF z.choices THEN 2 ELSE 0) + (IF Remains(z) THEN 4 ELSE 0)

Stop(how) == step' = how /\ UNCHANGED <<given, v, pkt, io, work>>

(* audio_type has been run: its entries are replayed if all were kept.     *)
audio_type ==
  /\ step = "code" /\ work = <<>> /\ io.side = "probe"
  /\ IF io.st = "fatal" THEN Stop("refused")
     ELSE /\ io' = [Fresh("pack", io.v, <<>>) EXCEPT !.type = TypeOf(io), !.symbols = io.symbols, !.replay = ~io.symfull]
          /\ work' = <<Job("type")>>
          /\ UNCHANGED <<given, v, pkt, step>>

(* The unpacker is given the symbols, the length of the packet and zeros.  *)
vb_aud_enc ==
  /\ step = "code" /\ work = <<>> /\ io.side = "pack"
  /\ IF io.st # "ok" THEN Stop(IF io.st = "fatal" THEN "refused" ELSE "lost")
     ELSE /\ v' = [v EXCEPT !.packer = io.v]
          /\ io' = Fresh("unpack", v.unpacker, io.wire) /\ work' = <<Job("type")>>
          /\ UNCHANGED <<given, pkt, step>>

vb_aud_dec ==
  /\ step = "code" /\ work = <<>> /\ io.side = "unpack"
  /\ IF io.st # "ok" \/ io.wire # <<>> THEN Stop("lost")
     ELSE v' = [v EXCEPT !.unpacker = io.v] /\ step' = "done" /\ UNCHANGED <<given, pkt, io, work>>

-----------------------------------------------------------------------------
NoPacket == [bits |-> <<>>, cont |-> 0, n |-> 0]

NoHistory == [hu |-> 0, pm |-> 0, pw |-> <<0, 0>>, clsm |-> <<>>]

Init ==
  /\ given \in Setups
  /\ v = [books |-> <<>>, packer |-> NoHistory, unpacker |-> NoHistory]
  /\ pkt = NoPacket /\ io = Fresh("probe", NoHistory, <<>>) /\ work = <<>> /\ step = "header"

(* All books of the header; one that is refused ends it.                   *)
codebooks ==
  /\ step = "header"
  /\ v' = [v EXCEPT !.books = [i \in DOMAIN given.books |-> codebook(given.books[i]) @@ [slot |-> i]]]
  /\ step' = IF \A i \in DOMAIN given.books : v'.books[i].ok THEN "next" ELSE "refused"
  /\ UNCHANGED <<given, pkt, io, work>>

(* The next packet, of audio as its first bit says.                        *)
Packet ==
  /\ step \in {"next", "done"} /\ pkt.n < Len(PacketsOf(given))
  /\ \E p \in PacketsOf(given)[pkt.n + 1] :
       p.bits[1] = 0 /\ pkt' = [bits |-> p.bits, cont |-> p.cont, n |-> pkt.n + 1]
  /\ io' = Fresh("probe", v.packer, <<>>)
  /\ work' = <<Job("mode")>> /\ step' = "code"
  /\ UNCHANGED <<given, v>>

Next ==
  \/ codebooks \/ Packet \/ audio_type \/ vb_aud_enc \/ vb_aud_dec
  \/ audio \/ audio_mode \/ audio_window \/ audio_end \/ packet_tail
  \/ fl_get \/ fl_get_post \/ fl_get_partition \/ fl_probed \/ fl_used \/ fl_val \/ fl_put \/ fl_put_partition
  \/ coupling \/ residue \/ residue_word \/ rs_part \/ rs_sym

-----------------------------------------------------------------------------
(* Properties.                                                             *)

(* The sum of the parts of all sequences of bits that words begin, in      *)
(* words of the longest kind.                                              *)
Taking(len) == FoldLeft(LAMBDA s, l : IF l = 0 THEN s ELSE s + 2 ^ (LenMax - l), 0, len)

Complete(b) == Taking(b.len) = 2 ^ LenMax

(* The last place that the entries of a book come to in a residue: the     *)
(* last entry of a partition may go over its end.                          *)
LastPlace(r, np, dim) == r.beg + (np - 1) * r.psz + ((r.psz + dim - 1) \div dim) * dim - 1

(* All digits of all books fit, and no entry comes to an index too large,  *)
(* in a residue of nch channels and n values of each.                      *)
DigitsFit(r, n, nch) ==
  LET np == Partitions(r, n, nch)
  IN  \A c \in 1 .. r.ncl, i \in 1 .. Passes :
        LET b == bk(r.book[c][i])
        IN  r.book[c][i] # 0 /\ np > 0 =>
              /\ \A k \in 0 .. b.nv - 1 : Fitting(MultOf(b, k) - Middle(b))
              /\ Index(LastPlace(r, np, b.dim), IF r.type = 2 THEN nch ELSE 0) < MaxIndex

(* A setup that no packet can be refused with: words for all bits, modes   *)
(* for all numbers, classes for all words, values for all posts, and       *)
(* digits and indices in bounds.                                           *)
Sound ==
  /\ \A i \in DOMAIN v.books : Complete(v.books[i])
  /\ nmd = 2 ^ Depth
  /\ \A rno \in DOMAIN given.rs :
       LET r == given.rs[rno]
       IN  /\ \A e \in Used(bk(r.cbook).len) : SplitsWhole(e, r, bk(r.cbook).dim)
           /\ r.type = 0 => \A c \in DOMAIN r.book, i \in 1 .. Passes :
                              r.book[c][i] # 0 => r.psz % bk(r.book[c][i]).dim = 0
  /\ \A m \in DOMAIN given.modes :
       LET map == given.mp[given.modes[m].map]
       IN  \A i \in DOMAIN map.rs :
             DigitsFit(given.rs[map.rs[i]], given.half[given.modes[m].blockflag + 1],
                       Cardinality({k \in DOMAIN map.mux : map.mux[k] = i}))
  /\ \A i \in DOMAIN given.fl :
       /\ given.fl[i].bits <= MagBits
       /\ \A c \in DOMAIN given.fl[i].csb : \A j \in DOMAIN given.fl[i].csb[c] :
            Entries(given.fl[i].csb[c][j]) <= 2 ^ MagBits

(* A packet of audio that is taken comes back bit for bit, whatever its    *)
(* bits are and wherever it ends: in a word, a field or behind its values. *)
(* Packer and unpacker never ask for a value in different contexts, and    *)
(* the second pass finds the entries of the first.  With a sound setup no  *)
(* packet is refused.                                                      *)
AudioComesBack ==
  /\ step # "lost"
  /\ step = "done" => io.out \o [i \in 1 .. Left(io) |-> 0] = pkt.bits
  /\ step = "refused" /\ pkt.n > 0 => ~Sound

(* The words of a book that is taken are all different and none begins     *)
(* another, every one written is the entry that is read, with few bits     *)
(* behind it or many, its lookup grid has as many digits as fit and each   *)
(* entry in use its own; its values are fewer than the size allows.  No    *)
(* book is refused but one of a size half as large at least, of no         *)
(* dimension or another type of lookup, with more words than bits allow, a *)
(* thin tree, or a grid that says two things.                              *)
WordsOf(b) == {WordOf(b, e) : e \in Used(b.len)}

Readable(b) ==
  /\ b.look \in 0 .. 1 /\ Len(b.len) <= MaxEntries /\ b.dim * Len(b.len) < 2 ^ SizeBits
  /\ Taking(b.len) <= 2 ^ LenMax /\ Cardinality(WordsOf(b)) = Cardinality(Used(b.len))
  /\ \A w, x \in WordsOf(b) : IsPrefix(w, x) => w = x
  /\ b.look = 1 => /\ b.nv ^ b.dim <= Len(b.len) /\ (b.nv + 1) ^ b.dim > Len(b.len)
                   /\ \A e \in Used(b.len) :
                        e = FoldLeft(LAMBDA s, k : s + Digit(b, e, k - 1) * b.nv ^ (k - 1), 0, UpTo(b.dim))

Refusable(x) ==
  LET l == lengths(x.form)
      mult == SubSeq(x.mult, 1, lk1(Len(l.len), x.dim))
  IN  \/ x.look > 1 \/ x.dim = 0 \/ Ent(x.form) > MaxEntries \/ x.dim * Ent(x.form) >= 2 ^ (SizeBits - 1)
      \/ ~l.ok \/ Taking(l.len) > 2 ^ LenMax
      \/ bk_words(l.len).ok /\ Overflows([len |-> l.len, code |-> bk_words(l.len).code])
      \/ /\ x.look = 1
         /\ mult = <<>> \/ ~IsInjective(mult) \/ \E e \in Used(l.len) : e >= Len(mult) ^ x.dim

BooksBuilt ==
  step # "header" /\ pkt = NoPacket =>
    \A i \in DOMAIN v.books : IF v.books[i].ok THEN Readable(v.books[i]) ELSE Refusable(given.books[i])
=============================================================================
