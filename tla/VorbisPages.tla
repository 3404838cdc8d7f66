---------------------------- MODULE VorbisPages -----------------------------
(***************************************************************************)
(* Ogg pages as src/ogg.c and the page loops of src/codec.c code them:     *)
(* enc_link takes the laces of a page apart into packets, joins one that   *)
(* goes on over later pages and codes it where it starts; vb_unpack codes  *)
(* no lace twice, hands the joined packet on page by page and lays the     *)
(* laces out again.                                                        *)
(*                                                                         *)
(* A page is a record of its fields, laces and body.  Of a packet's bytes  *)
(* the first says what it is: 1 a header, any other audio of as many       *)
(* samples.  What becomes of a packet's bytes is up to the packet coders   *)
(* of vorbis.c, which are taken to give them back if they are asked with   *)
(* what they were coded with.  Repeated links are in LinkDedup.            *)
(***************************************************************************)
EXTENDS IntegerModel

CONSTANTS
  MaxSeg,       \* OGG_MAXSEG, the lace that goes on and the most laces
  Depths,       \* the depths of the models' length trees, by field
  SoundFiles,   \* files that have nothing to be refused for, as sequences of pages
  OddFiles      \* files that may have

VARIABLES
  pages,     \* the pages of the file
  sound,     \* whether it is one of SoundFiles
  pi,        \* the page at hand
  h,         \* ogg_hdr: the models of the fields, and cum
  hand,      \* w, spill, cont and carry of the link at hand; jb, the packet
  meta,      \* the bits of the page fields, link by link
  packs,     \* the packets as handed to the packet coders
  counts,    \* the number of pages of each link
  written,   \* the pages the unpacker has written
  stage      \* "pack", "unpack", "done", "refused", or how it failed

pageVars == <<pages, sound, pi, h, hand, meta, packs, counts, written, stage>>

-----------------------------------------------------------------------------
(* Laces and packets.                                                      *)

Added(s) ==
  LET sum[i \in 0 .. Len(s)] == IF i = 0 THEN 0 ELSE sum[i - 1] + s[i] IN sum[Len(s)]

(* The lengths of the packets or parts of packets that laces make.         *)
ogg_unpack(laces) ==
  LET x == FoldLeft(LAMBDA y, l :
             IF l = MaxSeg THEN [y EXCEPT !.run = @ + l]
             ELSE [plen |-> Append(y.plen, y.run + l), run |-> 0],
             [plen |-> <<>>, run |-> 0], laces)
  IN  IF laces # <<>> /\ Last(laces) = MaxSeg
        THEN [plen |-> Append(x.plen, x.run), tail |-> TRUE]
        ELSE [plen |-> x.plen, tail |-> FALSE]

Full(n) == [k \in 1 .. n \div MaxSeg |-> MaxSeg]

(* Laces that end every packet, the last one too.                          *)
PackClosed(plen, tail) == FlattenSeq([k \in DOMAIN plen |-> Append(Full(plen[k]), plen[k] % MaxSeg)])

(* A packet that goes on must fill its laces; a page holds so many.        *)
ogg_pack(plen, tail) ==
  FlattenSeq([k \in DOMAIN plen |->
    IF tail /\ k = Len(plen) THEN Full(plen[k]) ELSE Append(Full(plen[k]), plen[k] % MaxSeg)])

PackFails(plen, tail) ==
  \/ Len(ogg_pack(plen, tail)) > MaxSeg
  \/ tail /\ Last(plen) % MaxSeg # 0

Parts(p) == ogg_unpack(p.laces)

(* The bytes of part k of page p.                                          *)
Part(p, k) ==
  LET plen == Parts(p).plen
      at == Added(SubSeq(plen, 1, k - 1))
  IN  SubSeq(p.body, at + 1, at + plen[k])

(* Whether part k goes on, and whether page p goes on with a part of it.   *)
GoesOn(p, k) == Parts(p).tail /\ k = Len(Parts(p).plen)
Continues(p) == p.type % 2 = 1
Opens(p) == (p.type \div 2) % 2 = 1
Closes(p) == (p.type \div 4) % 2 = 1
PassesOn(p) == Len(Parts(p).plen) = 1 /\ Parts(p).tail

-----------------------------------------------------------------------------
(* The fields of a page.                                                   *)

HdrFields == {"type", "glo", "ghi", "serial", "seq", "np", "plen", "ct"}

FCFG ==
  [f \in HdrFields |->
     [depth |-> Depths[f], sgn |-> f \in {"glo", "ghi", "serial", "seq"},
      shist |-> CASE f \in {"glo", "serial", "seq"} -> 2 [] f = "ghi" -> 1 [] OTHER -> 0,
      freeze |-> IF f \in {"glo", "serial", "seq"} THEN 8 ELSE IF f = "ghi" THEN 1 ELSE 2,
      bank |-> f \in {"np", "plen", "ct"},
      order |-> CASE f = "seq" -> 2 [] f \in {"glo", "ghi", "serial"} -> 1 [] OTHER -> 0]]

ogg_hdr_init == [f |-> [f \in HdrFields |-> mdl_init(FCFG[f])], cum |-> 0]

ogg_hdr_reset(x) == [f |-> [f \in HdrFields |-> mdl_reset(x.f[f])], cum |-> 0]

ogg_hdr_step(x, n) == [x EXCEPT !.cum = Wrap(@ + n)]

(* A value coded with the model of field f: x has the header and its bits. *)
FieldCoded(x, f, v) ==
  LET c == mdl_enc(x.h.f[f], v)
  IN  [h |-> [x.h EXCEPT !.f[f] = c.m], bits |-> x.bits \o c.bits, fits |-> x.fits /\ c.fits]

Coding(x) == [h |-> x, bits |-> <<>>, fits |-> TRUE]

(* The last lace of a page says whether a packet goes on, when its length  *)
(* does not: the bit tl.                                                   *)
LastBit(laces) ==
  IF laces # <<>> /\ Last(laces) \in {0, MaxSeg}
    THEN <<[slot |-> "tl", bit |-> IF Last(laces) = 0 THEN 1 ELSE 0]>> ELSE <<>>

FieldsOf(x, p, first) ==
  <<<<"type", IF first /\ Opens(p) THEN p.type - 2 ELSE p.type>>,
    <<"glo", Wrap(p.glo - x.cum)>>, <<"ghi", p.ghi>>, <<"serial", p.serial>>,
    <<"seq", p.seq>>, <<"np", Len(Parts(p).plen)>>>>
  \o [k \in DOMAIN Parts(p).plen |-> <<"plen", Parts(p).plen[k]>>]

ogg_hdr_enc(x, p, first) ==
  LET Ended(c) == [c EXCEPT !.bits = @ \o LastBit(p.laces)]
  IN  Ended(FoldLeft(LAMBDA y, e : FieldCoded(y, e[1], e[2]), Coding(x), FieldsOf(x, p, first)))

(* Fields are read in the same order, into y, with the header as it goes.  *)
FieldRead(y, f) ==
  LET Of(c) == [y EXCEPT !.h.f[f] = c.m, !.rd = c.rd, !.v = Append(@, c.v)]
  IN  Of(mdl_dec(y.h.f[f], y.rd))

FieldsRead(x, rd) ==
  FoldLeft(FieldRead, [h |-> x, rd |-> rd, v |-> <<>>],
           <<"type", "glo", "ghi", "serial", "seq", "np">>)

LengthsRead(y) == FoldLeft(FieldRead, [y EXCEPT !.v = <<>>], [k \in 1 .. y.v[6] |-> "plen"])

(* The page of fields v and lengths z, its last bit read as a.             *)
PageOf(x, v, z, a, first) ==
  [h |-> z.h, rd |-> a,
   ok |-> a.ok /\ v[6] <= MaxSeg /\ ~PackFails(z.v, a.bit = 0),
   p |-> [type |-> v[1] + (IF first /\ (v[1] \div 2) % 2 = 0 THEN 2 ELSE 0),
          glo |-> Wrap(v[2] + x.cum), ghi |-> v[3], serial |-> v[4], seq |-> v[5],
          crc |-> TRUE, laces |-> ogg_pack(z.v, a.bit = 0), body |-> <<>>]]

ogg_hdr_dec(x, rd, first) ==
  LET LastRead(z) == IF z.v # <<>> /\ Last(z.v) % MaxSeg = 0 THEN Asked(z.rd, "tl")
                     ELSE [z.rd EXCEPT !.bit = 1]
      Lengths(y, z) == PageOf(x, y.v, z, LastRead(z), first)
      Fields(y) == Lengths(y, LengthsRead(y))
  IN  Fields(FieldsRead(x, rd))

-----------------------------------------------------------------------------
(* Samples: counted where a packet ends, so one that goes on is carried.   *)

pkt_samples(bytes) == IF bytes[1] = 1 THEN 0 ELSE bytes[1]

(* n packets' samples end on the page, `open' are of one that goes on.     *)
samples(p, carry) ==
  LET frag == Parts(p).plen # <<>> /\ Continues(p)
      counted(k) == IF Part(p, k) # <<>> /\ ~(k = 1 /\ frag) THEN pkt_samples(Part(p, k)) ELSE 0
      ends == frag /\ ~PassesOn(p)
      Of(n, open) == [n |-> n - open + (IF ends THEN carry ELSE 0),
                      carry |-> IF open # 0 THEN open ELSE IF ends THEN 0 ELSE carry]
      Last1(s) == Of(Added(s), IF Parts(p).tail THEN Last(s) ELSE 0)
  IN  Last1([k \in DOMAIN Parts(p).plen |-> counted(k)])

-----------------------------------------------------------------------------
(* Packing a link, page by page.                                           *)

Fresh == [w |-> 0, spill |-> 0, cont |-> FALSE, carry |-> 0, jb |-> <<>>, n |-> 0, eos |-> TRUE]

Init ==
  /\ sound \in BOOLEAN /\ pages \in (IF sound THEN SoundFiles ELSE OddFiles)
  /\ pi = 0 /\ h = ogg_hdr_init /\ hand = Fresh
  /\ meta = <<>> /\ packs = <<>> /\ counts = <<>> /\ written = <<>>
  /\ stage = "pack"

(* join_len, join_pkt: the rest of the packet that page i leaves open, up  *)
(* to page z; none when a page does not go on with it.                     *)
LinkEnd(i) ==
  LET later == {k \in i + 1 .. Len(pages) : Opens(pages[k])}
  IN  IF later = {} THEN Len(pages) ELSE Min(later) - 1

Rest(i) ==
  LET goes(k) == Parts(pages[k]).plen # <<>> /\ Continues(pages[k])
      To(ends) == IF ends = {} \/ \E k \in i + 1 .. Min(ends) : ~goes(k)
                    THEN [ok |-> FALSE, bytes |-> <<>>]
                  ELSE [ok |-> TRUE,
                        bytes |-> FlattenSeq([k \in 1 .. Min(ends) - i |-> Part(pages[i + k], 1)])]
  IN  To({k \in i + 1 .. LinkEnd(i) : ~PassesOn(pages[k])})

(* Part k of page i: x has the hand, the header, the packets and the bits. *)
Spilt(x, p, n) ==
  [x EXCEPT !.hand.spill = @ - n, !.hand.cont = @ /\ PassesOn(p),
            !.ok = @ /\ n <= x.hand.spill /\ (PassesOn(p) \/ n = x.hand.spill)]

(* A fragment of a packet that has some bytes left.                        *)
BytesLeft(x) == x.hand.spill > 0

(* A fragment of a packet that was coded where it began, which is so for a *)
(* closing one without bytes too.                                          *)
HandedOn(x) == x.hand.cont

PartBegun(x, p, k, part, rest) ==
  LET head == part[1] = 1
      Goes(y) == IF GoesOn(p, k)
                   THEN [y EXCEPT !.c = FieldCoded(@, "ct", Len(rest.bytes)),
                                  !.hand.spill = Len(rest.bytes), !.hand.cont = TRUE]
                 ELSE y
  IN  IF part = <<>> \/ ~rest.ok \/ Len(rest.bytes) > MaxSeg ^ 3 THEN [x EXCEPT !.ok = FALSE]
      ELSE Goes([x EXCEPT
             !.packs = Append(@, [header |-> head, w |-> IF head THEN x.hand.w ELSE 3,
                                  cont |-> Continues(p), bytes |-> part \o rest.bytes]),
             !.hand.w = IF head THEN @ + 1 ELSE @,
             !.ok = @ /\ (IF head THEN x.hand.w < 3 ELSE x.hand.w = 3)])

PartCoded(x, i, k) ==
  LET p == pages[i]
  IN  IF k = 1 /\ Continues(p) /\ HandedOn(x) THEN Spilt(x, p, Len(Part(p, k)))
      ELSE PartBegun(x, p, k, Part(p, k),
                     IF GoesOn(p, k) THEN Rest(i) ELSE [ok |-> TRUE, bytes |-> <<>>])

PageCoded(x, i) ==
  LET p == pages[i]
      Stepped(y, s) == [y EXCEPT !.c.h = ogg_hdr_step(@, s.n), !.hand.carry = s.carry,
                                 !.hand.n = @ + 1, !.hand.eos = Closes(p)]
      Parted(y) == IF ~y.ok THEN y ELSE Stepped(y, samples(p, y.hand.carry))
  IN  Parted(FoldLeft(LAMBDA z, k : PartCoded(z, i, k),
                      [x EXCEPT !.c = ogg_hdr_enc(x.c.h, p, Opens(p))],
                      [k \in DOMAIN Parts(p).plen |-> k]))

Refused == stage' = "refused" /\ UNCHANGED <<pages, sound, pi, h, hand, meta, packs, counts, written>>

LinkStart(x) == [Fresh EXCEPT !.eos = FALSE]

(* A page that opens a link waits for the one before to be closed.         *)
AtLink == pi < Len(pages) /\ Opens(pages[pi + 1]) /\ hand.n = 0

enc_link_page ==
  /\ stage = "pack" /\ pi < Len(pages)
  /\ Opens(pages[pi + 1]) => hand.n = 0
  /\ \E x \in {[hand |-> IF AtLink THEN LinkStart(hand) ELSE hand, packs |-> packs,
                c |-> Coding(IF AtLink THEN ogg_hdr_reset(h) ELSE h), ok |-> TRUE]} :
       IF ~pages[pi + 1].crc \/ x.hand.eos THEN Refused
       ELSE \E y \in {PageCoded(x, pi + 1)} :
              IF ~y.ok THEN Refused
              ELSE /\ stage' = IF y.c.fits THEN stage ELSE "fatal"
                   /\ h' = y.c.h /\ hand' = y.hand /\ packs' = y.packs
                   /\ meta' = meta \o y.c.bits /\ pi' = pi + 1
                   /\ UNCHANGED <<pages, sound, counts, written>>

(* A link ends before the page that opens the next, or with the file.      *)
LinkOver == IF pi = Len(pages) THEN TRUE ELSE Opens(pages[pi + 1])

enc_link_end ==
  /\ stage = "pack" /\ hand.n > 0
  /\ LinkOver
  /\ IF hand.cont THEN Refused
     ELSE /\ counts' = Append(counts, hand.n)
          /\ hand' = Fresh
          /\ IF pi = Len(pages) THEN stage' = "unpack" /\ pi' = 1 /\ h' = ogg_hdr_init
             ELSE UNCHANGED <<stage, pi, h>>
          /\ UNCHANGED <<pages, sound, meta, packs, written>>

-----------------------------------------------------------------------------
(* Unpacking: pi is the link, hand.n the pages of it that are written.     *)

Lost(x) == [x EXCEPT !.ok = FALSE]

(* The packet that is next, if the decoder asks for it as it was coded.    *)
Packet(x, q, len) ==
  LET w == IF x.hand.w < 3 THEN x.hand.w ELSE 3
      As(e) == IF Len(e.bytes) = len /\ e.w = w /\ e.header = (w < 3)
                  /\ (e.header \/ e.cont = Continues(q)) THEN e.bytes ELSE <<>>
  IN  IF x.packs # <<>> THEN As(Head(x.packs)) ELSE <<>>

(* Part of a page: the first pl bytes of a packet decoded on it.           *)
PartMade(x, pl, bytes) ==
  IF pl = 0 \/ bytes = <<>> THEN Lost(x)
  ELSE [x EXCEPT !.body = @ \o SubSeq(bytes, 1, pl), !.packs = Tail(@),
                 !.hand.w = IF @ < 3 THEN @ + 1 ELSE @]

PartOpened(x, q, pl, ct) ==
  LET Goes(y) == [y EXCEPT !.h.f["ct"] = ct.m, !.rd = ct.rd, !.hand.spill = ct.v,
                           !.hand.jb = Packet(x, q, pl + ct.v), !.hand.cont = TRUE]
  IN  IF ~ct.rd.ok \/ ct.v > MaxSeg ^ 3 THEN Lost(x)
      ELSE Goes(PartMade(x, pl, Packet(x, q, pl + ct.v)))

(* The bytes of the packet that an earlier page began.                     *)
Handed(x, q, pl, jn) ==
  [Spilt(x, q, pl) EXCEPT
     !.body = @ \o SubSeq(x.hand.jb, jn - x.hand.spill + 1, jn - x.hand.spill + pl)]

PartDecoded(x, q, k, pl) ==
  IF k = 1 /\ Continues(q) /\ HandedOn(x) THEN Handed(x, q, pl, Len(x.hand.jb))
  ELSE IF GoesOn(q, k) THEN PartOpened(x, q, pl, mdl_dec(x.h.f["ct"], x.rd))
  ELSE PartMade(x, pl, Packet(x, q, pl))

(* The page y was read as, with the packets that lie on it.                *)
PageDecoded(y) ==
  FoldLeft(LAMBDA z, k : PartDecoded(z, y.p, k, Parts(y.p).plen[k]),
           [h |-> y.h, rd |-> y.rd, hand |-> hand, packs |-> packs, body |-> <<>>, ok |-> y.ok],
           [k \in DOMAIN Parts(y.p).plen |-> k])

vb_unpack_page ==
  /\ stage = "unpack" /\ pi <= Len(counts)
  /\ hand.n < counts[pi]
  /\ \E y \in {ogg_hdr_dec(IF hand.n = 0 THEN ogg_hdr_reset(h) ELSE h, Reader(meta), hand.n = 0)} :
     \E x \in {PageDecoded(y)} :
     \E page \in {[y.p EXCEPT !.body = x.body]} :
       IF ~x.ok \/ (Closes(page) /\ hand.n + 1 # counts[pi])
         THEN stage' = "lost" /\ UNCHANGED <<pages, sound, pi, h, hand, meta, packs, counts, written>>
       ELSE \E s \in {samples(page, x.hand.carry)} :
              /\ written' = Append(written, page)
              /\ h' = ogg_hdr_step(x.h, s.n)
              /\ hand' = [x.hand EXCEPT !.carry = s.carry, !.n = @ + 1]
              /\ packs' = x.packs /\ meta' = x.rd.left
              /\ UNCHANGED <<pages, sound, pi, counts, stage>>

vb_unpack_link ==
  /\ stage = "unpack" /\ pi <= Len(counts) /\ hand.n = counts[pi]
  /\ pi' = pi + 1 /\ hand' = Fresh
  /\ stage' = IF hand.cont THEN "lost" ELSE IF pi = Len(counts) THEN "done" ELSE stage
  /\ UNCHANGED <<pages, sound, h, meta, packs, counts, written>>

Next == enc_link_page \/ enc_link_end \/ vb_unpack_page \/ vb_unpack_link

Spec == Init /\ [][Next]_pageVars

-----------------------------------------------------------------------------
(* Every file that is packed comes back field for field and lace for lace, *)
(* however its packets lie on its pages (ogg_pack, enc_link, vb_unpack);   *)
(* no number is too long for its model, and no check of the unpacker fails.*)
PagesComeBack ==
  /\ stage = "done" => written = pages
  /\ stage \notin {"lost", "fatal"}

(* A file with nothing amiss is packed: a packet that ends in a page's     *)
(* first lace, of whatever length, is not taken for an empty one, and the  *)
(* spill of a packet is spent where its last part lies (enc_link).         *)
SoundPacked == sound => stage # "refused"
=============================================================================
