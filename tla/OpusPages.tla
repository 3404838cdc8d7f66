----------------------------- MODULE OpusPages -----------------------------
(***************************************************************************)
(* The Ogg side of src/opusmode.c: how the links of an Ogg Opus file are   *)
(* split into page headers and packets (parse_stream), coded without their *)
(* lacing, and laid back into their pages (page_writer).                   *)
(*                                                                         *)
(* A file is a sequence of cells: one for the header of each page, which   *)
(* has its laces, and one for each byte of a body.  Offsets count cells    *)
(* from nought, as the code's count bytes.  A byte is kept as what the     *)
(* packer asks of it: the first of an OpusHead, of a packet that parses,   *)
(* or any other.  Symbols are kept with the context that coded them, and   *)
(* one that is decoded in another context has no value.                    *)
(***************************************************************************)
EXTENDS Integers, SequencesExt

CONSTANTS
  Lace,        \* the lace that goes on, 255
  MaxPacket,   \* OPUS_MAXPKT
  MaxTags,     \* CMT_MAXLEN
  MaxCount,    \* the most packets or pages of a link
  HeadLen,     \* the bytes an OpusHead has at least
  Word,        \* granule positions and page numbers count modulo this, a power of 2
  Escape,      \* the last symbol of a length, OC_HDRESC and OC_BLOBESC
  OpusFiles    \* the files that are packed, as sequences of cells

VARIABLES
  file,    \* the file, cell by cell
  at,      \* off, the page to be parsed next
  s,       \* the stream of the link at hand, pages and packets
  acc,     \* acclen, pstart and pend of the packet at hand
  cs,      \* oc_state, of the packer and then of the unpacker
  links,   \* the links as coded
  li, k,   \* the link and the packet the unpacker is at
  w,       \* its page_writer
  out,     \* the cells it has written
  phase    \* what is being done, or how it ended

opVars == <<file, at, s, acc, cs, links, li, k, w, out, phase>>

-----------------------------------------------------------------------------
(* Numbers.                                                                *)

Signed(u) == IF u % Word >= Word \div 2 THEN (u % Word) - Word ELSE u % Word

Magnitude(v) == (IF v < 0 THEN -v ELSE v) % Word

Log2(m) == CHOOSE n \in 0 .. 30 : 2 ^ n <= m /\ m < 2 ^ (n + 1)

(* A difference as sign, number of bits and the bits below the top one.    *)
resid(v) ==
  IF v = 0 THEN [zero |-> TRUE, neg |-> FALSE, bits |-> 0, low |-> 0]
  ELSE LET n == Log2(Magnitude(v))
       IN  [zero |-> FALSE, neg |-> v < 0, bits |-> n, low |-> Magnitude(v) - 2 ^ n]

Residual(c) ==
  IF c.zero THEN 0
  ELSE Signed(IF c.neg THEN Word - (2 ^ c.bits + c.low) ELSE 2 ^ c.bits + c.low)

(* A length beyond the model's last symbol goes on as a plain number.      *)
Escaped(n) == IF n < Escape THEN <<n>> ELSE <<Escape, n - Escape>>

Unescaped(c) == IF c[1] = Escape THEN Escape + c[2] ELSE c[1]

(* A coded symbol, and its value for who decodes it in a context.          *)
Sym(ctx, v) == [ctx |-> ctx, v |-> v]

InContext(sym, ctx, lost) == IF sym.ctx = ctx THEN sym.v ELSE lost

-----------------------------------------------------------------------------
(* The fields of pages and packets, predicted from those before.           *)

FieldState == [htype |-> 0, nsegs |-> 0, seq |-> 0, gran |-> 0, gdelta |-> 0, nhdr |-> 0, len |-> 0]

NoGranule == Word - 1

oc_page(c, p) ==
  [htype |-> Sym(c.htype, p.htype),
   nsegs |-> Sym(c.nsegs, p.nsegs),
   next |-> p.seq = (c.seq + 1) % Word,
   seq |-> p.seq,
   none |-> p.gran = NoGranule,
   gran |-> resid(Signed(p.gran - c.gran - c.gdelta))]

(* The state after a page; a page without granule leaves its prediction.   *)
AfterPage(c, p) ==
  IF p.gran = NoGranule THEN [c EXCEPT !.htype = p.htype, !.nsegs = p.nsegs, !.seq = p.seq]
  ELSE [c EXCEPT !.htype = p.htype, !.nsegs = p.nsegs, !.seq = p.seq, !.gran = p.gran,
                 !.gdelta = Signed(p.gran - c.gran)]

DecodedPage(c, x) ==
  [htype |-> InContext(x.htype, c.htype, 0),
   nsegs |-> InContext(x.nsegs, c.nsegs, 0),
   seq |-> IF x.next THEN (c.seq + 1) % Word ELSE x.seq,
   gran |-> IF x.none THEN NoGranule
            ELSE (c.gran + c.gdelta + Residual(x.gran)) % Word]

oc_packet_hdr(c, p) ==
  [nhdr |-> Sym(c.nhdr, Escaped(p.nhdr)), len |-> resid(p.len - c.len), byte |-> p.cells]

AfterPacket(c, p) == [c EXCEPT !.nhdr = p.nhdr, !.len = p.len]

DecodedPacket(c, x) ==
  [nhdr |-> Unescaped(InContext(x.nhdr, c.nhdr, <<0>>)), len |-> c.len + Residual(x.len),
   cells |-> x.byte]

-----------------------------------------------------------------------------
(* Parsing.                                                                *)

IsHeader(x) == "page" \in DOMAIN x

Total(laces) ==
  LET sum[i \in 0 .. Len(laces)] == IF i = 0 THEN 0 ELSE sum[i - 1] + laces[i]
  IN  sum[Len(laces)]

Fresh == [pk |-> <<>>, pg |-> <<>>, serial |-> 0]

NoPacket == [len |-> 0, start |-> 0, end |-> 0]

(* One lace of the page at `at': a packet ends with the first below Lace.  *)
Limit(x) == IF Len(x.s.pk) = 1 THEN MaxTags ELSE MaxPacket

LaceParsed(x, sl) ==
  LET a == IF x.acc.len = 0 THEN [len |-> sl, start |-> x.next, end |-> x.end]
           ELSE [x.acc EXCEPT !.len = @ + sl]
      y == [x EXCEPT !.next = @ + sl]
  IN  IF sl > Limit(x) - x.acc.len THEN [y EXCEPT !.ok = FALSE]
      ELSE IF sl < Lace
      THEN [y EXCEPT !.s.pk = Append(@, [off |-> a.start, end |-> a.end, len |-> a.len]),
                     !.acc = NoPacket]
      ELSE [y EXCEPT !.acc = a]

(* The page at `at' is whole and good; opens a link unless it is the first. *)
Whole(h) == h.crc /\ at + 1 + Total(h.laces) <= Len(file)

Opens(h) == s.pg # <<>> /\ (h.serial # s.serial \/ h.page = 2)

AtPage == at < Len(file) /\ IsHeader(file[at + 1])

parse_page ==
  LET h == file[at + 1]
      end == at + 1 + Total(h.laces)
      x == FoldLeft(LaceParsed,
             [s |-> [pk |-> s.pk, serial |-> h.serial,
                     pg |-> Append(s.pg, [htype |-> h.page, nsegs |-> Len(h.laces),
                                          seq |-> h.seq, gran |-> h.gran])],
              acc |-> acc, next |-> at + 1, end |-> end, ok |-> TRUE], h.laces)
  IN  [x EXCEPT !.next = end]

(* The bytes of a packet: to the end of its page, and on after the header  *)
(* of the next.                                                            *)
RECURSIVE packet_read(_, _, _)
packet_read(off, end, left) ==
  IF left <= end - off THEN SubSeq(file, off + 1, off + left)
  ELSE SubSeq(file, off + 1, end)
       \o packet_read(end + 1, end + 1 + Total(file[end + 1].laces), left - (end - off))

PacketOf(pk) == packet_read(pk.off, pk.end, pk.len)

(* What parse_stream asks of a link, and opus_pack of its packets.         *)
OpusHead(cells) == Len(cells) >= HeadLen /\ cells[1].byte = "head"

LinkGood ==
  /\ acc.len = 0
  /\ Len(s.pk) >= 2
  /\ OpusHead(PacketOf(s.pk[1]))
  /\ Len(s.pk) <= MaxCount /\ Len(s.pg) <= MaxCount

PacketsParse ==
  \A i \in 3 .. Len(s.pk) : s.pk[i].len >= 1 /\ PacketOf(s.pk[i])[1].byte = "toc"

-----------------------------------------------------------------------------
(* The page writer.                                                        *)

Writer == [pg |-> 1, laces |-> <<>>, body |-> <<>>, partial |-> 0, out |-> <<>>, over |-> FALSE]

page_flush(x, st) ==
  LET p == st.pg[x.pg]
  IN  [x EXCEPT !.out = @ \o <<[page |-> p.htype, serial |-> st.serial, seq |-> p.seq,
                                gran |-> p.gran, laces |-> x.laces, crc |-> TRUE]>> \o x.body,
                !.pg = @ + 1, !.laces = <<>>, !.body = <<>>]

(* At most one page is passed over.                                        *)
FlushedOnce(x, st) ==
  IF x.pg <= Len(st.pg) /\ st.pg[x.pg].nsegs = 0 THEN page_flush(x, st) ELSE x

page_empty(x, st) ==
  LET n == Len(st.pg)
      stop == CHOOSE i \in x.pg .. n + 1 :
                /\ i = n + 1 \/ st.pg[i].nsegs # 0
                /\ \A j \in x.pg .. i - 1 : st.pg[j].nsegs = 0
  IN  FoldLeft(LAMBDA y, i : page_flush(y, st), x, [i \in 1 .. stop - x.pg |-> i])

PageFor(x, st) ==
  LET y == page_empty(x, st) IN IF y.pg > Len(st.pg) THEN [y EXCEPT !.over = TRUE] ELSE y

page_lace(x, st) ==
  LET y == [x EXCEPT !.laces = Append(@, x.partial), !.partial = 0]
  IN  IF Len(y.laces) = st.pg[y.pg].nsegs THEN page_flush(y, st) ELSE y

PageByte(x, st, cell) ==
  LET y == PageFor(x, st)
      z == [y EXCEPT !.body = Append(@, cell), !.partial = @ + 1]
  IN  IF y.over THEN y ELSE IF z.partial = Lace THEN page_lace(z, st) ELSE z

page_bytes(x, st, cells) == FoldLeft(LAMBDA y, c : PageByte(y, st, c), x, cells)

page_endpacket(x, st) ==
  LET y == PageFor(x, st) IN IF y.over THEN y ELSE page_lace(y, st)

page_packet(x, st, cells) == page_endpacket(page_bytes(x, st, cells), st)

-----------------------------------------------------------------------------
(* opus_pack, a page at a time.                                            *)

Init ==
  /\ file \in OpusFiles
  /\ at = 0 /\ s = Fresh /\ acc = NoPacket /\ cs = FieldState
  /\ links = <<>> /\ li = 0 /\ k = 0 /\ w = Writer /\ out = <<>>
  /\ phase = "pack"

unpacking == <<li, k, w, out>>

Refuse == phase' = "refused" /\ UNCHANGED <<file, at, s, acc, cs, links, unpacking>>

(* The next page joins the link, or spoils the file.                       *)
ParsePage ==
  /\ phase = "pack" /\ AtPage
  /\ LET h == file[at + 1]
     IN  /\ Whole(h) => ~Opens(h)
         /\ IF ~Whole(h) \/ ~parse_page.ok THEN Refuse
            ELSE /\ s' = parse_page.s /\ acc' = parse_page.acc /\ at' = parse_page.next
                 /\ UNCHANGED <<file, cs, links, unpacking, phase>>

(* The codes of a list, each made in the state after the one before.       *)
Coded(c, list, Code(_, _), After(_, _)) ==
  FoldLeft(LAMBDA x, e : [c |-> After(x.c, e), codes |-> Append(x.codes, Code(x.c, e))],
           [c |-> c, codes |-> <<>>], list)

AudioOf(pk) ==
  [i \in 1 .. Len(pk) - 2 |-> [nhdr |-> 1, len |-> pk[i + 2].len, cells |-> PacketOf(pk[i + 2])]]

CodedLink ==
  LET p == Coded(cs, s.pg, oc_page, AfterPage)
      a == Coded(p.c, AudioOf(s.pk), oc_packet_hdr, AfterPacket)
  IN  [cs |-> a.c,
       link |-> [npk |-> Len(s.pk), npg |-> Len(s.pg), serial |-> s.serial, pg |-> p.codes,
                 head |-> PacketOf(s.pk[1]), tags |-> PacketOf(s.pk[2]), audio |-> a.codes]]

(* The link ends at the next one or at the end of the file.                *)
opus_pack_link ==
  /\ phase = "pack"
  /\ AtPage => Whole(file[at + 1]) /\ Opens(file[at + 1])
  /\ IF ~LinkGood \/ ~PacketsParse \/ ~(AtPage \/ at = Len(file)) THEN Refuse
     ELSE /\ links' = Append(links, CodedLink.link)
          /\ s' = Fresh
          /\ IF at < Len(file) THEN phase' = "pack" /\ cs' = CodedLink.cs
             ELSE phase' = "unpack" /\ cs' = FieldState
          /\ UNCHANGED <<file, at, acc, unpacking>>

-----------------------------------------------------------------------------
(* opus_unpack, a packet at a time, and the comments in any batches.       *)

packing == <<file, at, acc, links>>

Fail(why) == phase' = why /\ UNCHANGED <<packing, s, cs, unpacking>>

opus_unpack_link ==
  /\ phase = "unpack" /\ li < Len(links) /\ k = 0
  /\ LET x == links[li + 1]
         p == FoldLeft(LAMBDA y, e : [c |-> AfterPage(y.c, DecodedPage(y.c, e)),
                                      pg |-> Append(y.pg, DecodedPage(y.c, e))],
                       [c |-> cs, pg |-> <<>>], x.pg)
         st == [pk |-> <<>>, pg |-> p.pg, serial |-> x.serial]
         y == page_packet([Writer EXCEPT !.out = w.out], st, x.head)
     IN  /\ li' = li + 1 /\ k' = 2 /\ s' = st /\ cs' = p.c /\ w' = y
         /\ phase' = IF y.over THEN "fatal" ELSE phase
         /\ UNCHANGED <<packing, out>>

(* page_bytes as the comment coder calls it, out being what it has given.  *)
WriteTags ==
  /\ phase = "unpack" /\ k = 2
  /\ LET tags == links[li].tags
     IN  \E n \in 1 .. Len(tags) - Len(out) :
           /\ w' = page_bytes(w, s, SubSeq(tags, Len(out) + 1, Len(out) + n))
           /\ out' = out \o SubSeq(tags, Len(out) + 1, Len(out) + n)
           /\ phase' = IF w'.over THEN "fatal" ELSE phase
  /\ UNCHANGED <<packing, s, cs, li, k>>

EndTags ==
  /\ phase = "unpack" /\ k = 2 /\ Len(out) = Len(links[li].tags)
  /\ w' = page_endpacket(w, s) /\ out' = <<>> /\ k' = 3
  /\ phase' = IF w'.over THEN "fatal" ELSE phase
  /\ UNCHANGED <<packing, s, cs, li>>

WritePacket ==
  /\ phase = "unpack" /\ k > 2 /\ k <= links[li].npk
  /\ LET p == DecodedPacket(cs, links[li].audio[k - 2])
     IN  IF p.len < 1 \/ p.len > MaxPacket \/ p.nhdr < 1 \/ p.nhdr > p.len THEN Fail("lost")
         ELSE /\ w' = page_packet(w, s, p.cells) /\ cs' = AfterPacket(cs, p) /\ k' = k + 1
              /\ phase' = IF w'.over THEN "fatal" ELSE phase
              /\ UNCHANGED <<packing, s, li, out>>

EndLink ==
  /\ phase = "unpack" /\ k > 2 /\ k > links[li].npk
  /\ LET x == page_empty(w, s)
     IN  IF x.pg # Len(s.pg) + 1 \/ x.laces # <<>> THEN Fail("fatal")
         ELSE /\ w' = x /\ k' = 0 /\ phase' = IF li = Len(links) THEN "done" ELSE phase
              /\ UNCHANGED <<packing, s, cs, li, out>>

Next ==
  \/ ParsePage \/ opus_pack_link
  \/ opus_unpack_link \/ WriteTags \/ EndTags \/ WritePacket \/ EndLink

Spec == Init /\ [][Next]_opVars

-----------------------------------------------------------------------------
(* Every file that is packed comes back cell for cell, whatever pages its  *)
(* packets lie on (parse_stream, page_bytes, page_endpacket), and neither  *)
(* check of the page writer can fail on it.                                *)
OpusComesBack ==
  /\ phase = "done" => w.out = file
  /\ phase \notin {"fatal", "lost"}
=============================================================================
