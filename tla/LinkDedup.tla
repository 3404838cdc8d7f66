----------------------------- MODULE LinkDedup -----------------------------
(***************************************************************************)
(* How src/codec.c codes the links of a chained Vorbis file, and how it    *)
(* gets the file back: pack_once finds the links, those that repeat an     *)
(* earlier one and those whose header pages do, and codes the rest;        *)
(* vb_unpack codes nothing twice either, but replays what it has written.  *)
(*                                                                         *)
(* A file is a sequence of pages, a page a sequence of whole packets.      *)
(* What is coded is kept as symbols, each with the state of the model that *)
(* coded it: a symbol decoded in another state is garbled.  That stands    *)
(* for the coder's bits, and makes it matter that both sides reset their   *)
(* models, count header packets and choose a setup alike.                  *)
(*                                                                         *)
(* Links, pages and streams are numbered from one, and 0 is the -1 of the  *)
(* code.  Packets that continue on a later page, checksums, byte lengths   *)
(* and the batches of replay and samerun are left out.                     *)
(***************************************************************************)
EXTENDS Integers, SequencesExt

CONSTANTS
  Idents, Comments, Setups,  \* header packets, by what they are
  Audio,                     \* audio packets
  Files,                     \* the files that are encoded
  Options                    \* the vb_opt that callers give: [solid, dd, df]

Headers == Idents \cup Comments \cup Setups

Pages == [open : BOOLEAN, eos : BOOLEAN, serial : Int, pkts : Seq(Audio \cup Headers)]

ASSUME PacketAssumption ==
  Audio \cap Headers = {} /\ Comments \cap Setups = {} /\ "garbled" \notin Audio \cup Headers
ASSUME FileAssumption == Files \subseteq Seq(Pages)
ASSUME OptionAssumption == Options \subseteq [solid : BOOLEAN, dd : BOOLEAN, df : BOOLEAN]

VARIABLES
  input,   \* the pages of the file
  opt,     \* its options
  links,   \* lk
  at,      \* the link at hand
  enc,     \* the encoder's models and lists
  dec,     \* the decoder's models and lists
  ctl,     \* the symbols of the control stream
  streams, \* the symbols of the links' streams
  output,  \* the pages the decoder has written
  phase

vars == <<input, opt, links, at, enc, dec, ctl, streams, output, phase>>

-----------------------------------------------------------------------------
(* Pages and links.                                                        *)

(* A page of nothing but header packets.                                   *)
allhdr(p) == p.pkts # <<>> /\ \A i \in DOMAIN p.pkts : p.pkts[i] \in Headers

Opens(pg) == {k \in DOMAIN pg : pg[k].open}

(* A page before any bitstream, or after the end of one.                   *)
Stray(pg, k) ==
  \A j \in 1 .. k :
    pg[j].open => \E i \in j .. k - 1 : pg[i].eos /\ \A m \in i + 1 .. k : ~pg[m].open

Link(pg, a) ==
  LET later == {k \in Opens(pg) : k > a}
  IN  [a |-> a, z |-> IF later = {} THEN Len(pg) ELSE Min(later) - 1,
       serial |-> pg[a].serial, rep |-> 0, hdup |-> 0, rec |-> FALSE, keep |-> FALSE,
       setup |-> 0]

LinksOf(pg) ==
  FoldLeft(LAMBDA ls, k : IF pg[k].open THEN Append(ls, Link(pg, k)) ELSE ls,
           <<>>, [k \in DOMAIN pg |-> k])

runof(l) == SubSeq(input, l.a, l.z)

(* The pages of a run that are headers, up to one that is not.             *)
HeaderPages(run) ==
  LET rest == {k \in DOMAIN run : ~allhdr(run[k])}
  IN  SubSeq(run, 1, IF rest = {} THEN Len(run) ELSE Min(rest) - 1)

(* A header run that takes in the first page of its link.                  *)
HeaderRunWhole(l) == HeaderPages(runof(l))

hdrrun(l) == HeaderPages(Tail(runof(l)))

(* Runs are compared without their serial numbers.                         *)
samerun(x, y) ==
  /\ Len(x) = Len(y)
  /\ \A k \in DOMAIN x : [x[k] EXCEPT !.serial = 0] = [y[k] EXCEPT !.serial = 0]

(* The header pages of a link that reuses those of another are skipped.    *)
Skipped(l, k) == l.hdup # 0 /\ k \in l.a + 1 .. l.a + Len(hdrrun(l))

Scan ==
  /\ phase = "scan"
  /\ IF input # <<>> /\ \A k \in DOMAIN input : ~Stray(input, k)
       THEN links' = LinksOf(input) /\ phase' = "compare"
       ELSE links' = links /\ phase' = "refused"
  /\ UNCHANGED <<input, opt, at, enc, dec, ctl, streams, output>>

(* Earlier links that are not replays themselves and have the same pages.  *)
Repeats(i) == {j \in 1 .. i - 1 : links[j].rep = 0 /\ samerun(runof(links[i]), runof(links[j]))}

(* Earlier links that code their headers, and have the same ones.          *)
HeaderRepeats(i) ==
  {j \in 1 .. i - 1 : /\ links[j].rep = 0 /\ links[j].hdup = 0
                      /\ samerun(hdrrun(links[i]), hdrrun(links[j]))}

WholeRepeated(ls, i) ==
  LET found == IF opt.dd THEN {} ELSE Repeats(i)
  IN  IF found = {} THEN ls ELSE [ls EXCEPT ![i].rep = Min(found), ![Min(found)].rec = TRUE]

HeaderRepeated(ls, i) ==
  LET found == IF opt.df \/ hdrrun(ls[i]) = <<>> THEN {} ELSE HeaderRepeats(i)
  IN  IF ls[i].rep # 0 \/ found = {} THEN ls
      ELSE [ls EXCEPT ![i].hdup = Min(found), ![Min(found)].keep = TRUE]

(* The first repeat is taken, of the whole link before that of headers.    *)
Compare ==
  /\ phase = "compare"
  /\ links' = HeaderRepeated(WholeRepeated(links, at), at)
  /\ IF at < Len(links) THEN at' = at + 1 /\ phase' = phase ELSE at' = 1 /\ phase' = "encode"
  /\ UNCHANGED <<input, opt, enc, dec, ctl, streams, output>>

-----------------------------------------------------------------------------
(* The models.  v has the setups of all links, the one in use, and the     *)
(* number of packets since its last reset; h predicts a serial from the    *)
(* last one and counts the headers since its last reset.                   *)

Models == [v |-> [su |-> <<>>, cur |-> 0, age |-> 0], h |-> [last |-> 0, age |-> 0]]

vb_reset(v) == [v EXCEPT !.age = 0]
vb_use(v, n) == IF n = 0 THEN v ELSE [v EXCEPT !.cur = n]
ogg_hdr_reset(h) == [h EXCEPT !.last = 0]

(* What the packet layer codes packet number w of a link with.             *)
State(v, w) ==
  [which |-> IF w < 3 THEN w ELSE 3, age |-> v.age,
   setup |-> IF w < 3 THEN "none" ELSE v.su[v.cur]]

(* A packet leaves its mark on the models, the third one also a setup.     *)
Seen(v, w, pk) ==
  LET u == [v EXCEPT !.age = @ + 1]
  IN  IF w = 2 THEN [u EXCEPT !.su = Append(@, pk), !.cur = Len(v.su) + 1] ELSE u

(* The second header is coded whatever it is.                              *)
Parses(v, w, pk) ==
  CASE w = 0 -> pk \in Idents
    [] w = 1 -> pk \in Headers
    [] w = 2 -> pk \in Setups
    [] w = 3 -> pk \in Audio /\ v.cur # 0
    [] OTHER -> FALSE

SerialSeen(h, serial) == [last |-> serial, age |-> h.age + 1]

PutSerial(h, serial) == [age |-> h.age, delta |-> serial - h.last]
GetSerial(h, s) == IF s.age = h.age THEN h.last + s.delta ELSE -1

-----------------------------------------------------------------------------
(* Encoding.  A link's streams are the heads of its pages and its packets. *)

Coder(m, ok) == [v |-> m.v, h |-> m.h, w |-> 0, heads |-> <<>>, bulk |-> <<>>, ok |-> ok]

EncodedPacket(c, pk) ==
  IF c.ok /\ Parses(c.v, c.w, pk)
    THEN [c EXCEPT !.bulk = Append(@, [state |-> State(c.v, c.w), pk |-> pk]),
                   !.v = Seen(@, c.w, pk), !.w = IF pk \in Headers THEN @ + 1 ELSE @]
    ELSE [c EXCEPT !.ok = FALSE]

(* A skipped page only counts its packets; another has its head coded,     *)
(* without the mark of a first page, and its packets.                      *)
EncodedPage(c, p, skip) ==
  IF skip THEN [c EXCEPT !.w = @ + Len(p.pkts)]
  ELSE FoldLeft(EncodedPacket,
                [c EXCEPT !.heads = Append(@, [serial |-> PutSerial(c.h, p.serial),
                                               eos |-> p.eos, np |-> Len(p.pkts)]),
                          !.h = SerialSeen(@, p.serial)],
                p.pkts)

(* Models at the start of a link.                                          *)
LinkModels(m, again, setup) ==
  [v |-> vb_use(IF again THEN vb_reset(m.v) ELSE m.v, setup),
   h |-> ogg_hdr_reset(IF again THEN Models.h ELSE m.h)]

(* A link is coded with the setup that its headers, coded or reused, end   *)
(* up with.                                                                *)
enc_link(m, l, again, setup) ==
  FoldLeft(LAMBDA c, k : EncodedPage(c, input[k], Skipped(l, k)),
           Coder(LinkModels(m, again, setup), TRUE),
           [n \in 1 .. l.z - l.a + 1 |-> l.a + n - 1])

PagesOf(l) == Cardinality({k \in l.a .. l.z : ~Skipped(l, k)})

Position(list, n) == CHOOSE j \in DOMAIN list : list[j] = n

(* A distance that is one for the latest entry.                            *)
BackFromOne(list, n) == Len(list) - Position(list, n) + 1

Back(list, n) == Len(list) - Position(list, n)

Step ==
  IF at < Len(links) THEN at' = at + 1 /\ phase' = phase ELSE at' = 1 /\ phase' = "decode"

(* A whole link is replayed: how far back it is on the list of recorded    *)
(* ones, and the serial.                                                   *)
EncodeReplay ==
  LET l == links[at]
  IN  /\ phase = "encode" /\ l.rep # 0
      /\ IF Contains(enc.recl, l.rep)
           THEN /\ ctl' = Append(ctl, [rep |-> TRUE, back |-> Back(enc.recl, l.rep),
                                       serial |-> PutSerial(enc.h, l.serial)])
                /\ enc' = [enc EXCEPT !.h = SerialSeen(@, l.serial)]
                /\ Step
           ELSE phase' = "failed" /\ UNCHANGED <<ctl, enc, at>>
      /\ UNCHANGED <<input, opt, links, dec, streams, output>>

EncodeLink ==
  LET l == links[at]
      setup == IF l.hdup # 0 THEN links[l.hdup].setup ELSE 0
      c == enc_link([v |-> enc.v, h |-> enc.h], l, ~opt.solid /\ at > 1, setup)
  IN  /\ phase = "encode" /\ l.rep = 0
      /\ IF l.hdup # 0 /\ ~Contains(enc.keepl, l.hdup)
           THEN phase' = "failed" /\ UNCHANGED <<links, at, enc, ctl, streams>>
         ELSE IF ~c.ok
           THEN phase' = "refused" /\ UNCHANGED <<links, at, enc, ctl, streams>>
         ELSE
           /\ ctl' = Append(ctl, [rep |-> FALSE, rec |-> l.rec, dup |-> l.hdup # 0,
                                  back |-> IF l.hdup # 0 THEN Back(enc.keepl, l.hdup) ELSE 0,
                                  keep |-> l.keep, pages |-> PagesOf(l)])
           /\ streams' = Append(streams, [heads |-> c.heads, bulk |-> c.bulk])
           /\ links' = [links EXCEPT ![at].setup =
                          IF Len(c.v.su) > Len(enc.v.su) THEN Len(c.v.su) ELSE setup]
           /\ enc' = [v |-> c.v, h |-> c.h,
                      recl |-> IF l.rec THEN Append(enc.recl, at) ELSE enc.recl,
                      keepl |-> IF l.keep THEN Append(enc.keepl, at) ELSE enc.keepl]
           /\ Step
      /\ UNCHANGED <<input, opt, dec, output>>

-----------------------------------------------------------------------------
(* Decoding.                                                               *)

DecodedPacket(d, s) ==
  LET same == s.state = State(d.v, d.w)
      pk == IF same THEN s.pk ELSE "garbled"
  IN  [d EXCEPT !.pkts = Append(@, pk), !.v = Seen(@, d.w, pk),
                !.w = IF @ < 3 THEN @ + 1 ELSE @]

(* Pages already written, with another serial on all of them.              *)
replay(off, len, serial) ==
  [k \in 1 .. len |-> [output[off + k] EXCEPT !.serial = serial]]

(* A page whose head is coded; behind the first one go the replayed ones.  *)
DecodedPage(d, head, bulk, kept) ==
  LET first == d.n = 0
      serial == GetSerial(d.h, head.serial)
      e == FoldLeft(DecodedPacket, [d EXCEPT !.pkts = <<>>, !.h = SerialSeen(@, serial)],
                    SubSeq(bulk, d.used + 1, d.used + head.np))
      page == [open |-> first, eos |-> head.eos, serial |-> serial, pkts |-> e.pkts]
      again == IF first THEN replay(kept.off, kept.len, serial) ELSE <<>>
  IN  [e EXCEPT !.n = @ + 1, !.used = @ + head.np,
                !.out = @ \o <<page>> \o again,
                !.w = IF first THEN @ + kept.npk ELSE @]

(* How many packets pages have.                                            *)
PacketsOf(pages) == FoldLeft(LAMBDA n, p : n + Len(p.pkts), 0, pages)

(* Header pages kept with the first page of the link.                      *)
KeptWhole(off, run, setup) ==
  LET heads == HeaderPages(run)
  IN  [off |-> off, len |-> Len(heads), setup |-> setup, npk |-> PacketsOf(heads)]

(* What a decoder keeps of the header pages it finds in its output.        *)
Kept(off, run, setup) ==
  LET heads == HeaderPages(Tail(run))
  IN  [off |-> off + 1, len |-> Len(heads), setup |-> setup, npk |-> PacketsOf(heads)]

NothingKept == [off |-> 0, len |-> 0, setup |-> 0, npk |-> 0]

DecodeReplay ==
  /\ phase = "decode" /\ at <= Len(ctl) /\ ctl[at].rep
  /\ LET c == ctl[at]
         serial == GetSerial(dec.h, c.serial)
         r == dec.rec[Len(dec.rec) - c.back]
     IN  IF c.back < Len(dec.rec)
           THEN /\ output' = output \o replay(r.off, r.len, serial)
                /\ dec' = [dec EXCEPT !.h = SerialSeen(@, serial)]
                /\ at' = at + 1 /\ phase' = phase
           ELSE phase' = "failed" /\ UNCHANGED <<output, dec, at>>
  /\ UNCHANGED <<input, opt, links, enc, ctl, streams>>

(* The link's pages, decoded with the setup of its headers.                *)
LinkDecoded(c, kept) ==
  LET s == streams[dec.si]
      m == LinkModels([v |-> dec.v, h |-> dec.h], ~opt.solid /\ dec.si > 1, kept.setup)
  IN  FoldLeft(LAMBDA d, head : DecodedPage(d, head, s.bulk, kept),
               [v |-> m.v, h |-> m.h, w |-> 0, n |-> 0, used |-> 0, pkts |-> <<>>,
                out |-> <<>>],
               SubSeq(s.heads, 1, c.pages))

(* Only the last page of a link may end the stream.                        *)
EndsEarly(c) == \E n \in 1 .. c.pages - 1 : streams[dec.si].heads[n].eos

DecodeLink ==
  /\ phase = "decode" /\ at <= Len(ctl) /\ ~ctl[at].rep
  /\ LET c == ctl[at]
         kept == IF c.dup THEN dec.keep[Len(dec.keep) - c.back] ELSE NothingKept
         d == LinkDecoded(c, kept)
         setup == IF Len(d.v.su) > Len(dec.v.su) THEN Len(d.v.su) ELSE kept.setup
     IN  IF /\ dec.si <= Len(streams) /\ c.dup => c.back < Len(dec.keep)
            /\ c.pages > 0 /\ ~EndsEarly(c)
           THEN /\ output' = output \o d.out
                /\ dec' = [v |-> d.v, h |-> d.h, si |-> dec.si + 1,
                           rec |-> IF c.rec
                                     THEN Append(dec.rec, [off |-> Len(output), len |-> Len(d.out)])
                                     ELSE dec.rec,
                           keep |-> IF c.keep
                                      THEN Append(dec.keep, Kept(Len(output), d.out, setup))
                                      ELSE dec.keep]
                /\ at' = at + 1 /\ phase' = phase
           ELSE phase' = "failed" /\ UNCHANGED <<output, dec, at>>
  /\ UNCHANGED <<input, opt, links, enc, ctl, streams>>

DecodeEnd ==
  /\ phase = "decode" /\ at > Len(ctl)
  /\ phase' = IF dec.si = Len(streams) + 1 THEN "done" ELSE "failed"
  /\ UNCHANGED <<input, opt, links, at, enc, dec, ctl, streams, output>>

Init ==
  /\ input \in Files /\ opt \in Options
  /\ links = <<>> /\ at = 1 /\ ctl = <<>> /\ streams = <<>> /\ output = <<>>
  /\ enc = [v |-> Models.v, h |-> Models.h, recl |-> <<>>, keepl |-> <<>>]
  /\ dec = [v |-> Models.v, h |-> Models.h, si |-> 1, rec |-> <<>>, keep |-> <<>>]
  /\ phase = "scan"

Next ==
  \/ Scan \/ Compare \/ EncodeReplay \/ EncodeLink
  \/ DecodeReplay \/ DecodeLink \/ DecodeEnd

Spec == Init /\ [][Next]_vars

-----------------------------------------------------------------------------
(* Properties.                                                             *)

(* The bookkeeping stays within its ranges: a link refers to earlier ones  *)
(* only, and to one that has the referred pages itself.                    *)
TypeOK ==
  /\ at \in 1 .. Len(links) + 1
  /\ \A i \in DOMAIN links :
       LET l == links[i]
       IN  /\ l.a <= l.z /\ l.setup \in 0 .. Len(enc.v.su)
           /\ l.rep # 0 => l.rep < i /\ l.hdup = 0 /\ links[l.rep].rep = 0 /\ links[l.rep].rec
           /\ l.hdup # 0 => /\ l.hdup < i /\ ~l.keep
                            /\ links[l.hdup].rep = 0 /\ links[l.hdup].keep
  /\ phase \in {"scan", "compare", "encode", "decode", "done", "refused", "failed"}

(* The decoder writes the very pages of the input, and all of them: the    *)
(* codec is lossless.                                                      *)
Lossless ==
  /\ IsPrefix(output, input)
  /\ phase = "done" => output = input

(* A file that was coded is decoded: neither the encoder's internal checks *)
(* nor the decoder's can fire.                                             *)
NeverFails == phase # "failed"

(* The decoder's lists, which it makes of its own output, are those the    *)
(* encoder made of the input: place, length, setup and header packets.     *)
ListsAgree ==
  phase = "decode" =>
    LET before(list) == SubSeq(list, 1, Cardinality({n \in DOMAIN list : list[n] < at}))
        recl == before(enc.recl)
        keepl == before(enc.keepl)
    IN  /\ dec.rec = [n \in DOMAIN recl |->
                        LET l == links[recl[n]] IN [off |-> l.a - 1, len |-> l.z - l.a + 1]]
        /\ dec.keep = [n \in DOMAIN keepl |->
                         LET l == links[keepl[n]]
                         IN  [off |-> l.a, len |-> Len(hdrrun(l)), setup |-> l.setup,
                              npk |-> PacketsOf(hdrrun(l))]]
=============================================================================
