----------------------------- MODULE MCFormats ------------------------------
(***************************************************************************)
(* The formats that are coded field by field, each machine by itself: the  *)
(* pages of Opus files, those of Vorbis files, the symbols of Opus frames, *)
(* comment packets, the audio packets of Vorbis files, the framing of Opus *)
(* packets, the entropy coder of their frames and how those are taken      *)
(* apart and rebuilt.                                                      *)
(***************************************************************************)
EXTENDS Integers, SequencesExt, OpusPackets, OpusSymbols, MCOpusSymbols, MCComments, MCOpusRange, MCOpusPackets,
        MCOpusStreams, MCVorbisAudio

CONSTANTS Lace, MaxPacket, MaxTags, MaxCount, HeadLen, PageWord, Escape, WordBits, MaxSeg

VARIABLES
  focus,
  file, at, s, acc, cs, links, li, k, w, out, phase,
  pages, sound, pi, h, hand, meta, packs, counts, written, stage,
  packet, cmt, jobs,
  frame, dec, mirror, vals, state,
  stream, place, side, pk, fr, st, locals, read, ec, todo, oc, orig, made, code, fh, gone, walk,
  given, vb, pkt, io, work, step

Total(l) ==
  LET sum[i \in 0 .. Len(l)] == IF i = 0 THEN 0 ELSE sum[i - 1] + l[i] IN sum[Len(l)]

(* The laces of a packet of n bytes.                                       *)
LacesOf(n, full) == Append([i \in 1 .. n \div full |-> full], n % full)

(* All ways to cut n laces into m pages of at most `most': how many laces  *)
(* there are before each page, and in all.                                 *)
Cuts(n, m, most) ==
  LET after(c) == Last(c) .. (IF Last(c) + most < n THEN Last(c) + most ELSE n)
  IN  {c \in FoldLeft(LAMBDA all, i : UNION {{Append(c, x) : x \in after(c)} : c \in all},
                      {<<0>>}, [i \in 1 .. m |-> i]) : Last(c) = n}

(* Laces and bytes of the pages that packets make when cut so.             *)
OnPages(packets, cuts, full) ==
  LET laces == FlattenSeq([i \in DOMAIN packets |-> LacesOf(Len(packets[i]), full)])
      body == FlattenSeq(packets)
      upto(i) == Total(SubSeq(laces, 1, cuts[i]))
  IN  [i \in 1 .. Len(cuts) - 1 |->
         [laces |-> SubSeq(laces, cuts[i] + 1, cuts[i + 1]),
          body |-> SubSeq(body, upto(i) + 1, upto(i + 1))]]

-----------------------------------------------------------------------------
(* Opus files.                                                             *)

Cells(p) ==
  <<[page |-> p.htype, serial |-> p.serial, seq |-> p.seq, gran |-> p.gran, laces |-> p.laces,
     crc |-> TRUE]>> \o p.body

Bytes(kind, n) == [i \in 1 .. n |-> [byte |-> IF i = 1 THEN kind ELSE "other", i |-> i]]

OpusFilePackets(t, a) == <<Bytes("head", 2), Bytes("other", t), Bytes("toc", a), Bytes("toc", 1)>>

(* Granule positions that grow or fall over the end, or are not there, and *)
(* page numbers that go on from the end to the beginning.                  *)
OpusLaid(packets, cuts, serial, way) ==
  LET laid == OnPages(packets, cuts, Lace)
      Gran(i) == CASE way = "grow" -> (5 + 2 * i) % PageWord [] way = "fall" -> (2 - 3 * i) % PageWord
                   [] way = "none" -> IF i % 2 = 0 THEN PageWord - 1 ELSE i [] OTHER -> 1
  IN  [i \in DOMAIN laid |->
        Cells([htype |-> IF i = 1 THEN 2 ELSE 0, serial |-> serial, seq |-> (PageWord - 2 + i) % PageWord,
               gran |-> Gran(i), laces |-> laid[i].laces, body |-> laid[i].body])]

OpusLayouts(t, a, m, serial, way) ==
  {OpusLaid(OpusFilePackets(t, a), c, serial, way) : c \in Cuts(4 + (t \div Lace) + (a \div Lace), m, 9)}

OpusSound ==
  UNION {OpusLayouts(t, a, 4, 1, "same") : t \in 0 .. 3, a \in 1 .. 3}
  \cup UNION {OpusLayouts(1, 2, 3, 1, way) : way \in {"grow", "fall", "none"}}

(* Two links, the second of another serial or of the same, and a link cut  *)
(* short in front of another.                                              *)
OpusChained ==
  {x \o y : x \in OpusLayouts(2, 1, 2, 1, "grow"),
            y \in UNION {OpusLayouts(1, 2, 2, n, "none") : n \in 1 .. 2}}
  \cup {Front(x) \o x : x \in OpusLayouts(1, 1, 2, 1, "fall")}

(* A page that is lost, comes twice or has a bad checksum, and files that  *)
(* end too early or too late.                                              *)
OpusFew == OpusLayouts(1, 2, 3, 1, "grow")

OpusAmiss ==
  UNION {{RemoveAt(x, i), InsertAt(x, i, x[i]), [x EXCEPT ![i][1].crc = FALSE]} : x \in OpusFew, i \in 1 .. 3}
  \cup {Append(Front(x), Front(Last(x))) : x \in OpusFew}
  \cup {Append(x, Bytes("other", 1)) : x \in OpusFew}

OpusFiles == {FlattenSeq(x) : x \in OpusSound \cup OpusChained \cup OpusAmiss}

-----------------------------------------------------------------------------
(* Vorbis files.                                                           *)

Depths == [f \in {"type", "glo", "ghi", "serial", "seq", "np", "plen", "ct"} |->
             IF f = "np" THEN 1 ELSE 2]

(* A packet of n bytes that begins with `first'.                           *)
Packet(first, n) == [i \in 1 .. n |-> IF i = 1 THEN first ELSE 7 + i]

VorbisPackets(c, a) == <<Packet(1, 1), Packet(1, c), Packet(1, 1), Packet(2, a), Packet(3, 1)>>

(* The pages, with the flags they have to have, page i of granule g(i).    *)
Flags(laid, i) ==
  (IF i > 1 /\ laid[i - 1].laces # <<>> /\ Last(laid[i - 1].laces) = MaxSeg THEN 1 ELSE 0)
  + (IF i = 1 THEN 2 ELSE 0) + (IF i = Len(laid) THEN 4 ELSE 0)

(* Granule positions and page numbers that grow as they should, that fall  *)
(* and that are the same for all pages but the last.                       *)
Granule(way, i) == CASE way = "grow" -> 3 * i [] way = "fall" -> (260 - 37 * i) % 256 [] OTHER -> 255

Number(way, i) == CASE way = "grow" -> i [] way = "fall" -> (16 - 7 * i) % 16 [] OTHER -> 15

VorbisLaid(packets, cuts, serial, way) ==
  LET laid == OnPages(packets, cuts, MaxSeg)
  IN  [i \in DOMAIN laid |->
         [type |-> Flags(laid, i), glo |-> Granule(way, i) % 16, ghi |-> Granule(way, i) \div 16,
          serial |-> serial, seq |-> Number(way, i) % 16, crc |-> TRUE,
          laces |-> laid[i].laces, body |-> laid[i].body]]

(* The first packet has a page to itself.                                  *)
VorbisCuts(n, m) == {c \in Cuts(n, m, MaxSeg) : c[2] = 1 /\ c[m] < n}

(* A page without laces inside a packet is refused.                        *)
Gap(v) ==
  \E i \in 2 .. Len(v), j \in 1 .. Len(v) :
    /\ j < i /\ v[j].laces # <<>> /\ Last(v[j].laces) = MaxSeg
    /\ \A l \in j + 1 .. i : v[l].laces = <<>>

Layouts(way, c, a, ms) ==
  {VorbisLaid(VorbisPackets(c, a), cuts, 5, way) :
     cuts \in UNION {VorbisCuts(5 + (c \div MaxSeg) + (a \div MaxSeg), m) : m \in ms}}

Regular ==
  UNION {Layouts("grow", c, a, 3 .. 7) : c \in 1 .. 2, a \in {1, 2, 4}}
  \cup UNION {Layouts(way, 1, 1, 3 .. 4) : way \in {"fall", "same"}}

SoundFiles == {v \in Regular : ~Gap(v)}

(* Two links, and one that is cut short and followed by another.           *)
Chained ==
  {x \o [i \in DOMAIN x |-> [x[i] EXCEPT !.serial = 12]] : x \in Layouts("fall", 2, 2, {5})}
  \cup {Front(x) \o x : x \in Layouts("grow", 1, 1, {4})}

(* Files that something is amiss with: a page that is lost, comes twice or *)
(* has a bad checksum, and flags of all kinds.                             *)
Few == Layouts("grow", 1, 4, {5})

Amiss ==
  UNION {{RemoveAt(x, i), InsertAt(x, i, x[i]), [x EXCEPT ![i].crc = FALSE]}
           : x \in Few, i \in 1 .. 5}
  \cup {[x EXCEPT ![i].type = t] : x \in Few, i \in 1 .. 5, t \in 0 .. 7}

OddFiles == {v \in Regular : Gap(v)} \cup Chained \cup Amiss

-----------------------------------------------------------------------------
opVars == <<file, at, s, acc, cs, links, li, k, w, out, phase>>
pageVars == <<pages, sound, pi, h, hand, meta, packs, counts, written, stage>>
cmtVars == <<packet, cmt, jobs>>
rangeVars == <<frame, dec, mirror, vals, state>>
frameVars == <<stream, place, side, pk, fr, st, locals, read, ec, todo, oc, orig, made, code, fh, gone, walk>>

audioVars == <<given, vb, pkt, io, work, step>>

O == INSTANCE OpusPages WITH Word <- PageWord
V == INSTANCE VorbisPages
C == INSTANCE Comments WITH
       C_BLOCK <- 4, C_WINDOW <- 4, MinMatch <- 2, C_MATCH <- 3, WordBytes <- 2, HashOf <- CommentHash,
       C_HASH <- 0 .. 3, Dictionary <- <<1, 2>>, PictureKey <- <<80, 61>>

R == INSTANCE OpusRange WITH
       SymBits <- 3, CodeBits <- 11, UintBits <- 3, WindowBits <- 9, LapBits <- 6, LapMin <- 2,
       RangeOps <- RangeAsked, RangeFrames <- RangeSmall, MaxValues <- 3
F == INSTANCE OpusFrames WITH
       f <- locals, got <- read, built <- made, phase <- walk,
       Streams <- MCStreams, Places <- MCPlaces, Reserve <- MCReserve, Order <- 1, Subframes <- 2, Blocks <- 1,
       Shell <- 2, MaxShift <- 1, Bands <- 2, Width <- 4, MaxBoost <- 1, Past <- 2

ASSUME FormatsAssumption == PacketAssumption /\ SymbolAssumption /\ CountAssumption

A == INSTANCE VorbisAudio WITH
       v <- vb, LenMax <- 4, FastBits <- 3, EntBits <- 6, MaxEntries <- 5, SizeBits <- 5, ByteBits <- 3,
       MagBits <- 3, MaxIndex <- 4, MaxSymbols <- 3, Passes <- 2, NPart <- 2,
       Setups <- AudioSetups \cup BookSetups, PacketsOf <- AudioPackets

OpusIdle ==
  file = 0 /\ at = 0 /\ s = 0 /\ acc = 0 /\ cs = 0 /\ links = 0 /\ li = 0 /\ k = 0 /\ w = 0 /\ out = 0
  /\ phase = 0

VorbisIdle ==
  pages = 0 /\ sound = 0 /\ pi = 0 /\ h = 0 /\ hand = 0 /\ meta = 0 /\ packs = 0 /\ counts = 0 /\ written = 0
  /\ stage = 0

(* Without symbols a model rests with its first table.                     *)
SymbolsIdle == ops = <<>> /\ model = om_init("pack") /\ got = <<>> /\ doing = "idle"

CommentsIdle == packet = 0 /\ cmt = 0 /\ jobs = 0

RangeIdle == frame = 0 /\ dec = 0 /\ mirror = 0 /\ vals = 0 /\ state = 0

PacketsIdle == whole = Nothing /\ archive = <<>> /\ built = Nothing /\ turn = "idle"

FramesIdle ==
  stream = 0 /\ place = 0 /\ side = 0 /\ pk = 0 /\ fr = 0 /\ st = 0 /\ locals = 0 /\ read = 0 /\ ec = 0
  /\ todo = 0 /\ oc = 0 /\ orig = 0 /\ made = 0 /\ code = 0 /\ fh = 0 /\ gone = 0 /\ walk = 0

AudioIdle == given = 0 /\ vb = 0 /\ pkt = 0 /\ io = 0 /\ work = 0 /\ step = 0

FilesIdle == OpusIdle /\ VorbisIdle /\ AudioIdle

CodersIdle == RangeIdle /\ PacketsIdle /\ FramesIdle

Init ==
  \/ focus = "opus" /\ O!Init /\ VorbisIdle /\ AudioIdle /\ SymbolsIdle /\ CommentsIdle /\ CodersIdle
  \/ focus = "vorbis" /\ V!Init /\ OpusIdle /\ AudioIdle /\ SymbolsIdle /\ CommentsIdle /\ CodersIdle
  \/ focus = "symbols" /\ SymbolInit /\ FilesIdle /\ CommentsIdle /\ CodersIdle
  \/ focus = "comments" /\ C!Init /\ FilesIdle /\ SymbolsIdle /\ CodersIdle
  \/ focus = "range" /\ R!Init /\ FilesIdle /\ SymbolsIdle /\ CommentsIdle /\ PacketsIdle
                     /\ FramesIdle
  \/ focus = "packets" /\ FramingInit /\ FilesIdle /\ SymbolsIdle /\ CommentsIdle /\ RangeIdle
                       /\ FramesIdle
  \/ focus = "frames" /\ F!Init /\ FilesIdle /\ SymbolsIdle /\ CommentsIdle /\ RangeIdle
                      /\ PacketsIdle
  \/ focus = "audio" /\ A!Init /\ OpusIdle /\ VorbisIdle /\ SymbolsIdle /\ CommentsIdle /\ CodersIdle

OpusNext ==
  \/ O!ParsePage \/ O!opus_pack_link
  \/ O!opus_unpack_link \/ O!WriteTags \/ O!EndTags \/ O!WritePacket \/ O!EndLink

VorbisNext == V!enc_link_page \/ V!enc_link_end \/ V!vb_unpack_page \/ V!vb_unpack_link

SymbolsNext == Pack \/ Turn \/ Unpack

CommentsNext ==
  \/ C!Form \/ C!Vendor \/ C!Count \/ C!Field \/ C!FieldValue \/ C!EndOfFields
  \/ C!TextRead \/ C!TextStep \/ C!TextEnd \/ C!ImageQuad \/ C!Decode

RangeNext == R!ec_dec_op \/ R!oe_close

PacketsNext == opus_pack_packet \/ opus_unpack_header \/ opus_unpack_frames

FramesNext ==
  \/ F!opus_decode \/ F!ec_dec_init \/ F!analyze_op \/ F!synth_op \/ F!om_frame_stored \/ F!oe_close
  \/ F!NextFrame \/ F!NextPacket \/ F!Refused

files == <<opVars, pageVars, audioVars>>
coders == <<rangeVars, packetVars, frameVars>>

Next ==
  \/ focus = "opus" /\ UNCHANGED <<focus, pageVars, audioVars, symVars, cmtVars, coders>> /\ OpusNext
  \/ focus = "vorbis" /\ UNCHANGED <<focus, opVars, audioVars, symVars, cmtVars, coders>> /\ VorbisNext
  \/ focus = "symbols" /\ UNCHANGED <<focus, files, cmtVars, coders>> /\ SymbolsNext
  \/ focus = "comments" /\ UNCHANGED <<focus, files, symVars, coders>> /\ CommentsNext
  \/ focus = "range" /\ UNCHANGED <<focus, files, symVars, cmtVars, packetVars, frameVars>> /\ RangeNext
  \/ focus = "packets" /\ UNCHANGED <<focus, files, symVars, cmtVars, rangeVars, frameVars>> /\ PacketsNext
  \/ focus = "frames" /\ UNCHANGED <<focus, files, symVars, cmtVars, rangeVars, packetVars>> /\ FramesNext
  \/ focus = "audio" /\ UNCHANGED <<focus, opVars, pageVars, symVars, cmtVars, coders>> /\ A!Next

vars == <<focus, files, symVars, cmtVars, coders>>

Spec == Init /\ [][Next]_vars

OpusComesBack == focus = "opus" => O!OpusComesBack
PagesComeBack == focus = "vorbis" => V!PagesComeBack
SoundPacked == focus = "vorbis" => V!SoundPacked
CommentsComeBack == focus = "comments" => C!CommentsComeBack
TellsAgree == focus = "range" => R!TellsAgree
MirrorReads == focus = "range" => R!MirrorReads
InStep == focus = "frames" => F!InStep
FramesComeBack == focus = "frames" => F!FramesComeBack
AudioComesBack == focus = "audio" => A!AudioComesBack
BooksBuilt == focus = "audio" => A!BooksBuilt
=============================================================================
